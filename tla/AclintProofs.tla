---------------------------- MODULE AclintProofs ----------------------------
EXTENDS AclintDriver, Integers, TLAPS

LEMMA HalvesJoin ==
  ASSUME NEW hi \in 0 .. HI_MOD - 1, NEW lo \in 0 .. LO_MOD - 1
  PROVE  Join(hi, lo) \in Times
<1>1. hi * LO_MOD <= (HI_MOD - 1) * LO_MOD
  BY ModAssumption
<1>2. (HI_MOD - 1) * LO_MOD = LO_MOD * HI_MOD - LO_MOD
  BY ModAssumption
<1>3. hi * LO_MOD \in Nat
  BY ModAssumption
<1> QED BY <1>1, <1>2, <1>3, ModAssumption DEF Join, Times

LEMMA HalvesOf ==
  ASSUME NEW t \in Times
  PROVE  /\ Hi(t) \in 0 .. HI_MOD - 1
         /\ Lo(t) \in 0 .. LO_MOD - 1
         /\ Join(Hi(t), Lo(t)) = t
<1>1. t = LO_MOD * (t \div LO_MOD) + (t % LO_MOD) /\ t % LO_MOD \in 0 .. LO_MOD - 1
  BY ModAssumption DEF Times
<1>2. t \div LO_MOD \in Int
  BY ModAssumption DEF Times
<1>3. 0 <= t \div LO_MOD
  BY <1>1, <1>2, ModAssumption DEF Times
<1>4. t \div LO_MOD < HI_MOD
  <2>1. SUFFICES ASSUME t \div LO_MOD >= HI_MOD PROVE FALSE
    BY <1>2, ModAssumption
  <2>2. LO_MOD * (t \div LO_MOD) >= LO_MOD * HI_MOD
    BY <1>2, <2>1, ModAssumption
  <2> QED BY <1>1, <2>2, ModAssumption DEF Times
<1> QED BY <1>1, <1>2, <1>3, <1>4, ModAssumption DEF Hi, Lo, Join, Times

LEMMA MergeType ==
  ASSUME NEW t \in Times, NEW u \in Times, NEW halves
  PROVE  /\ Merge(t, halves, u) \in Times
         /\ Merge(t, {}, u) = t
BY HalvesJoin, HalvesOf DEF Merge

LEMMA AccessType ==
  /\ 0 \in Times /\ AllOnes \in Times
  /\ NoAccess \in Access /\ ReadLo \in Access
  /\ \A reg \in {"mtime", "mtimecmp"}, half \in Halves, t \in Times : Store(reg, half, t) \in Access
<1>1. LO_MOD * HI_MOD \in Nat /\ LO_MOD * HI_MOD >= 1
  BY ModAssumption
<1>2. 0 \in Times /\ AllOnes \in Times
  BY <1>1 DEF Times, AllOnes
<1> QED BY <1>2, MergeType DEF NoAccess, ReadLo, Store, Access, Halves

LEMMA OscType ==
  ASSUME NEW o \in Osc, NEW wake \in BOOLEAN, NEW enable \in BOOLEAN
  PROVE  /\ OscPreset \in Osc /\ osc_en_o(OscPreset)
         /\ OscEdge(o, wake, enable) \in Osc
         /\ enable => osc_en_o(OscEdge(o, wake, enable))
<1>1. OscPreset = [hold |-> 2, announce |-> TRUE, run |-> TRUE]
  BY DEF OscPreset
<1>2. o.hold \in 0 .. 2 /\ o.announce \in BOOLEAN
  BY DEF Osc
<1>3. CASE wake
  BY <1>1, <1>3 DEF OscEdge, Osc, osc_en_o
<1>4. CASE ~wake /\ o.hold > 0
  <2>1. OscEdge(o, wake, enable) = [hold |-> o.hold - 1, announce |-> TRUE, run |-> TRUE]
    BY <1>1, <1>4 DEF OscEdge
  <2> QED BY <1>1, <1>2, <1>4, <2>1 DEF Osc, osc_en_o
<1>5. CASE ~wake /\ ~(o.hold > 0)
  <2>1. OscEdge(o, wake, enable) =
          [hold |-> 0, announce |-> enable, run |-> o.announce \/ enable]
    BY <1>5 DEF OscEdge
  <2>2. o.announce \/ enable \in BOOLEAN
    BY <1>2
  <2> QED BY <1>1, <2>1, <2>2 DEF Osc, osc_en_o
<1> QED BY <1>3, <1>4, <1>5

LEMMA InitType == MInit => TypeOK
<1>1. Settled \in Nat
  BY PhaseAssumption DEF Settled
<1> QED
  BY <1>1, AccessType, OscType DEF MInit, TypeOK, Osc, OscPreset, Halves

(* One hclk edge keeps every register in its range, whatever transfer comes *)
(* and whoever asks for the clock.                                          *)
LEMMA HclkEdgeType ==
  ASSUME TypeOK, NEW aph \in Access, NEW other \in BOOLEAN, HclkEdge(aph, other)
  PROVE  TypeOK'
<1>1. Settled \in Nat
  BY PhaseAssumption DEF Settled
<1>2. /\ Stored("mtime") \in SUBSET Halves /\ Stored("mtimecmp") \in SUBSET Halves
      /\ dph.val \in Times
  BY DEF TypeOK, Access, Stored
<1>3. lf_tick \in BOOLEAN /\ load_launch \in BOOLEAN /\ wr_pending \in BOOLEAN
      /\ cnt.wake \in BOOLEAN /\ hclk_en(aph) \in BOOLEAN
  BY DEF TypeOK, lf_tick, load_launch, wr_pending, hclk_en
<1>4. osc' \in Osc
  BY <1>3, OscType, StyleAssumption DEF TypeOK, HclkEdge
<1>5. \A a : TrustNext(a) \in 0 .. 2 /\ Keeps(a) \in BOOLEAN
  BY StyleAssumption DEF TypeOK, TrustNext, Keeps, Least, lf_trust_rstn
<1>6. tick' \in [meta: BOOLEAN, sync: BOOLEAN, s3: BOOLEAN, d: BOOLEAN, trust: 0 .. 2, warm: 0 .. 4]
  BY <1>5 DEF TypeOK, HclkEdge, TickNext, SampledLf, Least
<1>7. view' \in [mirror: Times, valid: BOOLEAN]
  BY <1>3, <1>5 DEF TypeOK, HclkEdge, ViewNext
<1>8. wr' \in [cmp_s1: Times, cmp_s2: Times, cmp_recent: BOOLEAN, mtime_s1: Times,
                wr_recent: BOOLEAN, load_pend: SUBSET Halves, load_req: BOOLEAN,
                load_we: SUBSET Halves, load_val: Times]
  <2>1. /\ Merge(wr.cmp_s1, Stored("mtimecmp"), dph.val) \in Times
        /\ Merge(wr.mtime_s1, Stored("mtime"), dph.val) \in Times
    BY <1>2, MergeType DEF TypeOK
  <2>2. \A r, s : RecentNext(r, s) \in BOOLEAN
    BY DEF RecentNext
  <2> QED BY <1>2, <1>3, <2>1, <2>2 DEF TypeOK, HclkEdge, WrNext, load_pend_nxt
<1>9. dph' \in Access
  BY DEF TypeOK, HclkEdge
<1>10. lf' \in [level: BOOLEAN, since: 0 .. Settled, risen: 0 .. Settled]
  <2>1. lf' = [level |-> lf.level, since |-> Least(lf.since + 1, Settled),
               risen |-> Least(lf.risen + 1, Settled)]
    BY DEF HclkEdge, TypeOK
  <2>2. \A n \in 0 .. Settled : Least(n + 1, Settled) \in 0 .. Settled
    BY <1>1 DEF Least
  <2> QED BY <2>1, <2>2 DEF TypeOK
<1>11. ghost' \in [fresh: SUBSET Halves, joined: BOOLEAN, owed: BOOLEAN]
  BY <1>2 DEF TypeOK, HclkEdge
<1>12. cnt' = cnt
  BY DEF HclkEdge
<1> QED BY <1>4, <1>6, <1>7, <1>8, <1>9, <1>10, <1>11, <1>12 DEF TypeOK

LEMMA LfStepType ==
  ASSUME TypeOK, LfStep
  PROVE  TypeOK'
<1>1. Settled \in Nat
  BY PhaseAssumption DEF Settled
<1>2. CASE LfRise
  <2>1. mtime_load \in BOOLEAN
    BY DEF TypeOK, mtime_load
  <2>2. mtime_next \in Times
    <3>1. cnt.mtime < MAX_TIME => cnt.mtime + 1 \in Times
      BY TimeAssumption, ModAssumption DEF TypeOK, Times
    <3> QED BY <3>1, MergeType DEF TypeOK, mtime_next
  <2>3. cnt' \in [mtime: Times, load_req_d: BOOLEAN, wake: BOOLEAN]
    BY <1>2, <2>2 DEF TypeOK, LfRise
  <2>4. osc' \in Osc
    BY <1>2, OscType DEF TypeOK, LfRise
  <2>5. lf' \in [level: BOOLEAN, since: 0 .. Settled, risen: 0 .. Settled]
    BY <1>1, <1>2 DEF LfRise
  <2>6. ghost' \in [fresh: SUBSET Halves, joined: BOOLEAN, owed: BOOLEAN]
    BY <1>2, <2>1 DEF TypeOK, LfRise
  <2>7. UNCHANGED <<tick, wr, view, dph>>
    BY <1>2 DEF LfRise
  <2> QED BY <2>3, <2>4, <2>5, <2>6, <2>7 DEF TypeOK
<1>3. CASE LfFall
  <2>1. lf' \in [level: BOOLEAN, since: 0 .. Settled, risen: 0 .. Settled]
    <3>1. lf' = [level |-> FALSE, since |-> 0, risen |-> lf.risen]
      BY <1>3 DEF TypeOK, LfFall
    <3> QED BY <1>1, <3>1 DEF TypeOK
  <2>2. UNCHANGED <<osc, tick, wr, cnt, view, dph, ghost>>
    BY <1>3 DEF LfFall
  <2> QED BY <2>1, <2>2 DEF TypeOK
<1>4. CASE OtherWake
  <2>1. lf' \in [level: BOOLEAN, since: 0 .. Settled, risen: 0 .. Settled]
    BY <1>1, <1>4 DEF TypeOK, OtherWake
  <2>2. osc' \in Osc
    BY <1>4, OscType DEF OtherWake, TypeOK
  <2>3. UNCHANGED <<tick, wr, cnt, view, dph, ghost>>
    BY <1>4 DEF OtherWake
  <2> QED BY <2>1, <2>2, <2>3 DEF TypeOK
<1> QED BY <1>2, <1>3, <1>4 DEF LfStep

(* The timer keeps its types under any bus traffic and any clock control.  *)
THEOREM TimerTypeCorrect == MSpec => []TypeOK
<1>1. TypeOK /\ [MNext]_mvars => TypeOK'
  <2>1. ASSUME TypeOK, MNext PROVE TypeOK'
    <3>1. CASE LfStep
      BY <2>1, <3>1, LfStepType
    <3>2. CASE \E aph \in Traffic \cup {NoAccess}, other \in BOOLEAN : HclkEdge(aph, other)
      BY <2>1, <3>2, HclkEdgeType, AccessType, TrafficAssumption
    <3> QED BY <2>1, <3>1, <3>2 DEF MNext
  <2>2. TypeOK /\ UNCHANGED mvars => TypeOK'
    BY DEF TypeOK, mvars
  <2> QED BY <2>1, <2>2
<1> QED BY InitType, <1>1, PTL DEF MSpec

----------------------------------------------------------------------------
CpuOK ==
  cpu \in [pc: {"run", "wfi"}, todo: Seq(Access), old: Times, new: Times]

(* A deadline the wake comparator does not have yet is known to be on its   *)
(* way, and what is on its way holds the clock.                             *)
DeadlineOnItsWay == wr.cmp_s1 # wr.cmp_s2 => wr.cmp_recent
IInv == TypeOK /\ CpuOK /\ RequestsHoldClock /\ DeadlineOnItsWay

LEMMA StoresType ==
  /\ aclint_timer_disable \in Seq(Access) /\ aclint_timer_disable # <<>>
  /\ \A d \in Times : aclint_timer_set(d) \in Seq(Access) /\ aclint_timer_set(d) # <<>>
BY AccessType DEF aclint_timer_disable, aclint_timer_set, Halves

LEMMA CallType ==
  ASSUME CpuOK, NEW stores \in Seq(Access), stores # <<>>, NEW d \in Times, Call(stores, d)
  PROVE  CpuOK' /\ Head(stores) \in Access /\ HclkEdge(Head(stores), TRUE)
<1>1. Head(stores) \in Access /\ Tail(stores) \in Seq(Access)
  OBVIOUS
<1>2. Least(cpu.old, cpu.new) \in Times
  BY DEF CpuOK, Least
<1>3. \E old \in Times : cpu' = [pc |-> "run", todo |-> Tail(stores), new |-> d, old |-> old]
  BY <1>2 DEF Call, CpuOK
<1> QED BY <1>1, <1>3 DEF CpuOK, Call

(* A step of the hart is an hclk edge, with the clock requested unless the  *)
(* hart stays asleep.                                                       *)
LEMMA HartStepIsEdge ==
  ASSUME CpuOK, HartStep
  PROVE  /\ CpuOK'
         /\ \E aph \in Access, other \in BOOLEAN :
              HclkEdge(aph, other) /\ (cpu'.pc = "run" => other)
<1>1. ASSUME NEW d \in Deadlines, Call(aclint_timer_set(d), d)
      PROVE  CpuOK' /\ \E aph \in Access : HclkEdge(aph, TRUE)
  BY <1>1, CallType, StoresType, DeadlineAssumption
<1>2. ASSUME Call(aclint_timer_disable, AllOnes)
      PROVE  CpuOK' /\ \E aph \in Access : HclkEdge(aph, TRUE)
  BY <1>2, CallType, StoresType, AccessType
<1>3. ASSUME NextStore
      PROVE  CpuOK' /\ \E aph \in Access : HclkEdge(aph, TRUE)
  <2>1. Head(cpu.todo) \in Access /\ Tail(cpu.todo) \in Seq(Access)
    BY <1>3 DEF NextStore, CpuOK
  <2>2. cpu' = [cpu EXCEPT !.todo = Tail(cpu.todo)]
    BY <1>3 DEF NextStore
  <2> QED BY <1>3, <2>1, <2>2 DEF NextStore, CpuOK
<1>4. ASSUME aclint_mtime_lo
      PROVE  CpuOK' /\ \E aph \in Access : HclkEdge(aph, TRUE)
  BY <1>4, AccessType DEF aclint_mtime_lo, CpuOK
<1>5. ASSUME Compute \/ Wfi \/ Resume
      PROVE  CpuOK' /\ \E aph \in Access : HclkEdge(aph, TRUE)
  <2>1. cpu' = cpu \/ \E pc \in {"run", "wfi"} : cpu' = [cpu EXCEPT !.pc = pc]
    BY <1>5 DEF Compute, Wfi, Resume
  <2>2. HclkEdge(NoAccess, TRUE)
    BY <1>5 DEF Compute, Wfi, Resume
  <2> QED BY <2>1, <2>2, AccessType DEF CpuOK
<1>6. ASSUME Sleep
      PROVE  CpuOK' /\ \E aph \in Access, other \in BOOLEAN :
               HclkEdge(aph, other) /\ (cpu'.pc = "run" => other)
  BY <1>6, AccessType DEF Sleep, CpuOK
<1> QED BY <1>1, <1>2, <1>3, <1>4, <1>5, <1>6 DEF HartStep

LEMMA EdgeHoldsClock ==
  ASSUME TypeOK, NEW aph \in Access, NEW other \in BOOLEAN, HclkEdge(aph, other)
  PROVE  other \/ (dph # NoAccess)' \/ wr_pending' => osc_en_o(osc)'
<1>1. dph' # NoAccess => hclk_en(aph)
  BY DEF HclkEdge, hclk_en
<1>2. wr_pending' => hclk_en(aph)
  <2>1. ASSUME dph = NoAccess, ~wr_pending PROVE ~wr_pending'
    <3>1. \A reg : Stored(reg) = {}
      BY <2>1 DEF Stored, NoAccess
    <3>2. wr' = WrNext
      BY DEF HclkEdge
    <3>3. wr'.load_pend = {} /\ ~wr'.load_req
      BY <2>1, <3>1, <3>2 DEF WrNext, load_pend_nxt, load_launch, wr_pending
    <3>4. ~wr'.wr_recent /\ ~wr'.cmp_recent
      BY <2>1, <3>1, <3>2 DEF WrNext, RecentNext, wr_pending
    <3> QED BY <3>3, <3>4 DEF wr_pending
  <2> QED BY <2>1 DEF hclk_en
<1>3. cnt.wake \in BOOLEAN /\ hclk_en(aph) \in BOOLEAN /\ osc \in Osc
  BY DEF TypeOK, hclk_en, wr_pending
<1>4. osc' = OscEdge(osc, cnt.wake, other \/ (HONOURS /\ hclk_en(aph)))
  BY DEF HclkEdge
<1>5. ASSUME other \/ hclk_en(aph) PROVE osc_en_o(osc')
  BY <1>3, <1>4, <1>5, OscType, HonoursAssumption
<1> QED BY <1>1, <1>2, <1>5 DEF osc_en_o

LEMMA EdgeKeepsDeadline ==
  ASSUME TypeOK, DeadlineOnItsWay, NEW aph, NEW other, HclkEdge(aph, other)
  PROVE  DeadlineOnItsWay'
<1>1. wr' = WrNext
  BY DEF HclkEdge
<1>2. wr'.cmp_s2 = IF lf_tick THEN wr.cmp_s1 ELSE wr.cmp_s2
  BY <1>1 DEF WrNext
<1>3. CASE Stored("mtimecmp") = {}
  <2>1. wr'.cmp_s1 = wr.cmp_s1
    <3>1. wr.cmp_s1 \in Times /\ dph.val \in Times
      BY DEF TypeOK, Access
    <3>2. Merge(wr.cmp_s1, {}, dph.val) = wr.cmp_s1
      BY <3>1, MergeType
    <3> QED BY <1>1, <1>3, <3>2 DEF WrNext
  <2>2. wr'.cmp_recent <=> wr.cmp_recent /\ ~lf_tick
    BY <1>1, <1>3 DEF WrNext, RecentNext
  <2> QED BY <1>2, <2>1, <2>2 DEF DeadlineOnItsWay
<1>4. CASE Stored("mtimecmp") # {}
  BY <1>1, <1>4 DEF WrNext, RecentNext, DeadlineOnItsWay
<1> QED BY <1>3, <1>4

LEMMA InvariantHolds == DSpec => []IInv
<1>1. DInit => IInv
  <2>1. ASSUME DInit PROVE TypeOK
    BY <2>1, InitType DEF DInit
  <2>2. ASSUME DInit PROVE CpuOK
    BY <2>2, AccessType DEF DInit, CpuOK
  <2>3. ASSUME DInit PROVE RequestsHoldClock /\ DeadlineOnItsWay
    <3>1. wr.cmp_s1 = wr.cmp_s2
      BY <2>3 DEF DInit, MInit
    <3>2. osc_en_o(osc)
      BY <2>3 DEF DInit, MInit, OscPreset, osc_en_o
    <3> QED BY <3>1, <3>2 DEF RequestsHoldClock, DeadlineOnItsWay
  <2> QED BY <2>1, <2>2, <2>3 DEF IInv
<1>2. IInv /\ [DNext]_dvars => IInv'
  <2>0. SUFFICES ASSUME IInv, [DNext]_dvars PROVE IInv'
    OBVIOUS
  <2>1. CASE HartStep
    <3>1. PICK aph \in Access, other \in BOOLEAN :
            HclkEdge(aph, other) /\ (cpu'.pc = "run" => other)
      BY <2>0, <2>1, HartStepIsEdge DEF IInv
    <3>2. CpuOK'
      BY <2>0, <2>1, HartStepIsEdge DEF IInv
    <3>3. TypeOK'
      BY <2>0, <3>1, HclkEdgeType DEF IInv
    <3>4. RequestsHoldClock'
      BY <2>0, <3>1, EdgeHoldsClock DEF IInv, RequestsHoldClock
    <3>5. DeadlineOnItsWay'
      BY <2>0, <3>1, EdgeKeepsDeadline DEF IInv
    <3> QED BY <3>2, <3>3, <3>4, <3>5 DEF IInv
  <2>2. CASE LfStep /\ UNCHANGED cpu
    <3>1. TypeOK'
      BY <2>0, <2>2, LfStepType DEF IInv
    <3>2. UNCHANGED <<wr, dph, cpu>>
      BY <2>2 DEF LfStep, LfRise, LfFall, OtherWake
    <3>3. osc' = osc \/ osc' = OscPreset
      BY <2>2 DEF LfStep, LfRise, LfFall, OtherWake
    <3>4. osc_en_o(osc) => osc_en_o(osc')
      BY <3>3, OscType, <2>0 DEF IInv, TypeOK
    <3>5. wr_pending' <=> wr_pending
      BY <3>2 DEF wr_pending
    <3>6. RequestsHoldClock'
      BY <2>0, <3>2, <3>4, <3>5 DEF IInv, RequestsHoldClock, osc_en_o
    <3> QED BY <2>0, <3>1, <3>2, <3>6 DEF IInv, CpuOK, DeadlineOnItsWay
  <2>3. CASE UNCHANGED dvars
    BY <2>0, <2>3
    DEF IInv, TypeOK, CpuOK, RequestsHoldClock, DeadlineOnItsWay, wr_pending, osc_en_o, dvars, mvars
  <2> QED BY <2>0, <2>1, <2>2, <2>3 DEF DNext
<1> QED BY <1>1, <1>2, PTL DEF DSpec

(* The oscillator never stops under a hart that runs, a transfer or a store *)
(* on its way, whatever the rest of the chip requests and wakes.            *)
THEOREM ClockHeld == DSpec => []RequestsHoldClock
<1>1. IInv => RequestsHoldClock
  BY DEF IInv
<1> QED BY <1>1, InvariantHolds, PTL

(* The chip never sleeps through the deadline software stored last: either  *)
(* the wake comparator has it, or it is on its way and the clock runs.      *)
THEOREM DeadlineNotSleptThrough == DSpec => NoOversleep
<1>1. ASSUME IInv, LfRise, cnt'.mtime >= wr.cmp_s1
      PROVE  osc_en_o(osc')
  <2>1. cnt'.wake <=> cnt'.mtime >= wr.cmp_s2
    BY <1>1 DEF LfRise
  <2>2. CASE wr.cmp_s1 = wr.cmp_s2
    BY <1>1, <2>1, <2>2, OscType DEF LfRise, IInv, TypeOK
  <2>3. CASE wr.cmp_s1 # wr.cmp_s2
    <3>1. osc_en_o(osc)
      BY <1>1, <2>3 DEF IInv, DeadlineOnItsWay, RequestsHoldClock, wr_pending
    <3> QED BY <1>1, <3>1, OscType DEF LfRise, IInv, TypeOK
  <2> QED BY <2>2, <2>3
<1>2. IInv => [LfRise /\ cnt'.mtime >= wr.cmp_s1 => osc_en_o(osc')]_dvars
  BY <1>1
<1> QED BY <1>2, InvariantHolds, PTL DEF NoOversleep

----------------------------------------------------------------------------
(* Edges of hclk since the oscillator last started, as far as the trust     *)
(* synchronizer and the warm-up counter tell.                               *)
Age == IF tick.warm > 0 THEN 2 + tick.warm ELSE tick.trust

TrustInv ==
  /\ ~clk_en_o(osc) => tick.trust = 0
  /\ ~osc_en_o(osc) => ~clk_en_o(osc) /\ tick.warm = 0
  /\ view.valid => tick.warm = 4

(* How long ago clk_lf rose.  A phase that began before the last start may  *)
(* be shorter than allowed; Age bounds it from below.                       *)
PhaseInv ==
  /\ lf.level => lf.risen <= lf.since
  /\ lf.level /\ lf.risen < lf.since => lf.risen >= Age \/ lf.risen >= 3
  /\ ~lf.level => /\ lf.risen >= Age \/ lf.risen >= 2
                  /\ HIGH_MIN >= 3 \/ lf.since >= 1 => lf.risen >= Age \/ lf.risen >= 3

(* What the samples in the pipeline must be, from the time since clk_lf     *)
(* changed, once they were all taken after the start.                       *)
HighInv ==
  lf.level =>
    /\ Age >= 2 /\ lf.since = 0 => ~tick.meta
    /\ Age >= 4 /\ lf.since = 0 => (tick.sync => tick.s3)
    /\ Age >= 5 /\ lf.since <= 1 => (tick.s3 => tick.d)
    /\ Age >= 3 /\ lf.since = 1 => ~tick.sync
    /\ Age >= 5 /\ lf.since = 2 => ~tick.s3
    /\ Age >= 1 /\ lf.since >= 2 => tick.meta
    /\ Age >= 2 /\ lf.since >= 3 => tick.sync
LowInv ==
  ~lf.level =>
    /\ Age >= 2 /\ lf.since = 0 => tick.meta /\ (HIGH_MIN >= 3 \/ lf.risen >= 3 => tick.sync)
    /\ Age >= 5 /\ lf.since = 0 /\ lf.risen = 2 => ~tick.s3
    /\ Age >= 3 /\ lf.since = 1 => tick.sync /\ (HIGH_MIN >= 3 => tick.s3)
    /\ Age >= 1 /\ lf.since >= 2 => ~tick.meta
    /\ Age >= 4 /\ lf.since >= 2 => (tick.sync => tick.s3)
    /\ Age >= 5 /\ (lf.since >= 3 \/ (lf.since = 2 /\ HIGH_MIN >= 3)) => (tick.s3 => tick.d)

(* A rising edge of clk_lf that may still become a tick.                    *)
RiseInPipe ==
  \/ lf.level /\ lf.since = 0
  \/ (lf.level \/ lf.since = 0) /\ ~tick.meta
  \/ tick.meta /\ ~tick.sync
  \/ tick.sync /\ ~tick.s3
  \/ tick.s3 /\ ~tick.d

(* Between two ticks lies a rising edge: it has taken the load launched at  *)
(* the first, and what was stored before it has set wr_recent.              *)
LoadInv ==
  /\ ghost.owed <=> mtime_load
  /\ RiseInPipe => cnt.load_req_d = wr.load_req
  /\ RiseInPipe => wr.wr_recent \/ ghost.fresh = {}
  /\ ghost.fresh \subseteq wr.load_pend
  /\ ghost.joined => wr.load_pend = Halves

(* The mirror against the counter, and the shadow against the load.         *)
MirrorInv ==
  /\ mtime_load => view.mirror = cnt.mtime
  /\ wr.load_req /\ cnt.load_req_d =>
       cnt.mtime >= Merge(view.mirror, wr.load_we, wr.load_val)
  /\ ~wr.load_req => view.mirror <= cnt.mtime
  /\ wr.load_req /\ "lo" \in wr.load_we \ wr.load_pend => Lo(wr.mtime_s1) = Lo(wr.load_val)
  /\ wr.load_req /\ "hi" \in wr.load_we \ wr.load_pend => Hi(wr.mtime_s1) = Hi(wr.load_val)

SampleInv == TypeOK /\ TrustInv /\ PhaseInv /\ HighInv /\ LowInv
TimerInv == SampleInv /\ LoadInv /\ MirrorInv

----------------------------------------------------------------------------
(* The driver never stores to MTIME, so nothing is ever loaded.             *)
NoLoads == wr.load_pend = {} /\ ~wr.load_req /\ Stored("mtime") = {}

(* The deadline after the store in its data phase.                          *)
Coming == Merge(wr.cmp_s1, Stored("mtimecmp"), dph.val)

(* The stores still to come make the new deadline out of the present one,   *)
(* which no store leaves below both the old and the new one.                *)
CallInv ==
  /\ wr.cmp_s1 >= Least(cpu.old, cpu.new) /\ Coming >= Least(cpu.old, cpu.new)
  /\ \/ cpu.todo = <<>> /\ Coming = cpu.new
     \/ cpu.todo = <<Store("mtimecmp", "lo", cpu.new)>> /\ Coming = Join(Hi(cpu.new), LO_MOD - 1)
     \/ /\ Lo(Coming) = LO_MOD - 1
        /\ \/ cpu.todo = <<Store("mtimecmp", "hi", cpu.new), Store("mtimecmp", "lo", cpu.new)>>
           \/ cpu.todo = <<Store("mtimecmp", "hi", cpu.new)>> /\ cpu.new = AllOnes

(* While the mirror is valid the counter is ahead of it by at most the edge *)
(* on its way.                                                              *)
ReadInv ==
  view.valid => cnt.mtime <= view.mirror + (IF RiseInPipe THEN 1 ELSE 0)

DriverInv == TimerInv /\ CpuOK /\ NoLoads /\ CallInv /\ ReadInv

----------------------------------------------------------------------------
(* Halves. *)
LEMMA JoinedHalves ==
  ASSUME NEW hi \in 0 .. HI_MOD - 1, NEW lo \in 0 .. LO_MOD - 1
  PROVE  Hi(Join(hi, lo)) = hi /\ Lo(Join(hi, lo)) = lo
<1> DEFINE t == Join(hi, lo)
<1>1. t \in Times
  BY HalvesJoin
<1>2. PICK h \in 0 .. HI_MOD - 1 : h = Hi(t)
  BY <1>1, HalvesOf
<1>3. PICK l \in 0 .. LO_MOD - 1 : l = Lo(t)
  BY <1>1, HalvesOf
<1>4. h * LO_MOD + l = hi * LO_MOD + lo
  BY <1>1, <1>2, <1>3, HalvesOf DEF Join
<1>5. (h - hi) * LO_MOD = lo - l
  BY <1>4, ModAssumption
<1>6. CASE h - hi >= 1
  <2>1. (h - hi) * LO_MOD >= LO_MOD
    BY <1>6, ModAssumption
  <2> QED BY <1>5, <2>1, ModAssumption
<1>7. CASE h - hi <= -1
  <2>1. (hi - h) * LO_MOD >= LO_MOD
    BY <1>7, ModAssumption
  <2>2. (hi - h) * LO_MOD = l - lo
    BY <1>5, ModAssumption
  <2> QED BY <2>1, <2>2, ModAssumption
<1>8. CASE h = hi
  BY <1>2, <1>3, <1>4, <1>8, ModAssumption
<1> QED BY <1>6, <1>7, <1>8, ModAssumption

LEMMA LaterHalves ==
  ASSUME NEW a \in Times, NEW b \in Times
  PROVE  /\ a <= b => Hi(a) <= Hi(b)
         /\ Hi(a) < Hi(b) => a < b
         /\ Hi(a) = Hi(b) /\ Lo(a) <= Lo(b) => a <= b
<1>1. PICK ha \in 0 .. HI_MOD - 1, la \in 0 .. LO_MOD - 1 :
        ha = Hi(a) /\ la = Lo(a) /\ a = ha * LO_MOD + la
  BY HalvesOf DEF Join
<1>2. PICK hb \in 0 .. HI_MOD - 1, lb \in 0 .. LO_MOD - 1 :
        hb = Hi(b) /\ lb = Lo(b) /\ b = hb * LO_MOD + lb
  BY HalvesOf DEF Join
<1>3. ha * LO_MOD \in Nat /\ hb * LO_MOD \in Nat
  BY ModAssumption
<1>4. ha < hb => a < b
  <2>1. SUFFICES ASSUME hb - ha >= 1 PROVE a < b
    OBVIOUS
  <2>2. (hb - ha) * LO_MOD >= LO_MOD
    BY <2>1, ModAssumption
  <2>3. (hb - ha) * LO_MOD = hb * LO_MOD - ha * LO_MOD
    BY ModAssumption
  <2> QED BY <1>1, <1>2, <1>3, <2>2, <2>3, ModAssumption
<1>5. hb < ha => b < a
  <2>1. SUFFICES ASSUME ha - hb >= 1 PROVE b < a
    OBVIOUS
  <2>2. (ha - hb) * LO_MOD >= LO_MOD
    BY <2>1, ModAssumption
  <2>3. (ha - hb) * LO_MOD = ha * LO_MOD - hb * LO_MOD
    BY ModAssumption
  <2> QED BY <1>1, <1>2, <1>3, <2>2, <2>3, ModAssumption
<1>6. a \in Nat /\ b \in Nat
  BY DEF Times
<1>7. ha = hb /\ la <= lb => a <= b
  BY <1>1, <1>2, <1>3, ModAssumption
<1> QED BY <1>1, <1>2, <1>4, <1>5, <1>6, <1>7

LEMMA MergedHalves ==
  ASSUME NEW t \in Times, NEW u \in Times, NEW halves
  PROVE  /\ Merge(t, halves, u) \in Times
         /\ Hi(Merge(t, halves, u)) = IF "hi" \in halves THEN Hi(u) ELSE Hi(t)
         /\ Lo(Merge(t, halves, u)) = IF "lo" \in halves THEN Lo(u) ELSE Lo(t)
BY HalvesOf, HalvesJoin, JoinedHalves DEF Merge

(* A time is its halves. *)
LEMMA SameHalves ==
  ASSUME NEW a \in Times, NEW b \in Times, Hi(a) = Hi(b), Lo(a) = Lo(b)
  PROVE  a = b
BY HalvesOf

----------------------------------------------------------------------------
(* The sampling pipeline. *)
LEMMA SettledType ==
  Settled \in Nat /\ Settled >= 3 /\ Settled >= HIGH_MIN /\ Settled >= LOW_MIN
BY PhaseAssumption DEF Settled

LEMMA AgeType ==
  ASSUME TypeOK
  PROVE  Age \in 0 .. 6
BY DEF TypeOK, Age

(* What an hclk edge does to the pipeline. *)
LEMMA EdgeSamples ==
  ASSUME TypeOK, NEW aph, NEW other, HclkEdge(aph, other)
  PROVE  /\ osc.run /\ lf'.level = lf.level
         /\ lf'.since = (IF lf.since < Settled THEN lf.since + 1 ELSE Settled)
         /\ lf'.risen = (IF lf.risen < Settled THEN lf.risen + 1 ELSE Settled)
         /\ lf.since # 0 => tick'.meta = lf.level
         /\ tick'.sync = tick.meta /\ tick'.s3 = tick.sync /\ tick'.d = tick.s3
         /\ tick'.trust = (IF osc.announce /\ osc'.announce
                           THEN IF tick.trust < 2 THEN tick.trust + 1 ELSE 2 ELSE 0)
         /\ tick'.warm # 0 => /\ tick.trust = 2
                              /\ tick'.warm = IF tick.warm < 4 THEN tick.warm + 1 ELSE 4
         /\ view'.valid => tick'.warm # 0 /\ (lf_tick \/ view.valid)
         /\ view'.mirror = (IF lf_tick THEN cnt.mtime ELSE view.mirror)
         /\ cnt' = cnt
<1>1. lf' = [lf EXCEPT !.since = Least(lf.since + 1, Settled), !.risen = Least(lf.risen + 1, Settled)]
  BY DEF HclkEdge
<1>2. PICK t : /\ t = TrustNext(clk_en_o(osc')) /\ view' = ViewNext(t)
               /\ \E meta \in SampledLf : tick' = TickNext(meta, t)
  BY DEF HclkEdge
<1>3. PICK meta \in SampledLf : tick' = TickNext(meta, t)
  BY <1>2
<1>4. t = (IF osc.announce /\ osc'.announce
           THEN IF tick.trust < 2 THEN tick.trust + 1 ELSE 2 ELSE 0)
  BY <1>2 DEF TrustNext, clk_en_o, Least, TypeOK
<1>5. /\ tick'.meta = meta /\ tick'.sync = tick.meta /\ tick'.s3 = tick.sync
      /\ tick'.d = tick.s3 /\ tick'.trust = t
      /\ tick'.warm = (IF Keeps(t) THEN Least(tick.warm + 1, 4) ELSE 0)
  BY <1>3 DEF TickNext
<1>6. Keeps(t) => tick.trust = 2
  BY DEF Keeps, lf_trust_rstn
<1>7. lf.since # 0 => meta = lf.level
  BY DEF SampledLf
<1>8. view'.valid => Keeps(t) /\ (lf_tick \/ view.valid)
  BY <1>2 DEF ViewNext
<1>9. view'.mirror = (IF lf_tick THEN cnt.mtime ELSE view.mirror)
  BY <1>2 DEF ViewNext
<1>10. /\ tick'.warm # 0 => Keeps(t)
       /\ Keeps(t) => tick'.warm = (IF tick.warm < 4 THEN tick.warm + 1 ELSE 4) /\ tick'.warm # 0
  BY <1>5 DEF Least, TypeOK
<1>11. lf.since \in 0 .. Settled /\ lf.risen \in 0 .. Settled /\ Settled \in Nat
  BY SettledType DEF TypeOK
<1>12. /\ lf'.level = lf.level
       /\ lf'.since = (IF lf.since < Settled THEN lf.since + 1 ELSE Settled)
       /\ lf'.risen = (IF lf.risen < Settled THEN lf.risen + 1 ELSE Settled)
  BY <1>1, <1>11 DEF TypeOK, Least
<1>13. osc.run /\ cnt' = cnt
  BY DEF HclkEdge, osc_en_o
<1> QED BY <1>4, <1>5, <1>6, <1>7, <1>8, <1>9, <1>10, <1>12, <1>13

LEMMA EdgeAge ==
  ASSUME TypeOK, TypeOK', NEW aph, NEW other, HclkEdge(aph, other)
  PROVE  \E a \in 0 .. 6, b \in 0 .. 6 : a = Age /\ b = Age' /\ b <= a + 1
<1>1. PICK a \in 0 .. 6 : a = Age
  BY AgeType
<1>2. PICK b \in 0 .. 6 : b = IF tick'.warm > 0 THEN 2 + tick'.warm ELSE tick'.trust
  BY DEF TypeOK
<1>3. b = Age'
  BY <1>2 DEF Age
<1>4. tick.warm \in 0 .. 4 /\ tick.trust \in 0 .. 2 /\ tick'.warm \in 0 .. 4
  BY DEF TypeOK
<1>5. a = IF tick.warm > 0 THEN 2 + tick.warm ELSE tick.trust
  BY <1>1 DEF Age
<1>6. b <= a + 1
  BY <1>2, <1>4, <1>5, EdgeSamples
<1> QED BY <1>1, <1>3, <1>6

LEMMA EdgeKeepsTrust ==
  ASSUME TypeOK, TypeOK', TrustInv, NEW aph, NEW other, HclkEdge(aph, other)
  PROVE  TrustInv'
<1>1. osc'.run = FALSE => osc.announce = FALSE /\ osc'.announce = FALSE
  <2>1. PICK wake, enable : osc' = OscEdge(osc, wake, enable)
    BY DEF HclkEdge
  <2>2. osc.hold \in 0 .. 2 /\ osc.announce \in BOOLEAN
    BY DEF TypeOK, Osc
  <2>3. osc' = OscPreset \/ osc' = [OscPreset EXCEPT !.hold = osc.hold - 1] =>
          osc'.run = TRUE
    BY DEF OscPreset
  <2>4. osc' = [hold |-> 0, announce |-> enable, run |-> osc.announce \/ enable] =>
          osc'.announce = enable /\ osc'.run = (osc.announce \/ enable)
    OBVIOUS
  <2>5. osc'.announce \in BOOLEAN
    BY DEF TypeOK, Osc
  <2> QED BY <2>1, <2>2, <2>3, <2>4, <2>5 DEF OscEdge
<1>2. osc'.announce \in BOOLEAN /\ osc.announce \in BOOLEAN /\ osc'.run \in BOOLEAN
  BY DEF TypeOK, Osc
<1>3. ~clk_en_o(osc') => tick'.trust = 0
  BY EdgeSamples DEF clk_en_o
<1>4. ~osc_en_o(osc') => ~clk_en_o(osc') /\ tick'.warm = 0
  <2>1. SUFFICES ASSUME ~osc_en_o(osc') PROVE ~clk_en_o(osc') /\ tick'.warm = 0
    OBVIOUS
  <2>2. osc.announce = FALSE /\ osc'.announce = FALSE
    BY <1>1, <1>2, <2>1 DEF osc_en_o
  <2>3. tick.trust = 0
    BY <2>2 DEF TrustInv, clk_en_o
  <2> QED BY <2>2, <2>3, EdgeSamples DEF clk_en_o
<1>5. view'.valid => tick'.warm = 4
  <2>1. SUFFICES ASSUME view'.valid PROVE tick'.warm = 4
    OBVIOUS
  <2>2. tick'.warm # 0 /\ (lf_tick \/ view.valid)
    BY <2>1, EdgeSamples
  <2>3. tick.warm = 4
    BY <2>2 DEF lf_tick, TrustInv
  <2> QED BY <2>2, <2>3, EdgeSamples
<1> QED BY <1>3, <1>4, <1>5 DEF TrustInv, clk_en_o, osc_en_o

LEMMA EdgeKeepsPhase ==
  ASSUME TypeOK, TypeOK', PhaseInv, NEW aph, NEW other, HclkEdge(aph, other)
  PROVE  PhaseInv'
<1>1. PICK a \in 0 .. 6, b \in 0 .. 6 : a = Age /\ b = Age' /\ b <= a + 1
  BY EdgeAge
<1>2. lf.since \in 0 .. Settled /\ lf.risen \in 0 .. Settled /\ lf.level \in BOOLEAN
  BY DEF TypeOK
<1>3. /\ lf.level => lf.risen <= lf.since
      /\ lf.level /\ lf.risen < lf.since => lf.risen >= a \/ lf.risen >= 3
      /\ ~lf.level => /\ lf.risen >= a \/ lf.risen >= 2
                      /\ HIGH_MIN >= 3 \/ lf.since >= 1 => lf.risen >= a \/ lf.risen >= 3
  BY <1>1 DEF PhaseInv
<1>4. /\ lf'.level => lf'.risen <= lf'.since
      /\ lf'.level /\ lf'.risen < lf'.since => lf'.risen >= b \/ lf'.risen >= 3
      /\ ~lf'.level => /\ lf'.risen >= b \/ lf'.risen >= 2
                       /\ HIGH_MIN >= 3 \/ lf'.since >= 1 => lf'.risen >= b \/ lf'.risen >= 3
  BY <1>1, <1>2, <1>3, EdgeSamples, SettledType, PhaseAssumption
<1>5. lf'.since \in 0 .. Settled /\ lf'.risen \in 0 .. Settled
  BY DEF TypeOK
<1> QED BY <1>1, <1>4, <1>5, SettledType DEF PhaseInv

LEMMA EdgeKeepsSamples ==
  ASSUME TypeOK, TypeOK', PhaseInv, HighInv, LowInv, NEW aph, NEW other, HclkEdge(aph, other)
  PROVE  HighInv' /\ LowInv'
<1>1. PICK a \in 0 .. 6, b \in 0 .. 6 : a = Age /\ b = Age' /\ b <= a + 1
  BY EdgeAge
<1>2. PICK n \in 0 .. Settled, m \in 0 .. Settled : n = lf.since /\ m = lf'.since
  BY DEF TypeOK
<1>3. m >= 1 /\ (m = 1 => n = 0) /\ (m = 2 => n = 1) /\ (m >= 2 => n >= 1) /\ (m >= 3 => n >= 2)
  BY <1>2, EdgeSamples, SettledType
<1>4. /\ tick'.sync = tick.meta /\ tick'.s3 = tick.sync /\ tick'.d = tick.s3
      /\ n # 0 => tick'.meta = lf.level
      /\ lf'.level = lf.level
  BY <1>2, EdgeSamples
<1>5. ASSUME lf.level PROVE HighInv' /\ LowInv'
  <2>1. /\ a >= 2 /\ n = 0 => ~tick.meta
        /\ a >= 4 /\ n = 0 => (tick.sync => tick.s3)
        /\ a >= 3 /\ n = 1 => ~tick.sync
        /\ a >= 1 /\ n >= 2 => tick.meta
    BY <1>1, <1>2, <1>5 DEF HighInv
  <2>3. b >= 5 /\ m <= 1 => (tick'.s3 => tick'.d)
    BY <1>1, <1>3, <1>4, <2>1, SettledType
  <2>4. b >= 3 /\ m = 1 => ~tick'.sync
    BY <1>1, <1>3, <1>4, <2>1, SettledType
  <2>5. b >= 5 /\ m = 2 => ~tick'.s3
    BY <1>1, <1>3, <1>4, <2>1, SettledType
  <2>6. m >= 2 => tick'.meta
    <3>1. m >= 2 => n # 0
      BY <1>3
    <3> QED BY <3>1, <1>4, <1>5, Zenon
  <2>7. b >= 2 /\ m >= 3 => tick'.sync
    BY <1>1, <1>3, <1>4, <2>1, SettledType
  <2> QED BY <1>1, <1>2, <1>3, <1>4, <1>5, <2>3, <2>4, <2>5, <2>6, <2>7, SettledType DEF HighInv, LowInv
<1>6. ASSUME ~lf.level PROVE HighInv' /\ LowInv'
  <2>1. /\ a >= 2 /\ n = 0 => tick.meta
        /\ a >= 3 /\ n = 1 => tick.sync /\ (HIGH_MIN >= 3 => tick.s3)
        /\ a >= 2 /\ n = 0 /\ HIGH_MIN >= 3 => tick.sync
        /\ a >= 1 /\ n >= 2 => ~tick.meta
        /\ a >= 4 /\ n >= 2 => (tick.sync => tick.s3)
    BY <1>1, <1>2, <1>6 DEF LowInv
  <2>2. /\ b >= 3 /\ m = 1 => tick'.sync /\ (HIGH_MIN >= 3 => tick'.s3)
        /\ b >= 1 /\ m >= 2 => ~tick'.meta
        /\ b >= 4 /\ m >= 2 => (tick'.sync => tick'.s3)
        /\ b >= 5 /\ (m >= 3 \/ (m = 2 /\ HIGH_MIN >= 3)) => (tick'.s3 => tick'.d)
    BY <1>1, <1>2, <1>3, <1>4, <1>6, <2>1, SettledType
  <2> QED BY <1>1, <1>2, <1>3, <1>4, <1>6, <2>2, SettledType DEF HighInv, LowInv
<1> QED BY <1>5, <1>6

LEMMA LfStepAge ==
  ASSUME TypeOK, LfStep
  PROVE  \E a \in 0 .. 6 : a = Age /\ a = Age'
<1>1. tick' = tick
  BY DEF LfStep, LfRise, LfFall, OtherWake
<1>2. Age' = Age
  BY <1>1 DEF Age
<1> QED BY <1>2, AgeType

(* While the oscillator stands nothing in the pipeline counts. *)
LEMMA StoppedAge ==
  ASSUME TypeOK, TrustInv, ~osc_en_o(osc)
  PROVE  Age = 0
BY DEF TypeOK, TrustInv, Age

LEMMA RiseKeepsSamples ==
  ASSUME TypeOK, TrustInv, PhaseInv, HighInv, LowInv, LfRise
  PROVE  PhaseInv' /\ HighInv' /\ LowInv'
<1>1. PICK a \in 0 .. 6 : a = Age /\ a = Age'
  BY LfStepAge DEF LfStep
<1>2. lf'.level = TRUE /\ lf'.since = 0 /\ lf'.risen = 0
  BY DEF LfRise
<1>3. tick' = tick /\ lf.level = FALSE
  BY DEF LfRise, TypeOK
<1>4. PhaseInv'
  BY <1>2 DEF PhaseInv
<1>5. CASE osc_en_o(osc)
  <2>1. PICK n \in 0 .. Settled : n = lf.since
    BY DEF TypeOK
  <2>2. n >= LOW_MIN
    BY <1>5, <2>1 DEF LfRise
  <2>3. a >= 1 => ~tick.meta
    BY <1>1, <1>3, <2>1, <2>2, PhaseAssumption DEF LowInv
  <2>4. a >= 4 => (tick.sync => tick.s3)
    BY <1>1, <1>3, <2>1, <2>2, PhaseAssumption DEF LowInv
  <2>5. a >= 5 => (tick.s3 => tick.d)
    BY <1>1, <1>3, <2>1, <2>2, PhaseAssumption DEF LowInv
  <2> QED BY <1>1, <1>2, <1>3, <1>4, <2>3, <2>4, <2>5 DEF HighInv, LowInv
<1>6. CASE ~osc_en_o(osc)
  <2>1. a = 0
    BY <1>1, <1>6, StoppedAge
  <2> QED BY <1>1, <1>2, <1>4, <2>1 DEF HighInv, LowInv
<1> QED BY <1>5, <1>6

LEMMA FallKeepsSamples ==
  ASSUME TypeOK, TrustInv, PhaseInv, HighInv, LowInv, LfFall
  PROVE  PhaseInv' /\ HighInv' /\ LowInv'
<1>1. PICK a \in 0 .. 6 : a = Age /\ a = Age'
  BY LfStepAge DEF LfStep
<1>2. PICK n \in 0 .. Settled, r \in 0 .. Settled : n = lf.since /\ r = lf.risen
  BY DEF TypeOK
<1>3. lf'.level = FALSE /\ lf'.since = 0 /\ lf'.risen = r
  BY <1>2 DEF LfFall, TypeOK
<1>4. tick' = tick /\ lf.level = TRUE
  BY DEF LfFall, TypeOK
<1>5. CASE osc_en_o(osc)
  <2>1. n >= HIGH_MIN /\ n >= 2
    BY <1>2, <1>5, PhaseAssumption DEF LfFall
  <2>2. r <= n /\ (r < n => r >= a \/ r >= 3)
    BY <1>1, <1>2, <1>4 DEF PhaseInv
  <2>3. a >= 1 => tick.meta
    BY <1>1, <1>2, <1>4, <2>1 DEF HighInv
  <2>4. a >= 2 /\ n >= 3 => tick.sync
    BY <1>1, <1>2, <1>4 DEF HighInv
  <2>5. a >= 5 /\ n = 2 => ~tick.s3
    BY <1>1, <1>2, <1>4 DEF HighInv
  <2>6. PhaseInv'
    BY <1>1, <1>3, <2>1, <2>2, PhaseAssumption DEF PhaseInv
  <2>7. a >= 2 => tick.meta /\ (HIGH_MIN >= 3 \/ r >= 3 => tick.sync)
    BY <2>1, <2>2, <2>3, <2>4, PhaseAssumption
  <2>8. a >= 5 /\ r = 2 => ~tick.s3
    BY <2>1, <2>2, <2>5, PhaseAssumption
  <2> QED BY <1>1, <1>3, <1>4, <2>6, <2>7, <2>8 DEF HighInv, LowInv
<1>6. CASE ~osc_en_o(osc)
  <2>1. a = 0
    BY <1>1, <1>6, StoppedAge
  <2> QED BY <1>1, <1>3, <2>1, SettledType DEF PhaseInv, HighInv, LowInv
<1> QED BY <1>5, <1>6

LEMMA WakeKeepsSamples ==
  ASSUME TypeOK, TrustInv, PhaseInv, HighInv, LowInv, OtherWake
  PROVE  PhaseInv' /\ HighInv' /\ LowInv'
<1>1. PICK a \in 0 .. 6 : a = Age /\ a = Age'
  BY LfStepAge DEF LfStep
<1>2. tick' = tick
  BY DEF OtherWake
<1>3. CASE osc_en_o(osc)
  <2>1. lf' = lf
    BY <1>3 DEF OtherWake, TypeOK
  <2> QED BY <1>1, <1>2, <2>1 DEF PhaseInv, HighInv, LowInv
<1>4. CASE ~osc_en_o(osc)
  <2>1. a = 0
    BY <1>1, <1>4, StoppedAge
  <2>2. /\ lf'.level = lf.level /\ lf'.risen = lf.risen /\ lf.risen \in 0 .. Settled
        /\ lf'.since = lf.since \/ lf'.since = Settled
    BY DEF OtherWake, TypeOK
  <2>3. lf.level => lf'.risen <= lf'.since
    BY <2>2, SettledType DEF PhaseInv
  <2> QED BY <1>1, <2>1, <2>2, <2>3 DEF PhaseInv, HighInv, LowInv
<1> QED BY <1>3, <1>4

LEMMA LfStepKeepsTrust ==
  ASSUME TypeOK, TrustInv, LfStep
  PROVE  TrustInv'
<1>1. tick' = tick /\ view' = view
  BY DEF LfStep, LfRise, LfFall, OtherWake
<1>2. osc' = osc \/ osc' = OscPreset
  BY DEF LfStep, LfRise, LfFall, OtherWake
<1> QED BY <1>1, <1>2 DEF TrustInv, OscPreset, clk_en_o, osc_en_o

LEMMA SamplesInit == MInit => SampleInv
<1> SUFFICES ASSUME MInit PROVE SampleInv
  OBVIOUS
<1>1. TypeOK
  BY InitType
<1>2. TrustInv
  BY DEF MInit, TrustInv, OscPreset, clk_en_o, osc_en_o
<1>3. Age = 0
  BY DEF MInit, Age
<1> QED BY <1>1, <1>2, <1>3, SettledType DEF MInit, SampleInv, PhaseInv, HighInv, LowInv

LEMMA EdgeKeepsSampleInv ==
  ASSUME SampleInv, NEW aph \in Access, NEW other \in BOOLEAN, HclkEdge(aph, other)
  PROVE  SampleInv'
<1>1. TypeOK'
  BY HclkEdgeType DEF SampleInv
<1> QED BY <1>1, EdgeKeepsTrust, EdgeKeepsPhase, EdgeKeepsSamples DEF SampleInv

LEMMA LfStepKeepsSampleInv ==
  ASSUME SampleInv, LfStep
  PROVE  SampleInv'
<1>1. TypeOK' /\ TrustInv'
  BY LfStepType, LfStepKeepsTrust DEF SampleInv
<1> QED
  BY <1>1, RiseKeepsSamples, FallKeepsSamples, WakeKeepsSamples DEF SampleInv, LfStep

(* A tick comes late enough after the edge it stands for. *)
LEMMA TickIsLate ==
  ASSUME SampleInv, lf_tick
  PROVE  lf.risen >= 3
<1>1. tick.warm = 4 /\ tick.s3 /\ ~tick.d
  BY DEF lf_tick
<1>2. Age = 6
  BY <1>1 DEF Age
<1>3. PICK n \in 0 .. Settled, r \in 0 .. Settled : n = lf.since /\ r = lf.risen
  BY DEF SampleInv, TypeOK
<1>4. CASE lf.level
  <2>1. n >= 3
    BY <1>1, <1>2, <1>3, <1>4 DEF SampleInv, HighInv
  <2> QED BY <1>2, <1>3, <1>4, <2>1 DEF SampleInv, PhaseInv
<1>5. CASE ~lf.level
  <2>1. n = 0 => r # 2
    BY <1>1, <1>2, <1>3, <1>5 DEF SampleInv, LowInv
  <2>2. r >= 2 /\ (n >= 1 => r >= 3)
    BY <1>2, <1>3, <1>5 DEF SampleInv, PhaseInv
  <2> QED BY <1>3, <2>1, <2>2
<1> QED BY <1>4, <1>5

(* After a tick no other edge is on its way. *)
LEMMA TickEmptiesPipe ==
  ASSUME SampleInv, lf_tick, NEW aph, NEW other, HclkEdge(aph, other)
  PROVE  ~RiseInPipe'
<1>1. tick.warm = 4 /\ tick.s3 /\ ~tick.d
  BY DEF lf_tick
<1>2. Age = 6 /\ TypeOK
  BY <1>1 DEF Age, SampleInv
<1>3. PICK n \in 0 .. Settled, r \in 0 .. Settled : n = lf.since /\ r = lf.risen
  BY <1>2 DEF TypeOK
<1>4. lf'.since # 0
  BY <1>2, <1>3, EdgeSamples, SettledType
<1>5. CASE lf.level
  <2>1. n >= 3
    BY <1>1, <1>2, <1>3, <1>5 DEF SampleInv, HighInv
  <2>2. tick.meta /\ tick.sync
    BY <1>2, <1>3, <1>5, <2>1 DEF SampleInv, HighInv
  <2>3. tick'.meta
    <3>1. tick'.meta = lf.level
      BY <1>2, <1>3, <2>1, EdgeSamples
    <3> QED BY <1>5, <3>1, Zenon
  <2> QED BY <1>1, <1>2, <1>4, <2>2, <2>3, EdgeSamples DEF RiseInPipe
<1>6. CASE ~lf.level
  <2>1. r >= 3
    BY <1>3, TickIsLate
  <2>2. n = 0 => tick.meta /\ tick.sync
    BY <1>2, <1>3, <1>6, <2>1 DEF SampleInv, LowInv
  <2>3. n = 1 => tick.sync
    BY <1>2, <1>3, <1>6 DEF SampleInv, LowInv
  <2>4. n >= 2 => ~tick.meta
    BY <1>2, <1>3, <1>6 DEF SampleInv, LowInv
  <2>5. n # 0 => ~tick'.meta
    BY <1>2, <1>3, <1>6, EdgeSamples
  <2>6. tick'.meta => tick'.sync
    BY <1>2, <2>2, <2>5, EdgeSamples
  <2>7. tick.meta => tick.sync
    BY <1>3, <2>2, <2>3, <2>4
  <2>8. ~lf'.level /\ (tick'.sync => tick'.s3) /\ (tick'.s3 => tick'.d)
    BY <1>1, <1>2, <1>6, <2>7, EdgeSamples
  <2> QED BY <1>4, <2>6, <2>8 DEF RiseInPipe
<1> QED BY <1>5, <1>6

----------------------------------------------------------------------------
(* Loads of MTIME. *)
LEMMA EdgeWrites ==
  ASSUME TypeOK, NEW aph, NEW other, HclkEdge(aph, other)
  PROVE  /\ wr'.load_req = (IF lf_tick THEN load_launch ELSE wr.load_req)
         /\ wr'.load_we = (IF load_launch THEN wr.load_pend ELSE wr.load_we)
         /\ wr'.load_val = (IF load_launch THEN wr.mtime_s1 ELSE wr.load_val)
         /\ wr'.load_pend = (IF load_launch THEN Stored("mtime")
                             ELSE wr.load_pend \cup Stored("mtime"))
         /\ wr'.wr_recent = (Stored("mtime") # {} \/ (wr.wr_recent /\ ~lf_tick))
         /\ wr'.mtime_s1 = Merge(wr.mtime_s1, Stored("mtime"), dph.val)
         /\ load_launch => /\ ghost'.fresh = Stored("mtime") /\ ghost'.joined = FALSE
                           /\ ghost'.owed = TRUE
         /\ ~load_launch => /\ ghost'.fresh = ghost.fresh \cup Stored("mtime")
                            /\ ghost'.joined = (ghost.joined \/ ghost'.fresh = Halves)
                            /\ ghost'.owed = ghost.owed
<1>1. wr' = WrNext
  BY DEF HclkEdge
<1>2. ghost' = IF load_launch
               THEN [fresh |-> Stored("mtime"), joined |-> FALSE, owed |-> TRUE]
               ELSE LET fresh == ghost.fresh \cup Stored("mtime")
                    IN  [ghost EXCEPT !.fresh = fresh, !.joined = @ \/ fresh = Halves]
  BY DEF HclkEdge
<1>3. ghost \in [fresh: SUBSET Halves, joined: BOOLEAN, owed: BOOLEAN]
  BY DEF TypeOK
<1> QED BY <1>1, <1>2, <1>3 DEF WrNext, load_pend_nxt, RecentNext

LEMMA EdgeAddsNoRise ==
  ASSUME TypeOK, NEW aph, NEW other, HclkEdge(aph, other), RiseInPipe'
  PROVE  RiseInPipe
<1>1. lf'.since # 0
  BY EdgeSamples, SettledType DEF TypeOK
<1>2. lf'.level = lf.level /\ (lf.since # 0 => tick'.meta = lf.level)
      /\ tick'.sync = tick.meta /\ tick'.s3 = tick.sync /\ tick'.d = tick.s3
  BY EdgeSamples
<1>3. lf.level \in BOOLEAN /\ tick.meta \in BOOLEAN
  BY DEF TypeOK
<1> QED BY <1>1, <1>2, <1>3, Zenon DEF RiseInPipe

LEMMA LfStepAddsNoRise ==
  ASSUME TypeOK, LfFall \/ OtherWake, RiseInPipe'
  PROVE  RiseInPipe
<1>1. tick' = tick
  BY DEF LfFall, OtherWake
<1>2. CASE LfFall
  <2>1. lf.level /\ ~lf'.level
    BY <1>2 DEF LfFall, TypeOK
  <2> QED BY <1>1, <2>1, Zenon DEF RiseInPipe
<1>3. CASE OtherWake
  <2>1. lf'.level = lf.level /\ (lf'.since = 0 => lf.since = 0)
    BY <1>3, SettledType DEF OtherWake, TypeOK
  <2> QED BY <1>1, <2>1, Zenon DEF RiseInPipe
<1> QED BY <1>2, <1>3

LEMMA TickIsRise == lf_tick => RiseInPipe
BY DEF lf_tick, RiseInPipe

LEMMA EdgeKeepsLoads ==
  ASSUME SampleInv, LoadInv, NEW aph, NEW other, HclkEdge(aph, other), TypeOK'
  PROVE  LoadInv'
<1>1. TypeOK /\ load_launch \in BOOLEAN /\ lf_tick \in BOOLEAN
  BY DEF SampleInv, TypeOK, load_launch, lf_tick
<1>2. cnt' = cnt
  BY DEF HclkEdge
<1>3. lf_tick => ~RiseInPipe'
  BY TickEmptiesPipe
<1>4. lf_tick => cnt.load_req_d = wr.load_req
  BY TickIsRise DEF LoadInv
<1>5. load_launch => lf_tick /\ ~wr.load_req
  BY DEF load_launch
<1>6. ghost'.owed <=> mtime_load'
  <2>1. wr.load_req \in BOOLEAN /\ cnt.load_req_d \in BOOLEAN /\ ghost.owed \in BOOLEAN
    BY <1>1 DEF TypeOK
  <2>2. ghost.owed <=> wr.load_req /\ ~cnt.load_req_d
    BY DEF LoadInv, mtime_load
  <2>3. mtime_load' <=> wr'.load_req /\ ~cnt.load_req_d
    BY <1>2 DEF mtime_load
  <2>4. CASE load_launch
    <3>1. ghost'.owed = TRUE /\ wr'.load_req = TRUE
      BY <1>1, <1>5, <2>4, EdgeWrites
    <3> QED BY <1>4, <1>5, <2>1, <2>3, <2>4, <3>1
  <2>5. CASE ~load_launch /\ lf_tick
    <3>1. ghost'.owed = ghost.owed /\ wr'.load_req = FALSE
      BY <1>1, <2>5, EdgeWrites
    <3> QED BY <1>4, <2>1, <2>2, <2>3, <2>5, <3>1
  <2>6. CASE ~lf_tick
    <3>1. ghost'.owed = ghost.owed /\ wr'.load_req = wr.load_req
      BY <1>1, <1>5, <2>6, EdgeWrites
    <3> QED BY <2>2, <2>3, <3>1
  <2> QED BY <2>4, <2>5, <2>6
<1>7. ASSUME RiseInPipe'
      PROVE  cnt'.load_req_d = wr'.load_req /\ (wr'.wr_recent \/ ghost'.fresh = {})
  <2>1. RiseInPipe /\ ~lf_tick /\ ~load_launch
    BY <1>1, <1>3, <1>5, <1>7, EdgeAddsNoRise
  <2>2. cnt.load_req_d = wr.load_req /\ (wr.wr_recent \/ ghost.fresh = {})
    BY <2>1 DEF LoadInv
  <2>3. wr'.load_req = wr.load_req
    BY <1>1, <2>1, EdgeWrites
  <2>4. wr'.wr_recent \/ ghost'.fresh = {}
    BY <1>1, <2>1, <2>2, EdgeWrites
  <2> QED BY <1>2, <2>2, <2>3, <2>4
<1>8. ghost'.fresh \subseteq wr'.load_pend
  BY <1>1, EdgeWrites DEF LoadInv
<1>9. ghost'.joined => wr'.load_pend = Halves
  <2>1. wr'.load_pend \subseteq Halves
    BY DEF TypeOK
  <2>2. CASE load_launch
    BY <1>1, <2>2, EdgeWrites
  <2>3. CASE ~load_launch
    <3>1. ghost'.joined = (ghost.joined \/ ghost'.fresh = Halves)
      BY <1>1, <2>3, EdgeWrites
    <3>2. ghost.joined => wr.load_pend = Halves
      BY DEF LoadInv
    <3>3. wr.load_pend \subseteq wr'.load_pend
      BY <1>1, <2>3, EdgeWrites
    <3> QED BY <1>8, <2>1, <3>1, <3>2, <3>3
  <2> QED BY <2>2, <2>3
<1> QED BY <1>6, <1>7, <1>8, <1>9 DEF LoadInv

LEMMA LfStepKeepsLoads ==
  ASSUME TypeOK, LoadInv, LfStep
  PROVE  LoadInv'
<1>1. wr' = wr
  BY DEF LfStep, LfRise, LfFall, OtherWake
<1>2. CASE LfRise
  <2>1. cnt'.load_req_d = wr.load_req
    BY <1>2 DEF LfRise
  <2>2. ghost'.fresh = {} /\ ghost'.joined = ghost.joined /\ ghost'.owed = (ghost.owed /\ ~mtime_load)
    BY <1>2 DEF LfRise, TypeOK
  <2>3. ~mtime_load' /\ ~ghost'.owed
    BY <1>1, <2>1, <2>2 DEF mtime_load, LoadInv
  <2> QED BY <1>1, <2>1, <2>2, <2>3 DEF LoadInv
<1>3. CASE LfFall \/ OtherWake
  <2>1. ghost' = ghost /\ cnt' = cnt
    BY <1>3 DEF LfFall, OtherWake
  <2>2. RiseInPipe' => RiseInPipe
    BY <1>3, LfStepAddsNoRise
  <2>3. mtime_load' <=> mtime_load
    BY <1>1, <2>1 DEF mtime_load
  <2> QED BY <1>1, <2>1, <2>2, <2>3 DEF LoadInv
<1> QED BY <1>2, <1>3 DEF LfStep

(* A half that is not stored to keeps its shadow. *)
LEMMA EdgeKeepsShadow ==
  ASSUME TypeOK, NEW aph, NEW other, HclkEdge(aph, other)
  PROVE  /\ "lo" \notin Stored("mtime") => Lo(wr'.mtime_s1) = Lo(wr.mtime_s1)
         /\ "hi" \notin Stored("mtime") => Hi(wr'.mtime_s1) = Hi(wr.mtime_s1)
<1>1. wr.mtime_s1 \in Times /\ dph.val \in Times
  BY DEF TypeOK, Access
<1>2. /\ Hi(Merge(wr.mtime_s1, Stored("mtime"), dph.val)) =
           IF "hi" \in Stored("mtime") THEN Hi(dph.val) ELSE Hi(wr.mtime_s1)
      /\ Lo(Merge(wr.mtime_s1, Stored("mtime"), dph.val)) =
           IF "lo" \in Stored("mtime") THEN Lo(dph.val) ELSE Lo(wr.mtime_s1)
  BY <1>1, MergedHalves
<1>3. wr'.mtime_s1 = Merge(wr.mtime_s1, Stored("mtime"), dph.val)
  BY EdgeWrites
<1> QED BY <1>2, <1>3

LEMMA EdgeKeepsMirror ==
  ASSUME TypeOK, TypeOK', LoadInv, MirrorInv, NEW aph, NEW other, HclkEdge(aph, other)
  PROVE  MirrorInv'
<1>1. load_launch \in BOOLEAN /\ lf_tick \in BOOLEAN /\ (load_launch => lf_tick /\ ~wr.load_req)
  BY DEF TypeOK, load_launch, lf_tick
<1>2. cnt' = cnt /\ view'.mirror = (IF lf_tick THEN cnt.mtime ELSE view.mirror)
  BY EdgeSamples
<1>3. lf_tick => cnt.load_req_d = wr.load_req
  BY TickIsRise DEF LoadInv
<1>4. mtime_load' <=> wr'.load_req /\ ~cnt.load_req_d
  BY <1>2 DEF mtime_load
<1>5. cnt.mtime \in Times /\ view.mirror \in Times
  BY DEF TypeOK
<1>6. CASE ~lf_tick
  <2>1. /\ view'.mirror = view.mirror /\ wr'.load_req = wr.load_req
        /\ wr'.load_we = wr.load_we /\ wr'.load_val = wr.load_val
        /\ wr'.load_pend = wr.load_pend \cup Stored("mtime")
    BY <1>1, <1>2, <1>6, EdgeWrites
  <2>2. mtime_load' <=> mtime_load
    BY <1>4, <2>1 DEF mtime_load
  <2>3. \A h \in Halves \ wr'.load_pend : h \notin wr.load_pend /\ h \notin Stored("mtime")
    BY <2>1
  <2>4. /\ "lo" \notin wr'.load_pend => Lo(wr'.mtime_s1) = Lo(wr.mtime_s1)
        /\ "hi" \notin wr'.load_pend => Hi(wr'.mtime_s1) = Hi(wr.mtime_s1)
    BY <2>3, EdgeKeepsShadow DEF Halves
  <2>5. /\ mtime_load' => view'.mirror = cnt'.mtime
        /\ ~wr'.load_req => view'.mirror <= cnt'.mtime
        /\ wr'.load_req /\ cnt'.load_req_d =>
             cnt'.mtime >= Merge(view'.mirror, wr'.load_we, wr'.load_val)
    BY <1>2, <2>1, <2>2 DEF MirrorInv
  <2>6. /\ wr'.load_req /\ "lo" \in wr'.load_we \ wr'.load_pend => Lo(wr'.mtime_s1) = Lo(wr'.load_val)
        /\ wr'.load_req /\ "hi" \in wr'.load_we \ wr'.load_pend => Hi(wr'.mtime_s1) = Hi(wr'.load_val)
    BY <2>1, <2>3, <2>4 DEF MirrorInv, Halves
  <2> QED BY <2>5, <2>6 DEF MirrorInv
<1>7. CASE lf_tick /\ ~load_launch
  <2>1. wr'.load_req = FALSE /\ view'.mirror = cnt'.mtime
    BY <1>1, <1>2, <1>7, EdgeWrites
  <2>2. view'.mirror <= cnt'.mtime
    BY <1>2, <1>5, <2>1 DEF Times
  <2> QED BY <1>4, <2>1, <2>2 DEF MirrorInv
<1>8. CASE load_launch
  <2>1. /\ view'.mirror = cnt'.mtime /\ wr'.load_req = TRUE
        /\ wr'.load_we = wr.load_pend /\ wr'.load_val = wr.mtime_s1
        /\ wr'.load_pend = Stored("mtime")
    BY <1>1, <1>2, <1>8, EdgeWrites
  <2>2. ~cnt'.load_req_d
    BY <1>1, <1>2, <1>3, <1>8
  <2>3. /\ "lo" \notin wr'.load_pend => Lo(wr'.mtime_s1) = Lo(wr.mtime_s1)
        /\ "hi" \notin wr'.load_pend => Hi(wr'.mtime_s1) = Hi(wr.mtime_s1)
    BY <2>1, EdgeKeepsShadow
  <2> QED BY <2>1, <2>2, <2>3 DEF MirrorInv
<1> QED BY <1>6, <1>7, <1>8

LEMMA CounterStep ==
  ASSUME TypeOK, LfRise
  PROVE  /\ cnt'.mtime = mtime_next /\ mtime_next \in Times
         /\ ~mtime_load => cnt.mtime <= mtime_next /\ mtime_next <= cnt.mtime + 1
<1>1. cnt'.mtime = mtime_next
  BY DEF LfRise
<1>2. mtime_next \in Times
  BY <1>1, LfStepType DEF TypeOK, LfStep
<1>3. ~mtime_load => mtime_next = (IF cnt.mtime < MAX_TIME THEN cnt.mtime + 1 ELSE cnt.mtime)
  BY DEF mtime_next
<1>4. cnt.mtime \in Nat /\ MAX_TIME \in Nat
  BY TimeAssumption, ModAssumption DEF TypeOK, Times
<1> QED BY <1>1, <1>2, <1>3, <1>4

LEMMA LfStepKeepsMirror ==
  ASSUME TypeOK, LoadInv, MirrorInv, LfStep
  PROVE  MirrorInv'
<1>1. wr' = wr /\ view' = view
  BY DEF LfStep, LfRise, LfFall, OtherWake
<1>2. CASE LfRise
  <2>1. PICK m \in Times : m = cnt'.mtime /\ m = mtime_next
    BY <1>2, CounterStep
  <2>2. cnt'.load_req_d = wr.load_req
    BY <1>2 DEF LfRise
  <2>3. ~mtime_load'
    BY <1>1, <2>2 DEF mtime_load
  <2>4. cnt.mtime \in Times /\ view.mirror \in Times /\ wr.load_val \in Times
    BY DEF TypeOK
  <2>5. PICK b \in Times : b = Merge(view.mirror, wr.load_we, wr.load_val)
    BY <2>4, MergedHalves
  <2>6. wr.load_req => m >= b
    <3>1. CASE mtime_load
      <4>1. m = b
        BY <2>1, <2>5, <3>1 DEF mtime_next, MirrorInv
      <4> QED BY <4>1 DEF Times
    <3>2. CASE ~mtime_load
      <4>1. cnt.mtime <= m
        BY <1>2, <2>1, <3>2, CounterStep
      <4>2. wr.load_req => cnt.mtime >= b
        BY <2>5, <3>2 DEF MirrorInv, mtime_load
      <4> QED BY <2>4, <4>1, <4>2 DEF Times
    <3> QED BY <3>1, <3>2
  <2>7. ~wr.load_req => view.mirror <= m
    <3>1. SUFFICES ASSUME ~wr.load_req PROVE view.mirror <= m
      OBVIOUS
    <3>2. cnt.mtime <= m
      BY <1>2, <2>1, <3>1, CounterStep DEF mtime_load
    <3>3. view.mirror <= cnt.mtime
      BY <3>1 DEF MirrorInv
    <3> QED BY <2>4, <3>2, <3>3 DEF Times
  <2> QED BY <1>1, <2>1, <2>3, <2>5, <2>6, <2>7 DEF MirrorInv
<1>3. CASE LfFall \/ OtherWake
  <2>1. cnt' = cnt
    BY <1>3 DEF LfFall, OtherWake
  <2>2. mtime_load' <=> mtime_load
    BY <1>1, <2>1 DEF mtime_load
  <2> QED BY <1>1, <2>1, <2>2 DEF MirrorInv
<1> QED BY <1>2, <1>3 DEF LfStep

LEMMA TimerInit == MInit => TimerInv
<1> SUFFICES ASSUME MInit PROVE TimerInv
  OBVIOUS
<1>1. SampleInv
  BY SamplesInit
<1>2. ~mtime_load
  BY DEF MInit, mtime_load
<1>3. LoadInv
  BY <1>2 DEF MInit, LoadInv
<1>4. MirrorInv
  BY <1>2 DEF MInit, MirrorInv
<1> QED BY <1>1, <1>3, <1>4 DEF TimerInv

LEMMA EdgeKeepsTimerInv ==
  ASSUME TimerInv, NEW aph \in Access, NEW other \in BOOLEAN, HclkEdge(aph, other)
  PROVE  TimerInv'
<1>1. SampleInv' /\ TypeOK' /\ TypeOK
  BY EdgeKeepsSampleInv DEF TimerInv, SampleInv
<1> QED BY <1>1, EdgeKeepsLoads, EdgeKeepsMirror DEF TimerInv

LEMMA LfStepKeepsTimerInv ==
  ASSUME TimerInv, LfStep
  PROVE  TimerInv'
BY LfStepKeepsSampleInv, LfStepKeepsLoads, LfStepKeepsMirror DEF TimerInv, SampleInv

LEMMA TimerInvStep ==
  ASSUME TimerInv, [MNext]_mvars
  PROVE  TimerInv'
<1>1. CASE LfStep
  BY <1>1, LfStepKeepsTimerInv
<1>2. CASE \E aph \in Traffic \cup {NoAccess}, other \in BOOLEAN : HclkEdge(aph, other)
  BY <1>2, EdgeKeepsTimerInv, AccessType, TrafficAssumption
<1>3. CASE UNCHANGED mvars
  BY <1>3 DEF mvars, TimerInv, SampleInv, TypeOK, TrustInv, PhaseInv, HighInv, LowInv, LoadInv,
    MirrorInv, Age, RiseInPipe, mtime_load, clk_en_o, osc_en_o
<1> QED BY <1>1, <1>2, <1>3 DEF MNext

(* Samples, loads and mirror stay consistent under any traffic and any      *)
(* stops of the clock.                                                      *)
THEOREM TimerInvariant == MSpec => []TimerInv
BY TimerInit, TimerInvStep, PTL DEF MSpec

(* The counter is captured only three hclk edges after it moved, whatever   *)
(* the ratio and the duty cycle of the clocks, also after a restart.        *)
THEOREM CounterAlwaysSettled == MSpec => []CounterSettled
<1>1. TimerInv => CounterSettled
  BY TickIsLate DEF TimerInv, CounterSettled
<1> QED BY <1>1, TimerInvariant, PTL

(* What software stores to MTIME reaches the counter once and unmixed, and  *)
(* is what it reads back.                                                   *)
THEOREM WritesAlwaysLand == MSpec => []WritesLand
<1>1. ASSUME TimerInv PROVE WritesLand
  <2>1. TypeOK /\ LoadInv /\ MirrorInv
    BY <1>1 DEF TimerInv, SampleInv
  <2>2. LoadTakenOnce
    BY <2>1, TickIsRise DEF LoadInv, LoadTakenOnce, mtime_load
  <2>3. PairLandsWhole
    BY <2>1, TickIsRise DEF LoadInv, PairLandsWhole, load_launch
  <2>4. ReadBackIsWhatLands
    <3>1. SUFFICES ASSUME mtime_load, wr.load_pend = {} PROVE mtime_next = mtime_rd_src
      BY DEF ReadBackIsWhatLands
    <3>2. wr.load_req /\ view.mirror = cnt.mtime
      BY <2>1, <3>1 DEF mtime_load, MirrorInv
    <3>3. mtime_next = Merge(cnt.mtime, wr.load_we, wr.load_val)
      BY <3>1 DEF mtime_next
    <3>4. mtime_rd_src = Merge(cnt.mtime, wr.load_we, wr.mtime_s1)
      BY <3>1, <3>2 DEF mtime_rd_src, mtime_pending
    <3>5. cnt.mtime \in Times /\ wr.load_val \in Times /\ wr.mtime_s1 \in Times
      BY <2>1 DEF TypeOK
    <3>6. /\ "lo" \in wr.load_we => Lo(wr.mtime_s1) = Lo(wr.load_val)
          /\ "hi" \in wr.load_we => Hi(wr.mtime_s1) = Hi(wr.load_val)
      BY <2>1, <3>1, <3>2 DEF MirrorInv
    <3>7. /\ Merge(cnt.mtime, wr.load_we, wr.load_val) \in Times
          /\ Merge(cnt.mtime, wr.load_we, wr.mtime_s1) \in Times
          /\ Hi(Merge(cnt.mtime, wr.load_we, wr.load_val)) = Hi(Merge(cnt.mtime, wr.load_we, wr.mtime_s1))
          /\ Lo(Merge(cnt.mtime, wr.load_we, wr.load_val)) = Lo(Merge(cnt.mtime, wr.load_we, wr.mtime_s1))
      <4>1. /\ Merge(cnt.mtime, wr.load_we, wr.load_val) \in Times
            /\ Hi(Merge(cnt.mtime, wr.load_we, wr.load_val)) =
                 IF "hi" \in wr.load_we THEN Hi(wr.load_val) ELSE Hi(cnt.mtime)
            /\ Lo(Merge(cnt.mtime, wr.load_we, wr.load_val)) =
                 IF "lo" \in wr.load_we THEN Lo(wr.load_val) ELSE Lo(cnt.mtime)
        BY <3>5, MergedHalves
      <4>2. /\ Merge(cnt.mtime, wr.load_we, wr.mtime_s1) \in Times
            /\ Hi(Merge(cnt.mtime, wr.load_we, wr.mtime_s1)) =
                 IF "hi" \in wr.load_we THEN Hi(wr.mtime_s1) ELSE Hi(cnt.mtime)
            /\ Lo(Merge(cnt.mtime, wr.load_we, wr.mtime_s1)) =
                 IF "lo" \in wr.load_we THEN Lo(wr.mtime_s1) ELSE Lo(cnt.mtime)
        BY <3>5, MergedHalves
      <4> QED BY <3>6, <4>1, <4>2
    <3> QED BY <3>3, <3>4, <3>7, SameHalves
  <2> QED BY <2>2, <2>3, <2>4 DEF WritesLand
<1> QED BY <1>1, TimerInvariant, PTL

(* Time as software reads it goes on over ticks, stops, loads and their     *)
(* retirement; only a lone HI on its way shows a LO that may wrap.          *)
THEOREM TimeAlwaysGoesOn == MSpec => TimeNeverGoesBack
<1>1. ASSUME TimerInv, NEW aph \in Access, NEW other \in BOOLEAN, HclkEdge(aph, other),
             Stored("mtime") = {}, mtime_pending' # {"hi"}
      PROVE  mtime_rd_src' >= mtime_rd_src
  <2>1. TypeOK /\ TypeOK' /\ LoadInv /\ MirrorInv
    BY <1>1, HclkEdgeType DEF TimerInv, SampleInv
  <2>2. load_launch \in BOOLEAN /\ lf_tick \in BOOLEAN /\ (load_launch => lf_tick /\ ~wr.load_req)
    BY <2>1 DEF TypeOK, load_launch, lf_tick
  <2>3. PICK P \in SUBSET Halves, Q \in SUBSET Halves : P = wr.load_pend /\ Q = mtime_pending
    BY <2>1 DEF TypeOK, mtime_pending
  <2>4. wr'.mtime_s1 = wr.mtime_s1
    <3>1. wr.mtime_s1 \in Times /\ dph.val \in Times
      BY <2>1 DEF TypeOK, Access
    <3>2. Merge(wr.mtime_s1, {}, dph.val) = wr.mtime_s1
      BY <3>1, MergeType
    <3> QED BY <1>1, <2>1, <3>2, EdgeWrites
  <2>5. PICK s \in Times, c \in Times, v \in Times, m \in Times :
          s = wr.mtime_s1 /\ c = cnt.mtime /\ v = wr.load_val /\ m = view.mirror
    BY <2>1 DEF TypeOK
  <2>6. mtime_rd_src = Merge(m, Q, s)
    BY <2>3, <2>5 DEF mtime_rd_src
  <2>7. mtime_rd_src' = Merge(view'.mirror, mtime_pending', s)
    BY <2>4, <2>5 DEF mtime_rd_src
  <2>8. CASE ~lf_tick
    <3>1. mtime_pending' = Q
      BY <1>1, <2>1, <2>2, <2>3, <2>8, EdgeWrites DEF mtime_pending
    <3>2. view'.mirror = m
      BY <1>1, <2>1, <2>5, <2>8, EdgeSamples
    <3>3. Merge(m, Q, s) \in Times
      BY <2>5, MergeType
    <3> QED BY <2>6, <2>7, <3>1, <3>2, <3>3 DEF Times
  <2>9. CASE lf_tick
    <3>1. mtime_pending' = P /\ P # {"hi"}
      <4>1. wr'.load_req = load_launch
        BY <1>1, <2>1, <2>9, EdgeWrites
      <4>2. CASE load_launch
        BY <1>1, <2>1, <2>3, <4>1, <4>2, EdgeWrites DEF mtime_pending
      <4>3. CASE ~load_launch
        BY <1>1, <2>1, <2>3, <4>1, <4>3, EdgeWrites DEF mtime_pending
      <4> QED BY <1>1, <4>2, <4>3
    <3>2. view'.mirror = c
      BY <1>1, <2>1, <2>5, <2>9, EdgeSamples
    <3>3. Merge(c, P, s) \in Times /\ Merge(m, Q, s) \in Times
      BY <2>5, MergeType
    <3>4. /\ Hi(Merge(m, Q, s)) = IF "hi" \in Q THEN Hi(s) ELSE Hi(m)
          /\ Lo(Merge(m, Q, s)) = IF "lo" \in Q THEN Lo(s) ELSE Lo(m)
      BY <2>5, MergedHalves
    <3>5. /\ Hi(Merge(c, P, s)) = IF "hi" \in P THEN Hi(s) ELSE Hi(c)
          /\ Lo(Merge(c, P, s)) = IF "lo" \in P THEN Lo(s) ELSE Lo(c)
      BY MergedHalves, Zenon
    (* What the counter was when the request was taken, if there is one. *)
    <3>6. PICK b \in Times :
            /\ b <= c
            /\ "hi" \notin P => Hi(b) = IF "hi" \in Q THEN Hi(s) ELSE Hi(m)
            /\ "lo" \notin P => Lo(b) = IF "lo" \in Q THEN Lo(s) ELSE Lo(m)
      <4>1. CASE wr.load_req
        <5>1. Q = P \cup wr.load_we
          BY <2>3, <4>1 DEF mtime_pending
        <5>2. cnt.load_req_d
          BY <2>1, <2>9, <4>1, TickIsRise DEF LoadInv
        <5>3. Merge(m, wr.load_we, v) <= c /\ Merge(m, wr.load_we, v) \in Times
          <6>1. c >= Merge(m, wr.load_we, v)
            BY <2>1, <2>5, <4>1, <5>2 DEF MirrorInv
          <6>2. Merge(m, wr.load_we, v) \in Times
            BY <2>5, MergeType
          <6> QED BY <6>1, <6>2 DEF Times
        <5>4. /\ Hi(Merge(m, wr.load_we, v)) = IF "hi" \in wr.load_we THEN Hi(v) ELSE Hi(m)
              /\ Lo(Merge(m, wr.load_we, v)) = IF "lo" \in wr.load_we THEN Lo(v) ELSE Lo(m)
          BY <2>5, MergedHalves
        <5>5. /\ "hi" \in wr.load_we /\ "hi" \notin P => Hi(s) = Hi(v)
              /\ "lo" \in wr.load_we /\ "lo" \notin P => Lo(s) = Lo(v)
          BY <2>1, <2>3, <2>5, <4>1 DEF MirrorInv
        <5> QED BY <5>1, <5>3, <5>4, <5>5
      <4>2. CASE ~wr.load_req
        <5>1. Q = P
          BY <2>3, <4>2 DEF mtime_pending
        <5>2. m <= c
          BY <2>1, <2>5, <4>2 DEF MirrorInv
        <5> QED BY <2>5, <5>1, <5>2
      <4> QED BY <4>1, <4>2
    <3>7. P \subseteq Q
      BY <2>3 DEF mtime_pending
    <3>8. CASE "hi" \in P
      <4>1. "lo" \in P
        BY <3>1, <3>8 DEF Halves
      <4>2. Merge(c, P, s) = Merge(m, Q, s)
        BY <3>3, <3>4, <3>5, <3>7, <3>8, <4>1, SameHalves
      <4> QED BY <2>6, <2>7, <3>1, <3>2, <3>3, <4>2 DEF Times
    <3>9. CASE "hi" \notin P
      <4>1. Hi(b) <= Hi(c) /\ Hi(Merge(m, Q, s)) = Hi(b) /\ Hi(Merge(c, P, s)) = Hi(c)
        BY <2>5, <3>4, <3>5, <3>6, <3>9, LaterHalves
      <4>2. CASE "lo" \in P
        <5>1. Lo(Merge(m, Q, s)) = Lo(s) /\ Lo(Merge(c, P, s)) = Lo(s) /\ Lo(s) <= Lo(s)
          BY <2>5, <3>4, <3>5, <3>7, <4>2, HalvesOf
        <5>2. Hi(b) \in Nat /\ Hi(c) \in Nat
          BY <2>5, <3>6, HalvesOf
        <5>3. Hi(Merge(m, Q, s)) < Hi(Merge(c, P, s)) \/ Hi(Merge(m, Q, s)) = Hi(Merge(c, P, s))
          BY <4>1, <5>2
        <5>4. Merge(m, Q, s) <= Merge(c, P, s)
          BY <3>3, <5>1, <5>3, LaterHalves DEF Times
        <5> QED BY <2>6, <2>7, <3>1, <3>2, <3>3, <5>4 DEF Times
      <4>3. CASE "lo" \notin P
        <5>1. Merge(m, Q, s) = b
          BY <3>3, <3>4, <3>6, <4>1, <4>3, SameHalves
        <5>2. Merge(c, P, s) = c
          BY <2>5, <3>3, <3>5, <4>1, <4>3, SameHalves
        <5> QED BY <2>5, <2>6, <2>7, <3>1, <3>2, <3>6, <5>1, <5>2 DEF Times
      <4> QED BY <4>2, <4>3
    <3> QED BY <3>8, <3>9
  <2> QED BY <2>2, <2>8, <2>9
<1>2. ASSUME TimerInv, LfStep \/ UNCHANGED mvars
      PROVE  mtime_rd_src' >= mtime_rd_src
  <2>1. wr' = wr /\ view' = view
    BY <1>2 DEF LfStep, LfRise, LfFall, OtherWake, mvars
  <2>2. mtime_rd_src' = mtime_rd_src
    BY <2>1 DEF mtime_rd_src, mtime_pending
  <2>3. mtime_rd_src \in Times
    BY <1>2, MergeType DEF TimerInv, SampleInv, TypeOK, mtime_rd_src
  <2> QED BY <2>2, <2>3 DEF Times
<1>3. ASSUME TimerInv, [MNext]_mvars
      PROVE  Stored("mtime") # {} \/ mtime_pending' = {"hi"} \/ mtime_rd_src' >= mtime_rd_src
  <2>1. CASE LfStep \/ UNCHANGED mvars
    BY <1>2, <1>3, <2>1
  <2>2. CASE \E aph \in Traffic \cup {NoAccess}, other \in BOOLEAN : HclkEdge(aph, other)
    BY <1>1, <1>3, <2>2, AccessType, TrafficAssumption
  <2> QED BY <1>3, <2>1, <2>2 DEF MNext
<1>4. TimerInv /\ [MNext]_mvars =>
        [Stored("mtime") # {} \/ mtime_pending' = {"hi"} \/ mtime_rd_src' >= mtime_rd_src]_mvars
  BY <1>3
<1> QED BY <1>4, TimerInvariant, PTL DEF MSpec, TimeNeverGoesBack

----------------------------------------------------------------------------
(* A rise stays in the pipeline until its tick. *)
LEMMA EdgeKeepsRise ==
  ASSUME SampleInv, tick.warm = 4, ~lf_tick, RiseInPipe, NEW aph, NEW other, HclkEdge(aph, other)
  PROVE  RiseInPipe'
<1>1. Age = 6 /\ TypeOK
  BY DEF Age, SampleInv
<1>2. PICK n \in 0 .. Settled : n = lf.since
  BY <1>1 DEF TypeOK
<1>3. lf'.level = lf.level /\ (n # 0 => tick'.meta = lf.level)
      /\ tick'.sync = tick.meta /\ tick'.s3 = tick.sync /\ tick'.d = tick.s3
  BY <1>1, <1>2, EdgeSamples
<1>4. CASE lf.level
  <2>1. (n = 0 => ~tick.meta) /\ (n >= 2 => tick.meta)
    BY <1>1, <1>2, <1>4 DEF SampleInv, HighInv
  <2>2. CASE ~tick.meta
    <3>1. ~tick'.meta \/ (tick'.meta /\ ~tick'.sync)
      BY <1>3, <2>2, Zenon
    <3>2. lf'.level
      BY <1>3, <1>4, Zenon
    <3> QED BY <3>1, <3>2, Zenon DEF RiseInPipe
  <2>3. CASE tick.meta
    <3>1. n # 0
      BY <2>1, <2>3
    <3>2. (tick.meta /\ ~tick.sync) \/ (tick.sync /\ ~tick.s3)
      BY <1>2, <2>3, <3>1 DEF RiseInPipe, lf_tick
    <3> QED BY <1>3, <3>2, Zenon DEF RiseInPipe
  <2> QED BY <2>2, <2>3
<1>5. CASE ~lf.level
  <2>1. n = 0 => tick.meta
    BY <1>1, <1>2, <1>5 DEF SampleInv, LowInv
  <2>2. (tick.meta /\ ~tick.sync) \/ (tick.sync /\ ~tick.s3)
    BY <1>2, <1>5, <2>1 DEF RiseInPipe, lf_tick
  <2> QED BY <1>3, <2>2, Zenon DEF RiseInPipe
<1> QED BY <1>4, <1>5

(* With the clock trusted, clk_lf rises only when the last rise has ticked. *)
LEMMA RiseFindsPipeEmpty ==
  ASSUME SampleInv, tick.warm = 4, LfRise
  PROVE  ~RiseInPipe
<1>1. Age = 6 /\ TypeOK
  BY DEF Age, SampleInv
<1>2. PICK n \in 0 .. Settled : n = lf.since
  BY <1>1 DEF TypeOK
<1>3. osc_en_o(osc) /\ ~lf.level
  BY DEF SampleInv, TrustInv, LfRise
<1>4. n >= LOW_MIN
  BY <1>2, <1>3 DEF LfRise
<1>5. ~tick.meta /\ (tick.sync => tick.s3) /\ (tick.s3 => tick.d)
  BY <1>1, <1>2, <1>3, <1>4, PhaseAssumption DEF SampleInv, LowInv
<1> QED BY <1>2, <1>3, <1>4, <1>5, PhaseAssumption DEF RiseInPipe

LEMMA FallKeepsRise ==
  ASSUME SampleInv, tick.warm = 4, LfFall, RiseInPipe
  PROVE  RiseInPipe'
<1>1. Age = 6 /\ TypeOK
  BY DEF Age, SampleInv
<1>2. PICK n \in 0 .. Settled : n = lf.since
  BY <1>1 DEF TypeOK
<1>3. osc_en_o(osc) /\ lf.level
  BY DEF SampleInv, TrustInv, LfFall
<1>4. n >= HIGH_MIN /\ n >= 2
  BY <1>2, <1>3, PhaseAssumption DEF LfFall
<1>5. tick.meta
  BY <1>1, <1>2, <1>3, <1>4 DEF SampleInv, HighInv
<1>6. tick' = tick
  BY DEF LfFall
<1> QED BY <1>2, <1>4, <1>5, <1>6 DEF RiseInPipe

LEMMA EdgeKeepsRead ==
  ASSUME SampleInv, ReadInv, TypeOK', NEW aph, NEW other, HclkEdge(aph, other)
  PROVE  ReadInv'
<1>1. TypeOK /\ cnt' = cnt /\ lf_tick \in BOOLEAN
  BY DEF SampleInv, HclkEdge, TypeOK, lf_tick
<1>2. SUFFICES ASSUME view'.valid
               PROVE  cnt.mtime <= view'.mirror + (IF RiseInPipe' THEN 1 ELSE 0)
  BY <1>1 DEF ReadInv
<1>3. lf_tick \/ view.valid
  BY <1>1, <1>2, EdgeSamples
<1>4. cnt.mtime \in Nat /\ view.mirror \in Nat
  BY <1>1 DEF TypeOK, Times
<1>5. CASE lf_tick
  <2>1. view'.mirror = cnt.mtime
    BY <1>1, <1>5, EdgeSamples
  <2> QED BY <1>4, <2>1
<1>6. CASE ~lf_tick /\ view.valid
  <2>1. view'.mirror = view.mirror
    BY <1>1, <1>6, EdgeSamples
  <2>2. cnt.mtime <= view.mirror + (IF RiseInPipe THEN 1 ELSE 0)
    BY <1>6 DEF ReadInv
  <2>3. RiseInPipe => RiseInPipe'
    BY <1>6, EdgeKeepsRise DEF SampleInv, TrustInv
  <2> QED BY <1>4, <2>1, <2>2, <2>3
<1> QED BY <1>3, <1>5, <1>6

LEMMA LfStepKeepsRead ==
  ASSUME SampleInv, ReadInv, ~wr.load_req, LfStep
  PROVE  ReadInv'
<1>1. TypeOK /\ view' = view /\ (view.valid => tick.warm = 4)
  BY DEF SampleInv, TrustInv, LfStep, LfRise, LfFall, OtherWake
<1>2. SUFFICES ASSUME view.valid
               PROVE  cnt'.mtime <= view.mirror + (IF RiseInPipe' THEN 1 ELSE 0)
  BY <1>1 DEF ReadInv
<1>3. cnt.mtime <= view.mirror + (IF RiseInPipe THEN 1 ELSE 0)
  BY <1>2 DEF ReadInv
<1>4. cnt.mtime \in Nat /\ view.mirror \in Nat
  BY <1>1 DEF TypeOK, Times
<1>5. CASE LfRise
  <2>1. ~RiseInPipe
    BY <1>1, <1>2, <1>5, RiseFindsPipeEmpty
  <2>2. lf'.level /\ lf'.since = 0
    BY <1>5 DEF LfRise
  <2>3. RiseInPipe'
    BY <2>2 DEF RiseInPipe
  <2>4. PICK m \in Times : m = cnt'.mtime /\ m <= cnt.mtime + 1
    BY <1>1, <1>5, CounterStep DEF mtime_load
  <2> QED BY <1>3, <1>4, <2>1, <2>3, <2>4 DEF Times
<1>6. CASE LfFall
  <2>1. RiseInPipe => RiseInPipe'
    BY <1>1, <1>2, <1>6, FallKeepsRise
  <2>2. cnt' = cnt
    BY <1>6 DEF LfFall
  <2> QED BY <1>3, <1>4, <2>1, <2>2
<1>7. CASE OtherWake
  <2>1. osc_en_o(osc)
    BY <1>1, <1>2 DEF SampleInv, TrustInv
  <2>2. lf' = lf /\ tick' = tick /\ cnt' = cnt
    BY <1>1, <1>7, <2>1 DEF OtherWake, TypeOK
  <2>3. RiseInPipe' <=> RiseInPipe
    BY <2>2 DEF RiseInPipe
  <2> QED BY <1>3, <1>4, <2>2, <2>3
<1> QED BY <1>5, <1>6, <1>7 DEF LfStep

----------------------------------------------------------------------------
(* Stores of a deadline. *)
LEMMA LastTime ==
  /\ AllOnes \in Times /\ AllOnes = Join(HI_MOD - 1, LO_MOD - 1)
  /\ Hi(AllOnes) = HI_MOD - 1 /\ Lo(AllOnes) = LO_MOD - 1
<1>1. HI_MOD - 1 \in 0 .. HI_MOD - 1 /\ LO_MOD - 1 \in 0 .. LO_MOD - 1
  BY ModAssumption
<1>2. (HI_MOD - 1) * LO_MOD = LO_MOD * HI_MOD - LO_MOD /\ LO_MOD * HI_MOD \in Nat
  BY ModAssumption
<1>3. AllOnes = Join(HI_MOD - 1, LO_MOD - 1)
  BY <1>2, ModAssumption DEF AllOnes, Join
<1> QED BY <1>1, <1>3, HalvesJoin, JoinedHalves

LEMMA StoreEffect ==
  ASSUME NEW c \in Times, NEW t \in Times
  PROVE  /\ Merge(c, {"lo"}, Store("mtimecmp", "lo", t).val) = Join(Hi(c), Lo(t))
         /\ Merge(c, {"hi"}, Store("mtimecmp", "hi", t).val) = Join(Hi(t), Lo(c))
<1>1. 0 \in Times
  BY AccessType
<1>2. PICK u \in Times, v \in Times :
        /\ u = Merge(0, {"lo"}, t) /\ Lo(u) = Lo(t)
        /\ v = Merge(0, {"hi"}, t) /\ Hi(v) = Hi(t)
  BY <1>1, MergedHalves
<1>3. Store("mtimecmp", "lo", t).val = u /\ Store("mtimecmp", "hi", t).val = v
  BY <1>2 DEF Store
<1> QED BY <1>2, <1>3 DEF Merge

LEMMA ComingType ==
  ASSUME TypeOK
  PROVE  /\ wr.cmp_s1 \in Times /\ Coming \in Times
         /\ Stored("mtimecmp") = {} => Coming = wr.cmp_s1
<1>1. wr.cmp_s1 \in Times /\ dph.val \in Times
  BY DEF TypeOK, Access
<1> QED BY <1>1, MergeType DEF Coming

LEMMA EdgeComing ==
  ASSUME TypeOK, NEW aph, NEW other, HclkEdge(aph, other)
  PROVE  /\ wr'.cmp_s1 = Coming
         /\ aph \in {NoAccess, ReadLo} => Coming' = Coming
         /\ \A t \in Times :
              /\ aph = Store("mtimecmp", "lo", t) => Coming' = Join(Hi(Coming), Lo(t))
              /\ aph = Store("mtimecmp", "hi", t) => Coming' = Join(Hi(t), Lo(Coming))
<1>1. wr'.cmp_s1 = Coming
  BY DEF HclkEdge, WrNext, Coming
<1>2. Coming' = Merge(Coming, Stored("mtimecmp")', dph'.val)
  BY <1>1 DEF Coming
<1>3. PICK c \in Times : c = Coming
  BY ComingType
<1>4. reg_ready \/ aph = NoAccess
  BY DEF HclkEdge
<1>5. dph' = IF reg_ready THEN aph ELSE dph
  BY DEF HclkEdge
<1>6. ASSUME aph \in {NoAccess, ReadLo} PROVE Coming' = Coming
  <2>1. dph' \in {NoAccess, ReadLo}
    BY <1>5, <1>6 DEF reg_ready
  <2>2. Stored("mtimecmp")' = {} /\ dph'.val \in Times
    BY <2>1, AccessType DEF Stored, NoAccess, ReadLo
  <2> QED BY <1>2, <1>3, <2>2, MergeType
<1>7. ASSUME NEW t \in Times, aph = Store("mtimecmp", "lo", t)
      PROVE  Coming' = Join(Hi(Coming), Lo(t))
  <2>1. dph' = Store("mtimecmp", "lo", t)
    BY <1>4, <1>5, <1>7 DEF Store, NoAccess
  <2>2. Stored("mtimecmp")' = {"lo"}
    BY <2>1 DEF Stored, Store
  <2> QED BY <1>2, <1>3, <2>1, <2>2, StoreEffect
<1>8. ASSUME NEW t \in Times, aph = Store("mtimecmp", "hi", t)
      PROVE  Coming' = Join(Hi(t), Lo(Coming))
  <2>1. dph' = Store("mtimecmp", "hi", t)
    BY <1>4, <1>5, <1>8 DEF Store, NoAccess
  <2>2. Stored("mtimecmp")' = {"hi"}
    BY <2>1 DEF Stored, Store
  <2> QED BY <1>2, <1>3, <2>1, <2>2, StoreEffect
<1> QED BY <1>1, <1>6, <1>7, <1>8

(* Covering the low half moves a deadline later, never earlier. *)
LEMMA CoverIsLater ==
  ASSUME NEW t \in Times
  PROVE  /\ Join(Hi(t), LO_MOD - 1) \in Times /\ t <= Join(Hi(t), LO_MOD - 1)
         /\ Hi(Join(Hi(t), LO_MOD - 1)) = Hi(t) /\ Lo(Join(Hi(t), LO_MOD - 1)) = LO_MOD - 1
<1>1. PICK h \in 0 .. HI_MOD - 1, l \in 0 .. LO_MOD - 1 : h = Hi(t) /\ l = Lo(t)
  BY HalvesOf
<1>2. LO_MOD - 1 \in 0 .. LO_MOD - 1 /\ l <= LO_MOD - 1
  BY ModAssumption
<1>3. PICK c \in Times : c = Join(h, LO_MOD - 1) /\ Hi(c) = h /\ Lo(c) = LO_MOD - 1
  BY <1>2, HalvesJoin, JoinedHalves
<1>4. t <= c
  BY <1>1, <1>2, <1>3, LaterHalves
<1> QED BY <1>1, <1>3, <1>4

(* An edge without a store leaves the call where it is. *)
LEMMA QuietKeepsCall ==
  ASSUME TypeOK, CpuOK, CallInv, NEW aph \in {NoAccess, ReadLo}, NEW other, HclkEdge(aph, other),
         cpu'.todo = cpu.todo, cpu'.old = cpu.old, cpu'.new = cpu.new
  PROVE  CallInv'
<1>1. PICK c \in Times : c = Coming /\ c = Coming' /\ c = wr'.cmp_s1
  BY ComingType, EdgeComing
<1> QED BY <1>1 DEF CallInv

LEMMA Tuples ==
  ASSUME NEW a, NEW b, NEW c
  PROVE  /\ Head(<<a>>) = a /\ Tail(<<a>>) = <<>> /\ <<a>> # <<>>
         /\ Head(<<a, b>>) = a /\ Tail(<<a, b>>) = <<b>> /\ <<a, b>> # <<>>
         /\ Head(<<a, b, c>>) = a /\ Tail(<<a, b, c>>) = <<b, c>>
OBVIOUS

LEMMA CallKeepsCall ==
  ASSUME TypeOK, CpuOK, CallInv, NEW d \in Times,
         Call(aclint_timer_set(d), d) \/ (d = AllOnes /\ Call(aclint_timer_disable, d))
  PROVE  CallInv' /\ HclkEdge(Store("mtimecmp", "lo", AllOnes), TRUE)
<1>0. PICK stores :
        /\ Call(stores, d)
        /\ \/ stores = aclint_timer_set(d)
           \/ d = AllOnes /\ stores = aclint_timer_disable
  OBVIOUS
<1>1. cpu.todo = <<>> /\ Coming = cpu.new
  <2>1. cpu.todo = <<>>
    BY <1>0 DEF Call
  <2>2. \A a, b : <<a>> # <<>> /\ <<a, b>> # <<>>
    BY Tuples
  <2> QED BY <2>1, <2>2 DEF CallInv
<1>2. HclkEdge(Store("mtimecmp", "lo", AllOnes), TRUE)
  <2>1. Head(stores) = Store("mtimecmp", "lo", AllOnes)
    BY <1>0, Tuples DEF aclint_timer_set, aclint_timer_disable
  <2> QED BY <1>0, <2>1 DEF Call
<1>3. /\ cpu'.new = d /\ cpu'.todo = Tail(stores)
      /\ cpu'.old = IF Stored("mtimecmp") = {} THEN cpu.new ELSE Least(cpu.old, cpu.new)
  BY <1>0 DEF Call
<1>4. PICK t \in Times, e \in Times : t = cpu.new /\ e = cpu'.old /\ e <= t
  <2>1. cpu.old \in Times /\ cpu.new \in Times
    BY DEF CpuOK
  <2> QED BY <1>3, <2>1 DEF Least, Times
<1>5. wr'.cmp_s1 = t /\ Coming' = Join(Hi(t), LO_MOD - 1)
  BY <1>1, <1>2, <1>4, EdgeComing, LastTime
<1>6. PICK c \in Times : c = Coming' /\ t <= c /\ Lo(c) = LO_MOD - 1
  BY <1>5, CoverIsLater
<1>7. PICK b \in Times : b = Least(cpu'.old, cpu'.new) /\ b <= t /\ b <= c
  <2>1. Least(e, d) \in Times /\ Least(e, d) <= e
    BY DEF Least, Times
  <2>2. Least(e, d) <= t /\ Least(e, d) <= c
    BY <1>4, <1>6, <2>1 DEF Times
  <2> QED BY <1>3, <1>4, <2>1, <2>2
<1>8. wr'.cmp_s1 >= Least(cpu'.old, cpu'.new) /\ Coming' >= Least(cpu'.old, cpu'.new)
  BY <1>5, <1>6, <1>7 DEF Times
<1>9. Lo(Coming') = LO_MOD - 1
  BY <1>6
<1>10. \/ cpu'.todo = <<Store("mtimecmp", "hi", cpu'.new), Store("mtimecmp", "lo", cpu'.new)>>
       \/ cpu'.todo = <<Store("mtimecmp", "hi", cpu'.new)>> /\ cpu'.new = AllOnes
  <2>1. CASE stores = aclint_timer_set(d)
    BY <1>3, <2>1, Tuples DEF aclint_timer_set
  <2>2. CASE d = AllOnes /\ stores = aclint_timer_disable
    BY <1>3, <2>2, Tuples DEF aclint_timer_disable
  <2> QED BY <1>0, <2>1, <2>2
<1>11. Lo(Coming)' = LO_MOD - 1
  BY <1>9
<1> QED BY <1>2, <1>8, <1>10, <1>11 DEF CallInv

LEMMA StoreKeepsCall ==
  ASSUME TypeOK, CpuOK, CallInv, NextStore
  PROVE  CallInv' /\ \E half \in Halves : HclkEdge(Store("mtimecmp", half, cpu.new), TRUE)
<1>1. HclkEdge(Head(cpu.todo), TRUE) /\ cpu.todo # <<>>
  BY DEF NextStore
<1>2. cpu'.todo = Tail(cpu.todo) /\ cpu'.new = cpu.new /\ cpu'.old = cpu.old
  BY DEF NextStore, CpuOK
<1>3. PICK t \in Times, e \in Times, c \in Times : t = cpu.new /\ e = cpu.old /\ c = Coming
  BY ComingType DEF CpuOK
<1>4. PICK b \in Times : b = Least(cpu.old, cpu.new) /\ b <= t
  BY <1>3 DEF Least, Times
<1>5. b <= c
  BY <1>3, <1>4 DEF CallInv, Times
<1>6. wr'.cmp_s1 = c
  BY <1>1, <1>3, EdgeComing
<1>7. SUFFICES ASSUME NEW half \in Halves, HclkEdge(Store("mtimecmp", half, t), TRUE),
                      NEW d \in Times, d = Coming', t <= d,
                      \/ cpu'.todo = <<>> /\ d = t
                      \/ cpu'.todo = <<Store("mtimecmp", "lo", t)>> /\ d = Join(Hi(t), LO_MOD - 1)
               PROVE  CallInv'
  <2>1. CASE cpu.todo = <<Store("mtimecmp", "lo", t)>> /\ c = Join(Hi(t), LO_MOD - 1)
    <3>1. HclkEdge(Store("mtimecmp", "lo", t), TRUE) /\ cpu'.todo = <<>>
      BY <1>1, <1>2, <2>1, Tuples
    <3>2. Coming' = Join(Hi(c), Lo(t))
      BY <1>3, <3>1, EdgeComing
    <3>3. Hi(c) = Hi(t)
      BY <2>1, CoverIsLater
    <3>4. Coming' = t
      BY <3>2, <3>3, HalvesOf
    <3>5. t <= t /\ "lo" \in Halves
      BY DEF Halves, Times
    <3> QED BY <1>3, <1>7, <3>1, <3>4, <3>5
  <2>2. CASE /\ Lo(c) = LO_MOD - 1
             /\ cpu.todo = <<Store("mtimecmp", "hi", t), Store("mtimecmp", "lo", t)>>
    <3>1. /\ HclkEdge(Store("mtimecmp", "hi", t), TRUE)
          /\ cpu'.todo = <<Store("mtimecmp", "lo", t)>>
      <4>1. PICK x, y : /\ x = Store("mtimecmp", "hi", t) /\ y = Store("mtimecmp", "lo", t)
                        /\ cpu.todo = <<x, y>>
        BY <2>2
      <4>2. Head(cpu.todo) = x /\ Tail(cpu.todo) = <<y>>
        BY <4>1, Tuples
      <4> QED BY <1>1, <1>2, <4>1, <4>2
    <3>2. Coming' = Join(Hi(t), LO_MOD - 1)
      BY <1>3, <2>2, <3>1, EdgeComing
    <3>3. PICK k \in Times : k = Coming' /\ t <= k
      BY <3>2, CoverIsLater
    <3> QED BY <1>3, <1>7, <3>1, <3>2, <3>3 DEF Halves
  <2>3. CASE Lo(c) = LO_MOD - 1 /\ cpu.todo = <<Store("mtimecmp", "hi", t)>> /\ t = AllOnes
    <3>1. HclkEdge(Store("mtimecmp", "hi", t), TRUE) /\ cpu'.todo = <<>>
      BY <1>1, <1>2, <2>3, Tuples
    <3>2. Coming' = Join(Hi(t), LO_MOD - 1)
      BY <1>3, <2>3, <3>1, EdgeComing
    <3>3. Coming' = t
      BY <2>3, <3>2, LastTime
    <3>4. t <= t /\ "hi" \in Halves
      BY DEF Halves, Times
    <3> QED BY <1>3, <1>7, <3>1, <3>3, <3>4
  <2> QED BY <1>1, <1>3, <2>1, <2>2, <2>3 DEF CallInv
<1>8. wr'.cmp_s1 >= Least(cpu'.old, cpu'.new)
  BY <1>2, <1>4, <1>5, <1>6 DEF Times
<1>9. Coming' >= Least(cpu'.old, cpu'.new)
  BY <1>2, <1>4, <1>7 DEF Times
<1> QED BY <1>2, <1>3, <1>7, <1>8, <1>9 DEF CallInv

LEMMA HartStepKeepsCall ==
  ASSUME TypeOK, CpuOK, CallInv, HartStep
  PROVE  /\ CallInv'
         /\ \E aph \in Access, other \in BOOLEAN :
              HclkEdge(aph, other) /\ (aph.op = "write" => aph.reg = "mtimecmp")
<1>1. \A half \in Halves, t \in Times : Store("mtimecmp", half, t) \in Access
                                       /\ Store("mtimecmp", half, t).reg = "mtimecmp"
  BY AccessType DEF Store
<1>2. ASSUME NEW d \in Deadlines, Call(aclint_timer_set(d), d)
      PROVE  CallInv' /\ HclkEdge(Store("mtimecmp", "lo", AllOnes), TRUE)
  BY <1>2, CallKeepsCall, DeadlineAssumption
<1>3. ASSUME Call(aclint_timer_disable, AllOnes)
      PROVE  CallInv' /\ HclkEdge(Store("mtimecmp", "lo", AllOnes), TRUE)
  BY <1>3, CallKeepsCall, LastTime
<1>4. ASSUME NextStore
      PROVE  CallInv' /\ \E half \in Halves : HclkEdge(Store("mtimecmp", half, cpu.new), TRUE)
  BY <1>4, StoreKeepsCall
<1>5. ASSUME aclint_mtime_lo \/ Compute \/ Wfi \/ Sleep \/ Resume
      PROVE  CallInv' /\ \E aph \in {NoAccess, ReadLo}, other \in BOOLEAN : HclkEdge(aph, other)
  <2>1. /\ \E aph \in {NoAccess, ReadLo}, other \in BOOLEAN : HclkEdge(aph, other)
        /\ cpu' = cpu \/ \E pc \in {"run", "wfi"} : cpu' = [cpu EXCEPT !.pc = pc]
    BY <1>5 DEF aclint_mtime_lo, Compute, Wfi, Sleep, Resume
  <2>2. cpu'.todo = cpu.todo /\ cpu'.old = cpu.old /\ cpu'.new = cpu.new
    BY <2>1 DEF CpuOK
  <2> QED BY <2>1, <2>2, QuietKeepsCall
<1>6. cpu.new \in Times /\ AllOnes \in Times /\ "lo" \in Halves
  BY LastTime DEF CpuOK, Halves
<1>7. \A aph \in {NoAccess, ReadLo} : aph \in Access /\ aph.op # "write"
  BY AccessType DEF NoAccess, ReadLo
<1> QED BY <1>1, <1>2, <1>3, <1>4, <1>5, <1>6, <1>7 DEF HartStep

LEMMA EdgeKeepsNoLoads ==
  ASSUME NoLoads, NEW aph, NEW other, HclkEdge(aph, other), aph.op = "write" => aph.reg = "mtimecmp"
  PROVE  NoLoads'
<1>1. wr' = WrNext /\ ~load_launch
  BY DEF HclkEdge, load_launch, NoLoads
<1>2. dph' = aph \/ dph' = dph
  BY DEF HclkEdge
<1>3. Stored("mtime")' = {}
  BY <1>2 DEF Stored, NoLoads
<1> QED BY <1>1, <1>3 DEF WrNext, load_pend_nxt, NoLoads

LEMMA DriverInvariant == DSpec => []DriverInv
<1>1. DInit => DriverInv
  <2>1. SUFFICES ASSUME DInit PROVE DriverInv
    OBVIOUS
  <2>2. MInit /\ TimerInv
    BY <2>1, TimerInit DEF DInit
  <2>3. CpuOK
    BY <2>1, AccessType DEF DInit, CpuOK
  <2>4. NoLoads /\ ReadInv /\ Stored("mtimecmp") = {} /\ wr.cmp_s1 = AllOnes
    BY <2>2 DEF MInit, NoLoads, ReadInv, Stored, NoAccess
  <2>5. Coming = AllOnes
    BY <2>2, <2>4, ComingType DEF TimerInv, SampleInv
  <2>6. CallInv
    <3>1. cpu.todo = <<>> /\ cpu.new = AllOnes /\ Least(cpu.old, cpu.new) = AllOnes
      BY <2>1 DEF DInit, Least
    <3> QED BY <2>4, <2>5, <3>1, LastTime DEF CallInv, Times
  <2> QED BY <2>2, <2>3, <2>4, <2>6 DEF DriverInv
<1>2. DriverInv /\ [DNext]_dvars => DriverInv'
  <2>1. SUFFICES ASSUME DriverInv, [DNext]_dvars PROVE DriverInv'
    OBVIOUS
  <2>2. TimerInv /\ SampleInv /\ TypeOK /\ CpuOK /\ NoLoads /\ CallInv /\ ReadInv
    BY <2>1 DEF DriverInv, TimerInv, SampleInv
  <2>3. CASE HartStep
    <3>1. CallInv' /\ CpuOK'
      BY <2>2, <2>3, HartStepKeepsCall, HartStepIsEdge
    <3>2. PICK aph \in Access, other \in BOOLEAN :
            HclkEdge(aph, other) /\ (aph.op = "write" => aph.reg = "mtimecmp")
      BY <2>2, <2>3, HartStepKeepsCall
    <3>3. TimerInv' /\ TypeOK'
      BY <2>2, <3>2, EdgeKeepsTimerInv, HclkEdgeType
    <3> QED BY <2>2, <3>1, <3>2, <3>3, EdgeKeepsNoLoads, EdgeKeepsRead DEF DriverInv
  <2>4. CASE LfStep /\ UNCHANGED cpu
    <3>1. TimerInv' /\ ReadInv'
      BY <2>2, <2>4, LfStepKeepsTimerInv, LfStepKeepsRead DEF NoLoads
    <3>2. wr' = wr /\ dph' = dph /\ cpu' = cpu
      BY <2>4 DEF LfStep, LfRise, LfFall, OtherWake
    <3>3. CpuOK' /\ NoLoads' /\ CallInv'
      BY <2>2, <3>2 DEF CpuOK, NoLoads, CallInv, Coming, Stored
    <3> QED BY <3>1, <3>3 DEF DriverInv
  <2>5. CASE UNCHANGED dvars
    <3>1. TimerInv'
      BY <2>2, <2>5, TimerInvStep DEF dvars
    <3>2. UNCHANGED <<lf, tick, wr, cnt, view, dph, cpu>>
      BY <2>5 DEF dvars, mvars
    <3> QED BY <2>2, <3>1, <3>2
      DEF DriverInv, CpuOK, NoLoads, CallInv, Coming, Stored, ReadInv, RiseInPipe
  <2> QED BY <2>1, <2>3, <2>4, <2>5 DEF DNext
<1> QED BY <1>1, <1>2, PTL DEF DSpec

(* MTIP never comes before the deadline, whatever the mirror holds and      *)
(* however far a call that moves the deadline has come.                     *)
THEOREM TimerNeverSpurious == DSpec => []NoSpuriousTimer
<1>1. ASSUME DriverInv PROVE NoSpuriousTimer
  <2>1. TypeOK /\ NoLoads /\ CallInv /\ MirrorInv /\ CpuOK
    BY <1>1 DEF DriverInv, TimerInv, SampleInv
  <2>2. PICK m \in Times, c \in Times, r \in Times : m = view.mirror /\ c = cnt.mtime /\ r = wr.cmp_s1
    BY <2>1 DEF TypeOK
  <2>3. mtime_rd_src = m
    <3>1. mtime_pending = {} /\ wr.mtime_s1 \in Times
      BY <2>1 DEF NoLoads, mtime_pending, TypeOK
    <3> QED BY <2>2, <3>1, MergeType DEF mtime_rd_src
  <2>4. m <= c
    BY <2>1, <2>2 DEF MirrorInv, NoLoads
  <2>5. SUFFICES ASSUME m >= r
                 PROVE  c >= IF cpu.todo = <<>> /\ Stored("mtimecmp") = {} THEN cpu.new
                             ELSE Least(cpu.old, cpu.new)
    BY <2>2, <2>3 DEF NoSpuriousTimer, irq_m_timer
  <2>6. c >= r
    BY <2>4, <2>5 DEF Times
  <2>7. CASE cpu.todo = <<>> /\ Stored("mtimecmp") = {}
    <3>1. r = cpu.new
      BY <2>1, <2>2, <2>7, ComingType DEF CallInv
    <3> QED BY <2>6, <2>7, <3>1
  <2>8. CASE ~(cpu.todo = <<>> /\ Stored("mtimecmp") = {})
    <3>1. Least(cpu.old, cpu.new) \in Times /\ r >= Least(cpu.old, cpu.new)
      BY <2>1, <2>2 DEF CallInv, CpuOK, Least
    <3> QED BY <2>6, <2>8, <3>1 DEF Times
  <2> QED BY <2>7, <2>8
<1> QED BY <1>1, DriverInvariant, PTL

(* A read of MTIME_LO that completes is at most one tick old, however long  *)
(* the clock stood before it.                                               *)
THEOREM ReadAlwaysCurrent == DSpec => []ReadIsCurrent
<1>1. ASSUME DriverInv, dph = ReadLo, reg_ready PROVE cnt.mtime <= view.mirror + 1
  <2>1. cnt.mtime <= view.mirror + (IF RiseInPipe THEN 1 ELSE 0)
    BY <1>1 DEF DriverInv, ReadInv, reg_ready
  <2>2. cnt.mtime \in Nat /\ view.mirror \in Nat
    BY <1>1 DEF DriverInv, TimerInv, SampleInv, TypeOK, Times
  <2> QED BY <2>1, <2>2
<1>2. DriverInv => ReadIsCurrent
  BY <1>1 DEF ReadIsCurrent
<1> QED BY <1>2, DriverInvariant, PTL
=============================================================================
