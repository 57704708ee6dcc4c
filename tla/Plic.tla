-------------------------------- MODULE Plic --------------------------------
(***************************************************************************)
(* The platform-level interrupt controller of ahb_plic: the level          *)
(* gateways and in-service bits (plic_pending), the per-context arbiter    *)
(* with its claim and complete pulses (plic_target), the priority and      *)
(* enable registers, the AHB address-to-data-phase latch, the privilege    *)
(* and size filter with its two-cycle ERROR, and the clock request.        *)
(*                                                                         *)
(* One HclkEdge step is one rising edge of hclk: every register of the     *)
(* block takes its next value at once.  The interrupt lines change between *)
(* two edges.  hclk is gated: an edge exists only while hclk_en is high,   *)
(* as when the integrator drives a clock gate with hclk_en_o.              *)
(***************************************************************************)
EXTENDS Integers, FiniteSets

CONSTANTS
  NUM_SOURCES,    \* interrupt sources 1..NUM_SOURCES
  NUM_HARTS,
  SU_MODE_EN,     \* TRUE: an M and an S context per hart; FALSE: M only
  PRIV_CHECK_EN,  \* TRUE: the privilege filter is built
  PRIO_MAX,       \* 2^PRIO_BITS - 1
  WORD,           \* enable bits held by one register word (32 in the code)
  Traffic         \* the transfers the masters of the bus issue

ASSUME SourcesAssumption == NUM_SOURCES \in Nat \ {0}
ASSUME HartsAssumption   == NUM_HARTS \in Nat \ {0}
ASSUME SuModeAssumption  == SU_MODE_EN \in BOOLEAN /\ PRIV_CHECK_EN \in BOOLEAN
ASSUME PrioAssumption    == PRIO_MAX \in Nat \ {0}
ASSUME WordAssumption    == WORD \in Nat \ {0}

VARIABLES
  dph,         \* the transfer in its data phase, NoAccess when there is none
  err_state,   \* TRUE in the second cycle of an ERROR response
  pending,     \* sources whose gateway has forwarded a request
  in_service,  \* sources claimed and not yet completed
  enable,      \* sources enabled, per context
  prio,        \* priority of each source
  threshold,   \* threshold of each context
  irq_src      \* sources whose request line is high

regs == <<dph, err_state, pending, in_service, enable, prio, threshold>>
vars == <<dph, err_state, pending, in_service, enable, prio, threshold, irq_src>>

Sources      == 1 .. NUM_SOURCES
NUM_CONTEXTS == IF SU_MODE_EN THEN 2 * NUM_HARTS ELSE NUM_HARTS
Contexts     == 0 .. NUM_CONTEXTS - 1
Priorities   == 0 .. PRIO_MAX

----------------------------------------------------------------------------
(* Transfers.  "win" is the register window the address decodes to, "src"  *)
(* the addressed source or the ID a completion writes (one past the last   *)
(* source stands for every word that is no source ID), "word" the enable   *)
(* word, "val" and "bits" the write data, "size_ok" a word-sized transfer. *)

Windows == {"none", "priority", "pending", "enable", "threshold", "claim", "reserved"}

NoAccess == [win |-> "none", wr |-> FALSE, ctx |-> 0, src |-> 0, word |-> 0,
             val |-> 0, bits |-> {}, mode |-> "M", size_ok |-> TRUE]

AccessType == [win: Windows, wr: BOOLEAN, ctx: Contexts, src: 0 .. NUM_SOURCES + 1,
               word: Nat, val: Priorities, bits: SUBSET Sources,
               mode: {"M", "S", "U"}, size_ok: BOOLEAN]

WordOf(s) == s \div WORD

(* Every transfer has an address, in one of the windows or "reserved".     *)
ASSUME TrafficAssumption == Traffic \subseteq {a \in AccessType : a.win # "none"}

----------------------------------------------------------------------------
(* Combinational logic.  Operators named Bug_... are mutated forms of the   *)
(* definition that follows them, used to check that the properties bite.   *)

ctx_is_m_ctx(c) == ~SU_MODE_EN \/ c % 2 = 0

(* M reaches everything, S everything but the registers of M contexts,     *)
(* U nothing; without the filter only the size is checked.                 *)
dph_priv_allowed ==
  \/ ~PRIV_CHECK_EN
  \/ dph.mode = "M"
  \/ /\ dph.mode = "S"
     /\ ~(dph.win \in {"enable", "threshold", "claim"} /\ ctx_is_m_ctx(dph.ctx))

dph_valid     == dph.win # "none"
dph_access_ok == dph_priv_allowed /\ dph.size_ok
access_denied == dph_valid /\ ~dph_access_ok
in_err_p1     == access_denied /\ ~err_state
hreadyout     == ~in_err_p1
hresp         == in_err_p1 \/ err_state

Bug_unfiltered(win, wr) == dph.win = win /\ dph.wr = wr
Selected(win, wr) == dph.win = win /\ dph.wr = wr /\ dph_access_ok

(* The sources that take part in a context's arbitration. *)
Qualifying(c) == {s \in Sources : s \in pending /\ s \in enable[c] /\ prio[s] # 0}

(* s wins over t in the arbiter tree: higher priority, then lower ID. *)
Beats(s, t) == prio[s] > prio[t] \/ (prio[s] = prio[t] /\ s <= t)

(* The claim winner of a context, threshold not applied; 0 when none. *)
top_source_id(c) ==
  IF Qualifying(c) = {} THEN 0
  ELSE CHOOSE s \in Qualifying(c) : \A t \in Qualifying(c) : Beats(s, t)

Bug_irq_at_threshold(c) == \E s \in Qualifying(c) : prio[s] >= threshold[c]
irq_o(c) == \E s \in Qualifying(c) : prio[s] > threshold[c]

(* The source claimed, and the one completed, at this edge (or none). *)
Bug_last_not_completed ==
  IF Selected("claim", TRUE) THEN ({dph.src} \cap enable[dph.ctx]) \ {NUM_SOURCES} ELSE {}
Claimed   == IF Selected("claim", FALSE) THEN {top_source_id(dph.ctx)} \ {0} ELSE {}
Completed == IF Selected("claim", TRUE)  THEN {dph.src} \cap enable[dph.ctx] ELSE {}

pending_set_needed == (irq_src \ in_service) \ pending
Bug_no_data_phase_clock(aph) == aph # NoAccess \/ pending_set_needed # {}
hclk_en(aph) == aph # NoAccess \/ dph_valid \/ pending_set_needed # {}

----------------------------------------------------------------------------
Init ==
  /\ dph = NoAccess
  /\ err_state = FALSE
  /\ pending = {}
  /\ in_service = {}
  /\ enable = [c \in Contexts |-> {}]
  /\ prio = [s \in Sources |-> 0]
  /\ threshold = [c \in Contexts |-> 0]
  /\ irq_src \in SUBSET Sources

(* What each register takes at an edge, whether or not there is one: first  *)
(* the address phase, unless this block stalls the bus.                     *)
dph_nxt(aph)  == IF hreadyout THEN aph ELSE dph
err_state_next == access_denied /\ ~err_state

Bug_in_service_not_masked == (pending \cup irq_src) \ Claimed
Bug_set_wins_over_claim == (pending \ Claimed) \cup (irq_src \ in_service)
(* A claim clears pending and wins over the gateway, which sets pending    *)
(* from the line only while the source is not in service.                  *)
pending_nxt    == (pending \cup (irq_src \ in_service)) \ Claimed
in_service_nxt == (in_service \ Completed) \cup Claimed

prio_nxt ==
  IF Selected("priority", TRUE) /\ dph.src \in Sources
  THEN [prio EXCEPT ![dph.src] = dph.val] ELSE prio

enable_nxt ==
  IF Selected("enable", TRUE)
  THEN [enable EXCEPT ![dph.ctx] =
          {s \in Sources : s \in (IF WordOf(s) = dph.word THEN dph.bits ELSE @)}]
  ELSE enable

threshold_nxt ==
  IF Selected("threshold", TRUE)
  THEN [threshold EXCEPT ![dph.ctx] = dph.val] ELSE threshold

regs_nxt(aph) ==
  <<dph_nxt(aph), err_state_next, pending_nxt, in_service_nxt, enable_nxt, prio_nxt,
    threshold_nxt>>

BusPhase(aph) == dph' = dph_nxt(aph) /\ err_state' = err_state_next
Gateways == pending' = pending_nxt /\ in_service' = in_service_nxt
ConfigRegs == prio' = prio_nxt /\ enable' = enable_nxt /\ threshold' = threshold_nxt

(* All registers at one edge, with the address phase aph on the bus. *)
Registers(aph) == BusPhase(aph) /\ Gateways /\ ConfigRegs

(* One edge of the gated clock. *)
HclkEdge(aph) ==
  /\ hclk_en(aph)
  /\ Registers(aph)
  /\ UNCHANGED irq_src

(* A device raises or drops its level request. *)
LineChange(s) ==
  /\ irq_src' = IF s \in irq_src THEN irq_src \ {s} ELSE irq_src \cup {s}
  /\ UNCHANGED regs

Edge == \E aph \in Traffic \cup {NoAccess} : HclkEdge(aph)
Next == Edge \/ \E s \in Sources : LineChange(s)
Spec == Init /\ [][Next]_vars
FairSpec == Spec /\ WF_vars(Edge)

----------------------------------------------------------------------------
(* Properties. *)

(* Type invariant of the registers and lines. *)
TypeOK ==
  /\ dph \in AccessType
  /\ err_state \in BOOLEAN
  /\ pending \subseteq Sources
  /\ in_service \subseteq Sources
  /\ enable \in [Contexts -> SUBSET Sources]
  /\ prio \in [Sources -> Priorities]
  /\ threshold \in [Contexts -> Priorities]
  /\ irq_src \subseteq Sources

(* A source is never pending while a handler owns it: the two flops of a   *)
(* gateway, set and cleared under different conditions, stay exclusive.    *)
PendingOrInService == pending \cap in_service = {}

(* The state of each gateway as the abstract specification sees it. *)
gatewayState == [s \in Sources |-> IF s \in in_service THEN "in_service"
                                   ELSE IF s \in pending THEN "pending" ELSE "idle"]
Gateway == INSTANCE PlicGateway WITH gateway <- gatewayState, line <- irq_src

(* Whatever the masters write, every source follows the gateway protocol:  *)
(* forwarded once, claimed once, not forwarded again before completion.    *)
GatewayContract == Gateway!Spec

ConfigWrite ==
  \E win \in {"priority", "enable", "threshold"} : Selected(win, TRUE)

(* An interrupt, once raised to a context, is withdrawn only by a claim or *)
(* by software changing a priority, an enable or a threshold: never by the *)
(* line dropping, a completion, or an access the filter denied.            *)
NotificationHeld ==
  [][\A c \in Contexts : irq_o(c) /\ ~irq_o(c)' => Claimed # {} \/ ConfigWrite]_vars

(* A denied transfer claims, completes and writes nothing in either of its *)
(* two ERROR cycles; the first holds it on the bus, the second, always of  *)
(* the transfer that raised the first, releases it.                        *)
DeniedInert ==
  /\ [](err_state => access_denied)
  /\ [][access_denied /\ irq_src' = irq_src =>
          /\ in_service' = in_service
          /\ pending \subseteq pending'
          /\ UNCHANGED <<enable, prio, threshold>>
          /\ hresp
          /\ IF err_state THEN ~err_state' ELSE err_state' /\ dph' = dph]_vars

(* Gating the clock loses nothing: when hclk_en is low and no transfer     *)
(* arrives, every register would take at an edge the value it has.         *)
GateLossless == ~hclk_en(NoAccess) => regs_nxt(NoAccess) = regs

============================================================================
