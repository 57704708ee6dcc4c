----------------------------- MODULE PlicProofs -----------------------------
(***************************************************************************)
(* Theorems about Plic, for every number of sources, harts and priority    *)
(* levels, with or without S contexts and the privilege filter, and for    *)
(* every traffic on the bus; then about PlicDriver, the software of all    *)
(* harts above it, and about the comparison tree that finds the winner.    *)
(***************************************************************************)
EXTENDS PlicDriver, PlicArbiter, FiniteSetTheorems, WellFoundedInduction, TLAPS

(* The arbiter has a winner in every non-empty set of sources: the source  *)
(* whose set of sources beating it is minimal beats all others.            *)
LEMMA BestExists ==
  ASSUME prio \in [Sources -> Priorities], NEW Q \in SUBSET Sources, Q # {}
  PROVE  \E s \in Q : \A t \in Q : Beats(s, t)
<1> DEFINE Above(s) == {t \in Q : Beats(t, s)}
           F == {Above(s) : s \in Q}
<1>1. IsFiniteSet(Q)
  <2>1. 1 \in Int /\ NUM_SOURCES \in Int
    BY SourcesAssumption
  <2>2. IsFiniteSet(Sources)
    BY <2>1, FS_Interval DEF Sources
  <2> QED
    BY <2>2, FS_Subset
<1>2. IsWellFoundedOn(StrictSubsetOrdering(Q), SUBSET Q)
  BY <1>1, FS_FiniteSubsetsOfFinite, FS_StrictSubsetOrderingWellFounded
<1>3. F \subseteq SUBSET Q /\ F # {}
  OBVIOUS
<1> HIDE DEF F
<1>4. PICK A \in F : \A B \in F : ~ (<<B, A>> \in StrictSubsetOrdering(Q))
  BY <1>2, <1>3, WFMin
<1>5. PICK s \in Q : A = Above(s)
  BY <1>4 DEF F
<1>6. ASSUME NEW t \in Q, ~Beats(s, t)
      PROVE  FALSE
  <2>1. /\ prio[s] \in Int /\ prio[t] \in Int /\ s \in Int /\ t \in Int
        /\ \A u \in Q : prio[u] \in Int /\ u \in Int
    BY PrioAssumption, SourcesAssumption DEF Priorities, Sources
  <2>2. Above(t) \subseteq Above(s)
    <3> SUFFICES ASSUME NEW u \in Q, Beats(u, t) PROVE Beats(u, s)
      OBVIOUS
    <3> QED
      BY <1>6, <2>1 DEF Beats
  <2>3. s \in Above(s) /\ s \notin Above(t)
    BY <1>6, <2>1 DEF Beats
  <2>4. Above(t) \in F
    BY DEF F
  <2>5. <<Above(t), Above(s)>> \in StrictSubsetOrdering(Q)
    BY <2>2, <2>3, <1>3 DEF StrictSubsetOrdering
  <2> QED
    BY <1>4, <1>5, <2>4, <2>5
<1> QED
  BY <1>6

(* The claim winner of a context qualifies there and beats every source    *)
(* that qualifies; it is 0 exactly when none does.                         *)
LEMMA TopWins ==
  ASSUME prio \in [Sources -> Priorities], NEW c
  PROVE  /\ Qualifying(c) = {} => top_source_id(c) = 0
         /\ Qualifying(c) # {} => /\ top_source_id(c) \in Qualifying(c)
                                  /\ \A t \in Qualifying(c) : Beats(top_source_id(c), t)
<1>1. Qualifying(c) \in SUBSET Sources
  BY DEF Qualifying
<1> QED
  BY <1>1, BestExists DEF top_source_id

(* A claim takes at most one source, which was pending and enabled for the *)
(* claiming context; a completion releases at most one.                    *)
LEMMA ClaimOrComplete ==
  ASSUME TypeOK
  PROVE  /\ Claimed \subseteq pending \cap Sources
         /\ Completed \subseteq Sources
         /\ \A s, t \in Claimed : s = t
         /\ \A s, t \in Completed : s = t
         /\ Claimed = {} \/ Completed = {}
<1>1. prio \in [Sources -> Priorities]
  BY DEF TypeOK
<1>2. Claimed \subseteq pending \cap Sources
  BY <1>1, TopWins DEF Claimed, Qualifying, TypeOK
<1>3. Completed \subseteq Sources
  BY DEF Completed, TypeOK, AccessType
<1> QED
  BY <1>2, <1>3 DEF Claimed, Completed, Selected

----------------------------------------------------------------------------
LEMMA NoAccessType == NoAccess \in AccessType
<1>1. 0 \in Contexts
  <2>1. CASE SU_MODE_EN
    BY <2>1, HartsAssumption DEF Contexts, NUM_CONTEXTS
  <2>2. CASE ~SU_MODE_EN
    BY <2>2, HartsAssumption DEF Contexts, NUM_CONTEXTS
  <2> QED
    BY <2>1, <2>2
<1> QED
  BY <1>1, SourcesAssumption, PrioAssumption
     DEF NoAccess, AccessType, Windows, Priorities

(* An edge keeps the types of the registers, whatever is written to them.  *)
LEMMA EdgeKeepsTypes ==
  ASSUME TypeOK, NEW aph \in AccessType, HclkEdge(aph)
  PROVE  TypeOK'
<1>1. dph' \in AccessType /\ err_state' \in BOOLEAN
  BY DEF HclkEdge, Registers, BusPhase, dph_nxt, err_state_next, TypeOK, access_denied, dph_valid
<1>2. pending' \subseteq Sources /\ in_service' \subseteq Sources
  BY ClaimOrComplete DEF HclkEdge, Registers, Gateways, pending_nxt, in_service_nxt, TypeOK
<1>3. enable' \in [Contexts -> SUBSET Sources]
  BY DEF HclkEdge, Registers, ConfigRegs, enable_nxt, TypeOK, AccessType
<1>4. prio' \in [Sources -> Priorities] /\ threshold' \in [Contexts -> Priorities]
  BY DEF HclkEdge, Registers, ConfigRegs, prio_nxt, threshold_nxt, TypeOK, AccessType
<1> QED
  BY <1>1, <1>2, <1>3, <1>4 DEF TypeOK, HclkEdge

LEMMA LineKeepsTypes ==
  ASSUME TypeOK, NEW s \in Sources, LineChange(s)
  PROVE  TypeOK'
BY DEF LineChange, regs, TypeOK

(* The registers keep their types, whatever is written to them.            *)
THEOREM TypeCorrect == Spec => []TypeOK
<1>1. Init => TypeOK
  <2>1. 0 \in Priorities
    BY PrioAssumption DEF Priorities
  <2> QED
    BY <2>1, NoAccessType DEF Init, TypeOK
<1>2. TypeOK /\ [Next]_vars => TypeOK'
  <2> SUFFICES ASSUME TypeOK, [Next]_vars PROVE TypeOK'
    OBVIOUS
  <2>1. ASSUME NEW aph \in Traffic \cup {NoAccess}, HclkEdge(aph) PROVE TypeOK'
    BY <2>1, NoAccessType, TrafficAssumption, EdgeKeepsTypes
  <2>2. ASSUME NEW s \in Sources, LineChange(s) PROVE TypeOK'
    BY <2>2, LineKeepsTypes
  <2>3. CASE UNCHANGED vars
    BY <2>3 DEF vars, TypeOK
  <2> QED
    BY <2>1, <2>2, <2>3 DEF Next, Edge
<1> QED
  BY <1>1, <1>2, PTL DEF Spec

----------------------------------------------------------------------------
(* A claimed source was pending, so it was not in service, and the edge    *)
(* that claims it clears its pending bit.                                  *)
LEMMA EdgeKeepsExclusion ==
  ASSUME TypeOK, PendingOrInService, NEW aph, HclkEdge(aph)
  PROVE  PendingOrInService'
BY DEF HclkEdge, Registers, Gateways, pending_nxt, in_service_nxt, PendingOrInService

(* PendingOrInService is inductive with the types.                         *)
THEOREM PendingExclusive == Spec => []PendingOrInService
<1>1. Init => PendingOrInService
  BY DEF Init, PendingOrInService
<1>2. TypeOK /\ PendingOrInService /\ [Next]_vars => PendingOrInService'
  <2> SUFFICES ASSUME TypeOK, PendingOrInService, [Next]_vars
               PROVE  PendingOrInService'
    OBVIOUS
  <2>1. ASSUME NEW aph \in Traffic \cup {NoAccess}, HclkEdge(aph)
        PROVE  PendingOrInService'
    BY <2>1, EdgeKeepsExclusion
  <2>2. ASSUME NEW s \in Sources, LineChange(s) PROVE PendingOrInService'
    BY <2>2 DEF LineChange, regs, PendingOrInService
  <2>3. CASE UNCHANGED vars
    BY <2>3 DEF vars, PendingOrInService
  <2> QED
    BY <2>1, <2>2, <2>3 DEF Next, Edge
<1> QED
  BY <1>1, <1>2, TypeCorrect, PTL DEF Spec

(* Every source follows the abstract gateway protocol, whatever the        *)
(* masters read and write.                                                 *)
THEOREM ImplementsGateway == Spec => GatewayContract
<1>1. Init => Gateway!Init
  BY DEF Init, Gateway!Init, gatewayState
<1>2. TypeOK /\ PendingOrInService /\ [Next]_vars => [Gateway!Next]_(Gateway!gvars)
  <2> SUFFICES ASSUME TypeOK, PendingOrInService, [Next]_vars
               PROVE  [Gateway!Next]_(Gateway!gvars)
    OBVIOUS
  <2>1. ASSUME NEW aph \in Traffic \cup {NoAccess}, HclkEdge(aph)
        PROVE  Gateway!Clock
    <3>1. /\ pending' = (pending \cup (irq_src \ in_service)) \ Claimed
          /\ in_service' = (in_service \ Completed) \cup Claimed
          /\ UNCHANGED irq_src
      BY <2>1 DEF HclkEdge, Registers, Gateways, pending_nxt, in_service_nxt
    <3>2. CASE Claimed # {}
      <4>1. PICK s \in Claimed : Claimed = {s}
        BY <3>2, ClaimOrComplete
      <4>2. s \in Gateway!InState("pending") /\ Completed = {}
        BY <4>1, ClaimOrComplete DEF Gateway!InState, gatewayState, PendingOrInService
      <4>3. Gateway!Advance({s}, {})
        BY <3>1, <4>1, <4>2 DEF Gateway!Advance, gatewayState, PendingOrInService
      <4> QED
        BY <4>2, <4>3 DEF Gateway!Clock
    <3>3. CASE Claimed = {} /\ Completed \cap in_service # {}
      <4>1. PICK s \in Completed \cap in_service : Completed = {s}
        BY <3>3, ClaimOrComplete
      <4>2. s \in Gateway!InState("in_service")
        BY <4>1, ClaimOrComplete DEF Gateway!InState, gatewayState
      <4>3. Gateway!Advance({}, {s})
        BY <3>1, <3>3, <4>1 DEF Gateway!Advance, gatewayState, PendingOrInService
      <4> QED
        BY <4>2, <4>3 DEF Gateway!Clock
    <3>4. CASE Claimed = {} /\ Completed \cap in_service = {}
      <4>1. Gateway!Advance({}, {})
        BY <3>1, <3>4 DEF Gateway!Advance, gatewayState
      <4> QED
        BY <4>1 DEF Gateway!Clock
    <3> QED
      BY <3>2, <3>3, <3>4
  <2>2. ASSUME NEW s \in Sources, LineChange(s) PROVE Gateway!LineChange(s)
    BY <2>2 DEF LineChange, regs, Gateway!LineChange, gatewayState
  <2>3. CASE UNCHANGED vars
    BY <2>3 DEF vars, Gateway!gvars, gatewayState
  <2> QED
    BY <2>1, <2>2, <2>3 DEF Next, Edge, Gateway!Next
<1> QED
  BY <1>1, <1>2, TypeCorrect, PendingExclusive, PTL DEF Spec, GatewayContract, Gateway!Spec

(* An interrupt, once raised to a context, is withdrawn only by a claim or *)
(* by software changing the configuration.                                 *)
THEOREM NotificationsHeld == Spec => NotificationHeld
<1>1. TypeOK /\ [Next]_vars =>
        [\A c \in Contexts : irq_o(c) /\ ~irq_o(c)' => Claimed # {} \/ ConfigWrite]_vars
  <2> SUFFICES ASSUME TypeOK, Next, Claimed = {}, ~ConfigWrite,
                      NEW c \in Contexts, irq_o(c)
               PROVE  irq_o(c)'
    BY DEF vars
  <2>1. PICK s \in Qualifying(c) : prio[s] > threshold[c]
    BY DEF irq_o
  <2>2. pending \subseteq pending' /\ UNCHANGED <<enable, prio, threshold>>
    <3>1. ASSUME NEW aph \in Traffic \cup {NoAccess}, HclkEdge(aph)
          PROVE  pending \subseteq pending' /\ UNCHANGED <<enable, prio, threshold>>
      BY <3>1 DEF HclkEdge, Registers, Gateways, pending_nxt, in_service_nxt, ConfigRegs,
                  prio_nxt, enable_nxt, threshold_nxt, ConfigWrite
    <3>2. ASSUME NEW t \in Sources, LineChange(t)
          PROVE  pending \subseteq pending' /\ UNCHANGED <<enable, prio, threshold>>
      BY <3>2 DEF LineChange, regs
    <3> QED
      BY <3>1, <3>2 DEF Next, Edge
  <2>3. s \in Qualifying(c)'
    BY <2>1, <2>2 DEF Qualifying
  <2> QED
    BY <2>1, <2>2, <2>3 DEF irq_o
<1> QED
  BY <1>1, TypeCorrect, PTL DEF Spec, NotificationHeld

----------------------------------------------------------------------------
(* The source a claim would return decides alone whether its context is    *)
(* notified: it beats whatever raised the notification.                    *)
LEMMA WinnerNotifies ==
  ASSUME TypeOK, NEW c \in Contexts
  PROVE  irq_o(c) <=> top_source_id(c) # 0 /\ prio[top_source_id(c)] > threshold[c]
<1>1. prio \in [Sources -> Priorities] /\ threshold[c] \in Int
  BY PrioAssumption DEF TypeOK, Priorities
<1>2. \A s \in Qualifying(c) : s # 0 /\ prio[s] \in Int
  BY <1>1, PrioAssumption, SourcesAssumption DEF Qualifying, Priorities, Sources
<1>3. ASSUME irq_o(c)
      PROVE  top_source_id(c) # 0 /\ prio[top_source_id(c)] > threshold[c]
  <2>1. PICK s \in Qualifying(c) : prio[s] > threshold[c]
    BY <1>3 DEF irq_o
  <2>2. top_source_id(c) \in Qualifying(c) /\ Beats(top_source_id(c), s)
    BY <1>1, <2>1, TopWins
  <2> QED
    BY <1>1, <1>2, <2>1, <2>2 DEF Beats
<1>4. top_source_id(c) # 0 => top_source_id(c) \in Qualifying(c)
  BY <1>1, TopWins
<1> QED
  BY <1>3, <1>4 DEF irq_o

(* The second cycle of an ERROR is always of the transfer denied in the    *)
(* first, as the bus was held for it. *)
LEMMA SecondCycleOfDenied == Spec => [](err_state => access_denied)
<1>1. Init => (err_state => access_denied)
  BY DEF Init
<1>2. (err_state => access_denied) /\ [Next]_vars => (err_state => access_denied)'
  <2> SUFFICES ASSUME err_state => access_denied, [Next]_vars
               PROVE  (err_state => access_denied)'
    OBVIOUS
  <2>1. ASSUME NEW aph, HclkEdge(aph), err_state' PROVE access_denied'
    <3>1. access_denied /\ ~hreadyout
      BY <2>1 DEF HclkEdge, Registers, BusPhase, dph_nxt, err_state_next, hreadyout, in_err_p1
    <3>2. dph' = dph
      BY <2>1, <3>1 DEF HclkEdge, Registers, BusPhase, dph_nxt, err_state_next
    <3> QED
      BY <3>1, <3>2 DEF access_denied, dph_valid, dph_access_ok, dph_priv_allowed
  <2>2. ASSUME UNCHANGED <<dph, err_state>> PROVE (err_state => access_denied)'
    BY <2>2 DEF access_denied, dph_valid, dph_access_ok, dph_priv_allowed
  <2> QED
    BY <2>1, <2>2 DEF Next, Edge, LineChange, regs, vars
<1> QED
  BY <1>1, <1>2, PTL DEF Spec

(* The data phase holds a transfer some master issued, or none. *)
LEMMA DataPhaseIssued == Spec => [](dph \in Traffic \cup {NoAccess})
<1>1. Init => dph \in Traffic \cup {NoAccess}
  BY DEF Init
<1>2. dph \in Traffic \cup {NoAccess} /\ [Next]_vars => (dph \in Traffic \cup {NoAccess})'
  BY DEF Next, Edge, HclkEdge, Registers, BusPhase, dph_nxt, LineChange, regs, vars
<1> QED
  BY <1>1, <1>2, PTL DEF Spec

(* hclk_en_o may drop whenever it does: with no transfer arriving, none in  *)
(* its data phase and no gateway to set, no register of the block would     *)
(* have taken another value, whatever the lines and the registers hold.     *)
THEOREM GatingLosesNothing == Spec => []GateLossless
<1>1. TypeOK /\ (err_state => access_denied) /\ dph \in Traffic \cup {NoAccess} => GateLossless
  <2> SUFFICES ASSUME TypeOK, err_state => access_denied, dph \in Traffic \cup {NoAccess},
                      ~hclk_en(NoAccess)
               PROVE  regs_nxt(NoAccess) = regs
    BY DEF GateLossless
  <2>1. dph.win = "none" /\ pending_set_needed = {}
    BY DEF hclk_en, dph_valid
  <2>2. dph = NoAccess
    BY <2>1, TrafficAssumption
  <2>3. ~access_denied /\ ~err_state
    BY <2>1 DEF access_denied, dph_valid
  <2>4. \A win \in Windows \ {"none"}, wr \in BOOLEAN : ~Selected(win, wr)
    BY <2>1 DEF Selected
  <2>5. Claimed = {} /\ Completed = {}
    BY <2>4 DEF Claimed, Completed, Windows
  <2>6. pending_nxt = pending /\ in_service_nxt = in_service
    BY <2>1, <2>5 DEF pending_nxt, in_service_nxt, pending_set_needed
  <2>7. prio_nxt = prio /\ enable_nxt = enable /\ threshold_nxt = threshold
    BY <2>4 DEF prio_nxt, enable_nxt, threshold_nxt, Windows
  <2>8. dph_nxt(NoAccess) = dph
    BY <2>2 DEF dph_nxt
  <2>9. err_state_next = err_state
    BY <2>3 DEF err_state_next, TypeOK
  <2> QED
    BY <2>6, <2>7, <2>8, <2>9 DEF regs_nxt, regs
<1> QED
  BY <1>1, TypeCorrect, SecondCycleOfDenied, DataPhaseIssued, PTL

(* A denied transfer has no effect in either of its two cycles, whatever   *)
(* the registers hold and the lines do. *)
THEOREM DeniedTransfersInert == Spec => DeniedInert
<1> DEFINE Inert == access_denied /\ irq_src' = irq_src =>
                      /\ in_service' = in_service
                      /\ pending \subseteq pending'
                      /\ UNCHANGED <<enable, prio, threshold>>
                      /\ hresp
                      /\ IF err_state THEN ~err_state' ELSE err_state' /\ dph' = dph
<1>1. TypeOK /\ [Next]_vars => [Inert]_vars
  <2> SUFFICES ASSUME TypeOK, Next, access_denied, irq_src' = irq_src
               PROVE  /\ in_service' = in_service
                      /\ pending \subseteq pending'
                      /\ UNCHANGED <<enable, prio, threshold>>
                      /\ hresp
                      /\ IF err_state THEN ~err_state' ELSE err_state' /\ dph' = dph
    OBVIOUS
  <2>1. ASSUME NEW s \in Sources, LineChange(s) PROVE FALSE
    BY <2>1 DEF LineChange
  <2>2. PICK aph \in Traffic \cup {NoAccess} : HclkEdge(aph)
    BY <2>1 DEF Next, Edge
  <2>3. \A win, wr : ~Selected(win, wr)
    BY DEF Selected, access_denied
  <2>4. Claimed = {} /\ Completed = {}
    BY <2>3 DEF Claimed, Completed
  <2>5. in_service' = in_service /\ pending \subseteq pending'
    BY <2>2, <2>4 DEF HclkEdge, Registers, Gateways, pending_nxt, in_service_nxt
  <2>6. UNCHANGED <<enable, prio, threshold>>
    BY <2>2, <2>3 DEF HclkEdge, Registers, ConfigRegs, enable_nxt, prio_nxt, threshold_nxt
  <2>7. hresp /\ IF err_state THEN ~err_state' ELSE err_state' /\ dph' = dph
    BY <2>2 DEF HclkEdge, Registers, BusPhase, dph_nxt, err_state_next, hreadyout, hresp,
                in_err_p1, TypeOK
  <2> QED
    BY <2>5, <2>6, <2>7
<1> QED
  BY <1>1, SecondCycleOfDenied, TypeCorrect, PTL DEF Spec, DeniedInert

-----------------------------------------------------------------------------
(***************************************************************************)
(* What the dispatch loops of any number of harts keep among them, for     *)
(* every number of sources and priority levels, while handlers and the     *)
(* code they interrupt enable and disable sources.  The argument: the      *)
(* access in the data phase is that of the context the bus waits for and   *)
(* the filter lets it through, so the software learns exactly what the     *)
(* edge does to the gateways; and the sources in service are exactly those *)
(* that some context handles, each in a context where it is still enabled. *)
(* A word stored in a handler was read in that handler, so it has the bit  *)
(* of the source in service; an interrupted store waits for its return.    *)
(***************************************************************************)

OnTheBus == {"claiming", "completing", "reading", "storing"}

(* The access a that software in step x issues. *)
Issues(x, c, a) ==
  /\ a.ctx = c /\ a.mode = ModeOf(c) /\ a.size_ok
  /\ \/ x.pc = "claiming"   /\ a.win = "claim"  /\ ~a.wr
     \/ x.pc = "completing" /\ a.win = "claim"  /\ a.wr /\ a.src = x.id
     \/ x.pc = "reading"    /\ a.win = "enable" /\ ~a.wr
     \/ /\ x.pc = "storing" /\ a.win = "enable" /\ a.wr
        /\ x.id # 0 /\ WordOf(x.id) = a.word => x.id \in a.bits

(* What a context's step says of its source and its read-modify-writes.    *)
StepOK(x) ==
  /\ x.pc \in {"idle", "trapped", "claiming"} => x.id = 0
  /\ x.pc \in {"handling", "served", "completing"} => x.id # 0
  /\ x.pc = "idle" => x.rmw = NoRmw
  /\ x.pc \in {"reading", "writing"} => x.rmw.src \in Sources
  /\ x.cut = NoRmw \/ x.cut.src \in Sources
  /\ x.pc = "writing" /\ x.id # 0 /\ WordOf(x.id) = WordOf(x.rmw.src) => x.id \in x.rmw.word

SwTypeOK ==
  /\ sw \in [Contexts -> SwType] /\ bus \in Contexts \cup {NoCtx}
  /\ \A c \in Contexts : StepOK(sw[c])

DataPhase ==
  /\ ~err_state
  /\ bus = NoCtx => dph = NoAccess
  /\ bus # NoCtx => Issues(sw[bus], bus, dph)
  /\ \A c \in Contexts : sw[c].pc \in OnTheBus => bus = c

DInv == /\ TypeOK /\ SwTypeOK /\ PendingOrInService /\ DataPhase
        /\ InServiceMeansHandled /\ ExclusiveService

-----------------------------------------------------------------------------
LEMMA ContextsFacts ==
  /\ NUM_CONTEXTS \in Nat
  /\ Contexts \subseteq Nat
  /\ NoCtx \notin Contexts
<1>1. NUM_CONTEXTS \in Nat
  <2>1. CASE SU_MODE_EN
    BY <2>1, HartsAssumption DEF NUM_CONTEXTS
  <2>2. CASE ~SU_MODE_EN
    BY <2>2, HartsAssumption DEF NUM_CONTEXTS
  <2> QED
    BY <2>1, <2>2
<1> QED
  BY <1>1 DEF Contexts, NoCtx

(* Software runs in the mode of its context, so the filter passes it.      *)
LEMMA Allowed ==
  ASSUME NEW x, NEW c \in Contexts, Issues(x, c, dph)
  PROVE  dph_access_ok
<1>1. CASE ModeOf(c) = "M"
  BY <1>1 DEF Issues, dph_access_ok, dph_priv_allowed
<1>2. CASE ModeOf(c) # "M"
  <2>1. PICK h \in 0 .. NUM_HARTS - 1 : SU_MODE_EN /\ c = plic_context(h, TRUE)
    BY <1>2 DEF ModeOf
  <2>2. c = 2 * h + 1
    BY <2>1 DEF plic_context
  <2>3. c % 2 # 0
    BY <2>2, HartsAssumption
  <2>4. ~ctx_is_m_ctx(c)
    BY <2>1, <2>3, Zenon DEF ctx_is_m_ctx
  <2>5. ModeOf(c) = "S"
    BY <1>2 DEF ModeOf
  <2> QED
    BY <2>4, <2>5 DEF Issues, dph_access_ok, dph_priv_allowed
<1> QED
  BY <1>1, <1>2

(* What the edge that ends a data phase does to the gateways.              *)
LEMMA EdgeOfAccess ==
  ASSUME DInv
  PROVE  /\ ~access_denied /\ hreadyout
         /\ bus = NoCtx => Claimed = {} /\ Completed = {} /\ ~Selected("enable", TRUE)
         /\ bus # NoCtx =>
              /\ Claimed = IF sw[bus].pc = "claiming" THEN {top_source_id(bus)} \ {0} ELSE {}
              /\ Completed = IF sw[bus].pc = "completing"
                             THEN {sw[bus].id} \cap enable[bus] ELSE {}
              /\ Selected("enable", TRUE) => sw[bus].pc = "storing" /\ dph.ctx = bus
<1>1. dph \in AccessType /\ DataPhase /\ SwTypeOK
  BY DEF DInv, TypeOK
<1>2. CASE bus = NoCtx
  <2>1. dph = NoAccess
    BY <1>1, <1>2 DEF DataPhase
  <2> QED
    BY <1>2, <2>1 DEF NoAccess, access_denied, dph_valid, hreadyout, in_err_p1,
       Claimed, Completed, Selected
<1>3. CASE bus # NoCtx
  <2>1. bus \in Contexts /\ Issues(sw[bus], bus, dph)
    BY <1>1, <1>3 DEF DataPhase, SwTypeOK
  <2>2. dph_access_ok
    BY <2>1, Allowed
  <2>3. ~access_denied /\ hreadyout
    BY <2>2 DEF access_denied, hreadyout, in_err_p1
  <2>4. dph.wr \in BOOLEAN
    BY <1>1 DEF AccessType
  <2>5. Claimed = IF sw[bus].pc = "claiming" THEN {top_source_id(bus)} \ {0} ELSE {}
    BY <2>1, <2>2, <2>4 DEF Issues, Claimed, Selected
  <2>6. Completed = IF sw[bus].pc = "completing" THEN {sw[bus].id} \cap enable[bus] ELSE {}
    BY <2>1, <2>2, <2>4 DEF Issues, Completed, Selected
  <2>7. Selected("enable", TRUE) => sw[bus].pc = "storing" /\ dph.ctx = bus
    BY <2>1, <2>2, <2>4 DEF Issues, Selected
  <2> QED
    BY <1>3, <2>3, <2>5, <2>6, <2>7
<1> QED
  BY <1>2, <1>3

(* The source a claim returns was pending and enabled there.               *)
LEMMA WinnerIsPending ==
  ASSUME TypeOK, NEW c \in Contexts, top_source_id(c) # 0
  PROVE  /\ top_source_id(c) \in Sources /\ top_source_id(c) \in pending
         /\ top_source_id(c) \in enable[c]
<1>1. prio \in [Sources -> Priorities]
  BY DEF TypeOK
<1> QED
  BY <1>1, TopWins DEF Qualifying

LEMMA WinnerType ==
  ASSUME TypeOK, NEW c \in Contexts
  PROVE  top_source_id(c) \in 0 .. NUM_SOURCES
<1>1. CASE top_source_id(c) = 0
  BY <1>1, SourcesAssumption
<1>2. CASE top_source_id(c) # 0
  BY <1>2, WinnerIsPending DEF Sources
<1> QED
  BY <1>1, <1>2

LEMMA IdleType ==
  /\ NoRmw \in RmwType /\ Idle \in SwType
  /\ StepOK(Idle) /\ Idle.id = 0 /\ Idle.pc \notin OnTheBus
BY SourcesAssumption DEF Idle, SwType, RmwType, NoRmw, SwSteps, StepOK, OnTheBus

(* What a trap handler returns to.                                         *)
LEMMA ReturnedType ==
  ASSUME NEW x \in SwType, StepOK(x)
  PROVE  /\ Returned(x) \in SwType /\ StepOK(Returned(x))
         /\ Returned(x).id = 0 /\ Returned(x).pc \notin OnTheBus
<1> DEFINE p == IF x.cut = NoRmw THEN "idle" ELSE "writing"
<1>1. Returned(x) = [pc |-> p, id |-> 0, rmw |-> x.cut, cut |-> NoRmw]
  BY DEF Returned
<1>2. x.cut \in RmwType /\ NoRmw \in RmwType /\ 0 \in 0 .. NUM_SOURCES
  BY IdleType, SourcesAssumption DEF SwType
<1>3. p \in {"idle", "writing"} /\ p \in SwSteps
      /\ (p = "idle" => x.cut = NoRmw) /\ (p = "writing" => x.cut.src \in Sources)
  BY DEF StepOK, SwSteps
<1> HIDE DEF p
<1> QED
  BY <1>1, <1>2, <1>3 DEF SwType, StepOK, OnTheBus

-----------------------------------------------------------------------------
(* The answer to a context's access, and the source it services then.      *)
LEMMA AnsweredType ==
  ASSUME DInv, bus # NoCtx
  PROVE  /\ Answered(bus) \in SwType /\ StepOK(Answered(bus))
         /\ Answered(bus).pc \notin OnTheBus
         /\ Answered(bus).id = IF sw[bus].pc = "claiming" THEN top_source_id(bus)
                              ELSE IF sw[bus].pc = "completing" THEN 0 ELSE sw[bus].id
<1>1. /\ bus \in Contexts /\ sw[bus] \in SwType /\ Issues(sw[bus], bus, dph)
      /\ StepOK(sw[bus])
  BY DEF DInv, SwTypeOK, DataPhase
<1>2. /\ sw[bus].id \in 0 .. NUM_SOURCES /\ sw[bus].cut \in RmwType /\ NoRmw \in RmwType
      /\ sw[bus].rmw \in RmwType
      /\ sw[bus].cut = NoRmw \/ sw[bus].cut.src \in Sources
  BY <1>1, IdleType DEF SwType, StepOK
<1>3. CASE sw[bus].pc = "claiming" /\ top_source_id(bus) = 0
  <2>1. Answered(bus) = Returned(sw[bus])
    BY <1>3 DEF Answered
  <2> QED
    BY <1>1, <1>3, <2>1, ReturnedType
<1>4. CASE sw[bus].pc = "claiming" /\ top_source_id(bus) # 0
  <2>1. Answered(bus) = [pc |-> "handling", id |-> top_source_id(bus),
                         rmw |-> sw[bus].rmw, cut |-> sw[bus].cut]
    BY <1>1, <1>4 DEF Answered, SwType
  <2>2. top_source_id(bus) \in 0 .. NUM_SOURCES
    BY <1>1, WinnerType DEF DInv
  <2> QED
    BY <1>2, <1>4, <2>1, <2>2 DEF SwType, SwSteps, StepOK, OnTheBus
<1>5. CASE sw[bus].pc = "reading"
  <2>1. enable[bus] \subseteq Sources
    BY <1>1 DEF DInv, TypeOK
  <2> DEFINE q == sw[bus].rmw.src
             w == {s \in enable[bus] : WordOf(s) = WordOf(q)}
             r == [src |-> q, word |-> w]
  <2>2. Answered(bus) = [pc |-> "writing", id |-> sw[bus].id, rmw |-> r, cut |-> sw[bus].cut]
    BY <1>1, <1>5, <1>2 DEF Answered, SwType, RmwType
  <2>3. r \in RmwType /\ r.src = q /\ r.word = w /\ q \in Sources
    BY <1>1, <1>5, <1>2, <2>1 DEF RmwType, StepOK
  <2>4. sw[bus].id # 0 /\ WordOf(sw[bus].id) = WordOf(q) => sw[bus].id \in w
    BY <1>1 DEF DInv, InServiceMeansHandled
  <2> HIDE DEF r, w, q
  <2>5. Answered(bus) \in SwType /\ Answered(bus).pc = "writing"
        /\ Answered(bus).id = sw[bus].id
    BY <1>2, <2>2, <2>3 DEF SwType, SwSteps
  <2>6. StepOK(Answered(bus))
    BY <1>2, <2>2, <2>3, <2>4 DEF StepOK
  <2> QED
    BY <1>5, <2>5, <2>6 DEF OnTheBus
<1>6. CASE sw[bus].pc = "storing"
  <2> DEFINE p == IF sw[bus].id = 0 THEN "idle" ELSE "served"
  <2>1. Answered(bus) = [pc |-> p, id |-> sw[bus].id, rmw |-> NoRmw, cut |-> sw[bus].cut]
    BY <1>1, <1>6 DEF Answered, SwType
  <2>2. p \in SwSteps /\ p \notin OnTheBus /\ p # "writing" /\ p # "reading"
        /\ (p = "idle" => sw[bus].id = 0) /\ (p = "served" => sw[bus].id # 0)
        /\ p \in {"idle", "served"}
    BY DEF SwSteps, OnTheBus
  <2> HIDE DEF p
  <2> QED
    BY <1>2, <1>6, <2>1, <2>2 DEF SwType, StepOK
<1>7. CASE sw[bus].pc = "completing"
  <2>1. Answered(bus) = Returned(sw[bus])
    BY <1>7 DEF Answered
  <2> QED
    BY <1>1, <1>7, <2>1, ReturnedType
<1> QED
  BY <1>1, <1>3, <1>4, <1>5, <1>6, <1>7 DEF Issues

(* An access of context c, or none, enters its data phase: it is of the    *)
(* step the software takes, which changes nothing of what c handles.       *)
Entering(c, aph, x) ==
  /\ aph \in AccessType /\ x \in SwType
  /\ \/ c = NoCtx /\ aph = NoAccess
     \/ /\ c \in Contexts /\ sw[c].pc \notin OnTheBus
        /\ Issues(x, c, aph)
        /\ StepOK(x) /\ x.id = sw[c].id

(* One edge of the bus, as all of the driver's accesses take it.           *)
LEMMA BusEdgeKeepsDInv ==
  ASSUME DInv, NEW c, NEW aph, NEW x, Entering(c, aph, x), BusEdge(c, aph, x)
  PROVE  DInv'
<1>1. /\ HclkEdge(aph) /\ bus' = c /\ sw \in [Contexts -> SwType]
      /\ bus \in Contexts \cup {NoCtx} /\ DataPhase
      /\ sw' = [y \in Contexts |-> IF y = c THEN x
                                   ELSE IF y = bus THEN Answered(y) ELSE sw[y]]
  BY DEF BusEdge, DInv, SwTypeOK
<1>2. TypeOK' /\ PendingOrInService'
  BY <1>1, EdgeKeepsTypes, EdgeKeepsExclusion DEF DInv, Entering
<1>3. c # NoCtx => c # bus
  BY <1>1 DEF Entering, DataPhase, Issues, OnTheBus
<1>4. \A y \in Contexts : /\ sw'[y] \in SwType
                          /\ y # c => sw'[y].pc \notin OnTheBus
                          /\ StepOK(sw'[y])
  <2> SUFFICES ASSUME NEW y \in Contexts
               PROVE  /\ sw'[y] \in SwType
                      /\ y # c => sw'[y].pc \notin OnTheBus
                      /\ StepOK(sw'[y])
    OBVIOUS
  <2>1. CASE y = c
    <3>1. y # NoCtx /\ sw'[y] = x
      BY <1>1, <2>1, ContextsFacts
    <3> QED
      BY <2>1, <3>1 DEF Entering, Issues
  <2>2. CASE y # c /\ y = bus
    <3>1. y # NoCtx /\ sw'[y] = Answered(bus)
      BY <1>1, <2>2, ContextsFacts
    <3> QED
      BY <2>2, <3>1, AnsweredType
  <2>3. CASE y # c /\ y # bus
    <3>1. sw'[y] = sw[y]
      BY <1>1, <2>3
    <3> QED
      BY <1>1, <2>3, <3>1 DEF DataPhase, DInv, SwTypeOK
  <2> QED
    BY <2>1, <2>2, <2>3
<1>5. SwTypeOK'
  BY <1>1, <1>4 DEF SwTypeOK, Entering
<1>6. DataPhase'
  <2>1. dph' = aph /\ ~err_state'
    BY <1>1, EdgeOfAccess DEF HclkEdge, Registers, BusPhase, dph_nxt, err_state_next
  <2>2. c # NoCtx => c \in Contexts /\ sw'[c] = x /\ Issues(x, c, aph)
    BY <1>1 DEF Entering
  <2>3. c = NoCtx => aph = NoAccess
    BY ContextsFacts DEF Entering
  <2>4. bus' # NoCtx => Issues(sw[bus], bus, dph)'
    BY <1>1, <2>1, <2>2 DEF Issues, ModeOf
  <2> QED
    BY <1>1, <1>4, <2>1, <2>3, <2>4 DEF DataPhase
(* What each context handles after the edge. *)
<1>7. \A y \in Contexts : y # bus => sw'[y].id = sw[y].id
  <2> SUFFICES ASSUME NEW y \in Contexts, y # bus
               PROVE  sw'[y].id = sw[y].id
    OBVIOUS
  <2>1. CASE y = c
    <3>1. sw'[y] = x /\ y # NoCtx
      BY <1>1, <2>1, ContextsFacts
    <3> QED
      BY <2>1, <3>1 DEF Entering
  <2>2. CASE y # c
    BY <1>1, <2>2
  <2> QED
    BY <2>1, <2>2
<1>8. bus # NoCtx =>
        /\ bus \in Contexts /\ sw'[bus] = Answered(bus)
        /\ sw'[bus].id = IF sw[bus].pc = "claiming" THEN top_source_id(bus)
                         ELSE IF sw[bus].pc = "completing" THEN 0 ELSE sw[bus].id
  BY <1>1, <1>3, AnsweredType
<1>9. in_service' = (in_service \ Completed) \cup Claimed
  BY <1>1 DEF HclkEdge, Registers, Gateways, pending_nxt, in_service_nxt
<1>10. /\ bus = NoCtx => Claimed = {} /\ Completed = {}
       /\ bus # NoCtx =>
            /\ Claimed = IF sw[bus].pc = "claiming" THEN {top_source_id(bus)} \ {0} ELSE {}
            /\ Completed = IF sw[bus].pc = "completing"
                           THEN {sw[bus].id} \cap enable[bus] ELSE {}
  BY EdgeOfAccess
(* A store keeps the bit of the source its own context has in service. *)
<1>11. \A y \in Contexts : sw'[y].id # 0 /\ sw'[y].id \in enable[y] => sw'[y].id \in enable'[y]
  <2> SUFFICES ASSUME NEW y \in Contexts, sw'[y].id # 0, sw'[y].id \in enable[y],
                      enable'[y] # enable[y]
               PROVE  sw'[y].id \in enable'[y]
    OBVIOUS
  <2>1. /\ Selected("enable", TRUE) /\ dph.ctx = y
        /\ enable'[y] = {s \in Sources : s \in (IF WordOf(s) = dph.word THEN dph.bits
                                                ELSE enable[y])}
    BY <1>1 DEF HclkEdge, Registers, ConfigRegs, enable_nxt, DInv, TypeOK
  <2>2. bus # NoCtx /\ sw[bus].pc = "storing" /\ y = bus
    BY <2>1, EdgeOfAccess
  <2>3. sw'[y].id = sw[bus].id /\ Issues(sw[bus], bus, dph)
    BY <1>1, <1>8, <2>2 DEF DataPhase
  <2>4. WordOf(sw'[y].id) = dph.word => sw'[y].id \in dph.bits
    BY <2>2, <2>3 DEF Issues
  <2>5. sw'[y].id \in Sources
    BY DEF DInv, TypeOK
  <2> QED
    BY <2>1, <2>4, <2>5
(* Who completes gives up the source, and nobody else has it. *)
<1>12. \A y \in Contexts : sw'[y].id # 0 =>
         sw'[y].id \in in_service' /\ sw'[y].id \in enable'[y]
  <2> SUFFICES ASSUME NEW y \in Contexts, sw'[y].id # 0
               PROVE  sw'[y].id \in in_service' /\ sw'[y].id \in enable[y]
    BY <1>11
  <2>1. CASE y = bus /\ sw[bus].pc = "claiming"
    BY <1>8, <1>9, <1>10, <2>1, ContextsFacts, WinnerIsPending DEF DInv
  <2>2. CASE ~(y = bus /\ sw[bus].pc = "claiming")
    <3>1. /\ sw'[y].id = sw[y].id /\ sw[y].id # 0
          /\ ~(y = bus /\ sw[bus].pc = "completing")
      BY <1>7, <1>8, <2>2, ContextsFacts
    <3>2. sw[y].id \in in_service /\ sw[y].id \in enable[y]
      BY <3>1 DEF DInv, InServiceMeansHandled
    <3>3. sw[y].id \in Completed =>
            bus \in Contexts /\ sw[bus].pc = "completing" /\ sw[bus].id = sw[y].id
      BY <1>1, <1>10, ContextsFacts
    <3>4. sw[y].id \in Sources
      BY <3>2 DEF DInv, TypeOK
    <3>5. sw[y].id \notin Completed
      BY <3>1, <3>3, <3>4 DEF DInv, ExclusiveService, Holds
    <3> QED
      BY <1>9, <3>1, <3>2, <3>5
  <2> QED
    BY <2>1, <2>2
<1>13. \A s \in in_service' : \E y \in Contexts : Holds(y, s)'
  <2> SUFFICES ASSUME NEW s \in in_service' PROVE \E y \in Contexts : sw'[y].id = s
    BY DEF Holds
  <2>1. CASE s \in Claimed
    BY <1>8, <1>10, <2>1
  <2>2. CASE s \notin Claimed
    <3>1. s \in in_service /\ s \notin Completed /\ s \in Sources
      BY <1>9, <2>2 DEF DInv, TypeOK
    <3>2. PICK y \in Contexts : sw[y].id = s
      BY <3>1 DEF DInv, InServiceMeansHandled, Holds
    <3>3. s # 0 /\ s \in enable[y]
      BY <3>1, <3>2, SourcesAssumption DEF DInv, InServiceMeansHandled, Sources
    <3>4. y = bus => sw[bus].pc \notin {"claiming", "completing"}
      BY <1>1, <1>10, <3>1, <3>2, <3>3, ContextsFacts DEF DInv, SwTypeOK, StepOK
    <3> QED
      BY <1>7, <1>8, <3>2, <3>4, ContextsFacts
  <2> QED
    BY <2>1, <2>2
<1>14. InServiceMeansHandled'
  BY <1>12, <1>13 DEF InServiceMeansHandled
<1>15. ExclusiveService'
  <2> SUFFICES ASSUME NEW s \in Sources, NEW y \in Contexts, NEW z \in Contexts,
                      sw'[y].id = s, sw'[z].id = s, y # z, z # bus
               PROVE  FALSE
    BY DEF ExclusiveService, Holds
  <2>1. sw[z].id = s /\ s # 0
    BY <1>7, SourcesAssumption DEF Sources
  <2>2. s \in in_service
    BY <2>1 DEF DInv, InServiceMeansHandled
  <2>3. CASE y = bus /\ sw[bus].pc = "claiming"
    <3>1. s = top_source_id(bus)
      BY <1>8, <2>3, ContextsFacts
    <3>2. s \in pending
      BY <2>1, <2>3, <3>1, WinnerIsPending DEF DInv
    <3> QED
      BY <2>2, <3>2 DEF DInv, PendingOrInService
  <2>4. CASE ~(y = bus /\ sw[bus].pc = "claiming")
    <3>1. sw[y].id = s
      BY <1>7, <1>8, <2>1, <2>4, ContextsFacts
    <3> QED
      BY <2>1, <3>1 DEF DInv, ExclusiveService, Holds
  <2> QED
    BY <2>3, <2>4
<1> QED
  BY <1>2, <1>5, <1>6, <1>14, <1>15 DEF DInv

-----------------------------------------------------------------------------
(* The accesses of the driver.                                             *)
LEMMA ModeType == ASSUME NEW c PROVE ModeOf(c) \in {"M", "S"}
BY DEF ModeOf

LEMMA WordType == ASSUME NEW s \in 0 .. NUM_SOURCES PROVE WordOf(s) \in Nat
BY WordAssumption DEF WordOf

LEMMA RegisterType ==
  ASSUME NEW win \in Windows, NEW wr \in BOOLEAN, NEW c \in Contexts
  PROVE  LET r == Register(win, wr, c) IN
         /\ r \in AccessType
         /\ r.win = win /\ r.wr = wr /\ r.ctx = c /\ r.mode = ModeOf(c) /\ r.size_ok
<1>1. NoAccess \in AccessType /\ NoAccess.size_ok = TRUE
  BY NoAccessType DEF NoAccess
<1> QED
  BY <1>1, ModeType DEF Register, AccessType

LEMMA ClaimEnters ==
  ASSUME DInv, NEW c \in Contexts, plic_claim(c)
  PROVE  Entering(c, Register("claim", FALSE, c), [sw[c] EXCEPT !.pc = "claiming"])
<1> DEFINE a == Register("claim", FALSE, c)
           x == [sw[c] EXCEPT !.pc = "claiming"]
<1>1. sw[c] \in SwType /\ StepOK(sw[c]) /\ sw[c].pc = "trapped"
  BY DEF DInv, SwTypeOK, plic_claim
<1>2. LET r == Register("claim", FALSE, c) IN
        /\ r \in AccessType
        /\ r.win = "claim" /\ r.wr = FALSE /\ r.ctx = c /\ r.mode = ModeOf(c) /\ r.size_ok
  BY RegisterType DEF Windows
<1>4. a \in AccessType /\ a.win = "claim" /\ a.wr = FALSE /\ a.ctx = c /\ a.mode = ModeOf(c) /\ a.size_ok
  BY <1>2
<1>5. x \in SwType /\ x.pc = "claiming" /\ StepOK(x) /\ x.id = sw[c].id
  BY <1>1 DEF SwType, SwSteps, StepOK
<1>6. Issues(x, c, a)
  BY <1>4, <1>5 DEF Issues
<1> QED
  BY <1>1, <1>4, <1>5, <1>6 DEF Entering, OnTheBus

LEMMA CompleteEnters ==
  ASSUME DInv, NEW c \in Contexts, plic_complete(c)
  PROVE  Entering(c, [Register("claim", TRUE, c) EXCEPT !.src = sw[c].id],
                  [sw[c] EXCEPT !.pc = "completing"])
<1> DEFINE a == [Register("claim", TRUE, c) EXCEPT !.src = sw[c].id]
           x == [sw[c] EXCEPT !.pc = "completing"]
<1>1. sw[c] \in SwType /\ StepOK(sw[c]) /\ sw[c].pc = "served"
  BY DEF DInv, SwTypeOK, plic_complete
<1>2. LET r == Register("claim", TRUE, c) IN
        /\ r \in AccessType
        /\ r.win = "claim" /\ r.wr = TRUE /\ r.ctx = c /\ r.mode = ModeOf(c) /\ r.size_ok
  BY RegisterType DEF Windows
<1>3. sw[c].id \in 0 .. NUM_SOURCES + 1
  BY <1>1, SourcesAssumption DEF SwType
<1>4. /\ a \in AccessType /\ a.src = sw[c].id
      /\ a.win = "claim" /\ a.wr = TRUE /\ a.ctx = c /\ a.mode = ModeOf(c) /\ a.size_ok
  BY <1>2, <1>3 DEF AccessType
<1>5. x \in SwType /\ x.pc = "completing" /\ x.id = sw[c].id /\ StepOK(x)
  BY <1>1 DEF SwType, SwSteps, StepOK
<1>6. Issues(x, c, a)
  BY <1>4, <1>5 DEF Issues
<1> QED
  BY <1>1, <1>4, <1>5, <1>6 DEF Entering, OnTheBus

LEMMA LoadEnters ==
  ASSUME DInv, NEW c \in Contexts, NEW s \in Reconfigured[c], EnableLoad(c, s)
  PROVE  Entering(c, [Register("enable", FALSE, c) EXCEPT !.word = WordOf(s)],
                  [sw[c] EXCEPT !.pc = "reading", !.rmw = [src |-> s, word |-> {}]])
<1> DEFINE a == [Register("enable", FALSE, c) EXCEPT !.word = WordOf(s)]
           r == [src |-> s, word |-> {}]
           x == [sw[c] EXCEPT !.pc = "reading", !.rmw = r]
<1>1. /\ sw[c] \in SwType /\ StepOK(sw[c]) /\ sw[c].pc \in {"idle", "served"}
      /\ s \in Sources /\ s \in 0 .. NUM_SOURCES
  BY DevicesAssumption, SourcesAssumption DEF DInv, SwTypeOK, EnableLoad, Sources
<1>2. LET g == Register("enable", FALSE, c) IN
        /\ g \in AccessType
        /\ g.win = "enable" /\ g.wr = FALSE /\ g.ctx = c /\ g.mode = ModeOf(c) /\ g.size_ok
  BY RegisterType DEF Windows
<1>3. WordOf(s) \in Nat
  BY <1>1, WordType
<1>4. a \in AccessType /\ a.win = "enable" /\ a.wr = FALSE /\ a.ctx = c /\ a.mode = ModeOf(c) /\ a.size_ok
  BY <1>2, <1>3 DEF AccessType
<1>5. r \in RmwType /\ r.src = s
  BY <1>1 DEF RmwType
<1> HIDE DEF r
<1>6. x \in SwType /\ x.pc = "reading" /\ x.id = sw[c].id /\ x.rmw = r /\ x.cut = sw[c].cut
  BY <1>1, <1>5 DEF SwType, SwSteps
<1>7. StepOK(x)
  BY <1>1, <1>5, <1>6 DEF StepOK
<1>8. Issues(x, c, a)
  BY <1>4, <1>6 DEF Issues
<1> HIDE DEF x, a
<1>9. Entering(c, a, x)
  BY <1>1, <1>4, <1>6, <1>7, <1>8 DEF Entering, OnTheBus
<1> QED
  BY <1>9 DEF x, a, r

(* The word a handler stores keeps the bit of its own source.              *)
LEMMA StoreEnters ==
  ASSUME DInv, NEW c \in Contexts, NEW set \in BOOLEAN, EnableStore(c, set)
  PROVE  Entering(c, [Register("enable", TRUE, c) EXCEPT
                        !.word = WordOf(sw[c].rmw.src), !.bits = Modified(c, set)],
                  [sw[c] EXCEPT !.pc = "storing"])
<1> DEFINE b == Modified(c, set)
           w == WordOf(sw[c].rmw.src)
           a == [Register("enable", TRUE, c) EXCEPT !.word = w, !.bits = b]
           x == [sw[c] EXCEPT !.pc = "storing"]
<1>1. /\ sw[c] \in SwType /\ StepOK(sw[c]) /\ sw[c].pc = "writing"
      /\ sw[c].rmw \in RmwType /\ sw[c].rmw.src \in Sources
  BY DEF DInv, SwTypeOK, StepOK, EnableStore, SwType
<1>2. LET r == Register("enable", TRUE, c) IN
        /\ r \in AccessType
        /\ r.win = "enable" /\ r.wr = TRUE /\ r.ctx = c /\ r.mode = ModeOf(c) /\ r.size_ok
  BY RegisterType DEF Windows
<1>3. w \in Nat /\ b \in SUBSET Sources
  BY <1>1, WordType DEF RmwType, Sources, Modified
<1>4. sw[c].id # 0 /\ WordOf(sw[c].id) = w => sw[c].id \in b
  <2> SUFFICES ASSUME sw[c].id # 0, WordOf(sw[c].id) = w PROVE sw[c].id \in b
    OBVIOUS
  <2>1. sw[c].id \in sw[c].rmw.word
    BY <1>1 DEF StepOK
  <2>2. sw[c].rmw.src = sw[c].id => set
    BY DEF EnableStore
  <2> QED
    BY <2>1, <2>2 DEF Modified
<1> HIDE DEF b, w
<1>5. /\ a \in AccessType /\ a.word = w /\ a.bits = b
      /\ a.win = "enable" /\ a.wr = TRUE /\ a.ctx = c /\ a.mode = ModeOf(c) /\ a.size_ok
  BY <1>2, <1>3 DEF AccessType
<1>6. x \in SwType /\ x.pc = "storing" /\ x.id = sw[c].id /\ x.cut = sw[c].cut
  BY <1>1 DEF SwType, SwSteps
<1>7. StepOK(x)
  BY <1>1, <1>6 DEF StepOK
<1>8. Issues(x, c, a)
  BY <1>4, <1>5, <1>6 DEF Issues
<1> HIDE DEF a, x
<1>9. Entering(c, a, x)
  BY <1>1, <1>5, <1>6, <1>7, <1>8 DEF Entering, OnTheBus
<1> QED
  BY <1>9 DEF a, x, b, w

-----------------------------------------------------------------------------
(* The steps between accesses.                                             *)
LEMMA SoftwareKeepsDInv ==
  ASSUME DInv, NEW c \in Contexts, TakeTrap(c) \/ Handler(c)
  PROVE  DInv'
<1>1. /\ \A y \in Contexts : y # c => sw'[y] = sw[y]
      /\ DOMAIN sw' = Contexts /\ sw' = [y \in Contexts |-> sw'[y]]
      /\ sw[c].pc \in {"idle", "writing", "handling"}
      /\ sw[c] \in SwType /\ StepOK(sw[c])
      /\ irq_src' \subseteq Sources
      /\ UNCHANGED <<regs, bus>>
  BY DEF TakeTrap, Handler, vars, regs, DInv, TypeOK, SwTypeOK
<1>2. /\ sw'[c] \in SwType /\ StepOK(sw'[c])
      /\ sw'[c].pc \in {"trapped", "served"} /\ sw'[c].id = sw[c].id
  <2>1. CASE TakeTrap(c)
    <3>1. /\ sw[c].pc \in {"idle", "writing"} /\ sw[c].id = 0
          /\ sw'[c] = [pc |-> "trapped", id |-> 0, rmw |-> NoRmw, cut |-> sw[c].rmw]
      BY <2>1 DEF TakeTrap, Idle, DInv, SwTypeOK
    <3>2. /\ sw[c].rmw \in RmwType /\ NoRmw \in RmwType /\ 0 \in 0 .. NUM_SOURCES
          /\ sw[c].rmw = NoRmw \/ sw[c].rmw.src \in Sources
      BY <1>1, <3>1, IdleType, SourcesAssumption DEF SwType, StepOK
    <3> QED
      BY <3>1, <3>2 DEF SwType, SwSteps, StepOK
  <2>2. CASE Handler(c)
    <3>1. sw'[c] = [sw[c] EXCEPT !.pc = "served"] /\ sw[c].pc = "handling"
      BY <2>2 DEF Handler, DInv, SwTypeOK
    <3> QED
      BY <1>1, <3>1 DEF SwType, SwSteps, StepOK
  <2> QED
    BY <2>1, <2>2
<1>3. TypeOK' /\ PendingOrInService'
  BY <1>1 DEF DInv, TypeOK, PendingOrInService, regs
<1>4. SwTypeOK'
  BY <1>1, <1>2 DEF DInv, SwTypeOK
<1>5. DataPhase'
  <2>1. bus # c
    BY <1>1, ContextsFacts DEF DInv, DataPhase, Issues
  <2>2. dph' = dph /\ err_state' = err_state /\ bus' = bus
    BY <1>1 DEF regs
  <2>3. bus # NoCtx => sw'[bus] = sw[bus]
    BY <1>1, <2>1 DEF DInv, SwTypeOK
  <2>4. \A y \in Contexts : sw'[y].pc \in OnTheBus => sw[y].pc \in OnTheBus
    BY <1>1, <1>2 DEF OnTheBus
  <2>5. bus # NoCtx => Issues(sw[bus], bus, dph)'
    BY <2>2, <2>3 DEF DInv, DataPhase, Issues, ModeOf
  <2> QED
    BY <2>2, <2>4, <2>5 DEF DInv, DataPhase
<1>6. \A y \in Contexts : sw'[y].id = sw[y].id
  BY <1>1, <1>2
<1>7. in_service' = in_service /\ enable' = enable
  BY <1>1 DEF regs
<1>8. InServiceMeansHandled' /\ ExclusiveService'
  BY <1>6, <1>7 DEF DInv, InServiceMeansHandled, ExclusiveService, Holds
<1> QED
  BY <1>3, <1>4, <1>5, <1>8 DEF DInv

LEMMA RaiseKeepsDInv ==
  ASSUME DInv, NEW s \in Devices, Raise(s)
  PROVE  DInv'
<1>1. LineChange(s) /\ UNCHANGED <<sw, bus>> /\ s \in Sources /\ UNCHANGED regs
  BY DevicesAssumption DEF Raise, LineChange
<1>2. TypeOK'
  BY <1>1, LineKeepsTypes DEF DInv
<1> QED
  BY <1>1, <1>2 DEF DInv, SwTypeOK, PendingOrInService, DataPhase, Issues, ModeOf,
     InServiceMeansHandled, ExclusiveService, Holds, regs

LEMMA InitDInv == DInit => DInv
<1> SUFFICES ASSUME DInit PROVE DInv
  OBVIOUS
<1>1. TypeOK
  BY SetupsAssumption, NoAccessType DEF DInit, TypeOK
<1>2. \A c \in Contexts : sw[c] = Idle
  BY DEF DInit
<1>3. SwTypeOK
  BY <1>2, IdleType DEF DInit, SwTypeOK, Idle
<1> QED
  BY <1>1, <1>2, <1>3, SourcesAssumption DEF DInit, DInv, PendingOrInService, DataPhase,
     OnTheBus, Idle, Sources,
     InServiceMeansHandled, ExclusiveService, Holds

LEMMA NextKeepsDInv == DInv /\ [DNext]_dvars => DInv'
<1> SUFFICES ASSUME DInv, [DNext]_dvars PROVE DInv'
  OBVIOUS
<1>1. CASE IdleEdge
  <2>1. Entering(NoCtx, NoAccess, Idle)
    BY IdleType, NoAccessType DEF Entering
  <2> QED
    BY <1>1, <2>1, BusEdgeKeepsDInv DEF IdleEdge
<1>2. ASSUME NEW c \in Contexts, plic_claim(c) PROVE DInv'
  BY <1>2, ClaimEnters, BusEdgeKeepsDInv DEF plic_claim
<1>3. ASSUME NEW c \in Contexts, plic_complete(c) PROVE DInv'
  BY <1>3, CompleteEnters, BusEdgeKeepsDInv DEF plic_complete
<1>4. ASSUME NEW c \in Contexts, NEW s \in Reconfigured[c], EnableLoad(c, s) PROVE DInv'
  BY <1>4, LoadEnters, BusEdgeKeepsDInv DEF EnableLoad
<1>5. ASSUME NEW c \in Contexts, NEW set \in BOOLEAN, EnableStore(c, set) PROVE DInv'
  BY <1>5, StoreEnters, BusEdgeKeepsDInv DEF EnableStore
<1>6. ASSUME NEW c \in Contexts, TakeTrap(c) \/ Handler(c) PROVE DInv'
  BY <1>6, SoftwareKeepsDInv
<1>7. ASSUME NEW s \in Devices, Raise(s) PROVE DInv'
  BY <1>7, RaiseKeepsDInv
<1>8. CASE UNCHANGED dvars
  BY <1>8 DEF dvars, vars, DInv, TypeOK, SwTypeOK, PendingOrInService, DataPhase, Issues,
     ModeOf, InServiceMeansHandled, ExclusiveService, Holds
<1> QED
  BY <1>1, <1>2, <1>3, <1>4, <1>5, <1>6, <1>7, <1>8 DEF DNext, BusStep

LEMMA DriverInvariant == DSpec => []DInv
BY InitDInv, NextKeepsDInv, PTL DEF DSpec

-----------------------------------------------------------------------------
(* No two contexts of any harts handle the same source at the same time,   *)
(* however claims race and whatever is enabled and disabled meanwhile.     *)
THEOREM ServiceIsExclusive == DSpec => []ExclusiveService
<1>1. DInv => ExclusiveService
  BY DEF DInv
<1> QED
  BY <1>1, DriverInvariant, PTL

(* The gateways and the software agree: a source is in service exactly     *)
(* while a context handles it, and it is still enabled there, so that      *)
(* plic_complete, which the PLIC ignores for a source not enabled, never   *)
(* leaves one in service for ever.  Whichever words plic_enable and        *)
(* plic_disable store, in handlers and in the code a trap interrupted      *)
(* between its load and its store.                                         *)
THEOREM NoSourceStranded == DSpec => []InServiceMeansHandled
<1>1. DInv => InServiceMeansHandled
  BY DEF DInv
<1> QED
  BY <1>1, DriverInvariant, PTL

----------------------------------------------------------------------------
(* Induction over the naturals, with a set in place of a predicate.         *)
LEMMA LeastElement ==
  ASSUME NEW S \in SUBSET Nat, S # {}
  PROVE  \E n \in S : \A m \in S : n <= m
<1> DEFINE R == OpToRel(<, Nat)
<1>1. \A x, y \in Nat : x < y => <<x, y>> \in R
  BY DEF OpToRel
<1>2. PICK x \in S : \A y \in S : ~ (<<y, x>> \in R)
  BY NatLessThanWellFounded, WFMin
<1> HIDE DEF R
<1>3. ASSUME NEW y \in S PROVE x <= y
  <2>1. ~ (y < x)
    BY <1>1, <1>2
  <2>2. QED
    BY <2>1
<1>4. QED
  BY <1>3

LEMMA SetInduction ==
  ASSUME NEW S, 0 \in S, \A n \in Nat : n \in S => n + 1 \in S
  PROVE  \A n \in Nat : n \in S
<1> SUFFICES ASSUME Nat \ S # {} PROVE FALSE
  OBVIOUS
<1>1. PICK n \in Nat \ S : \A m \in Nat \ S : n <= m
  BY LeastElement
<1>2. n # 0
  OBVIOUS
<1>3. n - 1 \in Nat /\ n - 1 \in S
  BY <1>1, <1>2
<1>4. QED
  BY <1>1, <1>3

(* The recursive definitions define what they say: an approximation of n    *)
(* steps extends to one of n + 1.                                           *)
LEMMA Pow2Def == Pow2 = [i \in 0..LEAF_W |-> IF i = 0 THEN 1 ELSE 2 * Pow2[i - 1]]
<1> DEFINE Body(h, n) == [i \in 0..n |-> IF i = 0 THEN 1 ELSE 2 * h[i - 1]]
           Exists(n) == \E h : h = Body(h, n)
           S == {n \in Nat : Exists(n)}
<1>1. Exists(0)
  <2> DEFINE h == [i \in 0..0 |-> 1]
  <2>1. h = Body(h, 0)
    OBVIOUS
  <2>2. QED
    BY <2>1
<1>2. ASSUME NEW n \in Nat, Exists(n) PROVE Exists(n + 1)
  <2>1. PICK h : h = Body(h, n)
    BY <1>2
  <2> DEFINE g == [i \in 0..n + 1 |-> IF i <= n THEN h[i] ELSE 2 * h[n]]
  <2>2. ASSUME NEW i \in 0..n + 1 PROVE g[i] = IF i = 0 THEN 1 ELSE 2 * g[i - 1]
    <3>1. CASE i = n + 1
      <4>1. i # 0 /\ i - 1 = n /\ g[i] = 2 * h[n] /\ g[n] = h[n]
        BY <3>1
      <4>2. QED
        BY <4>1
    <3>2. CASE i \in 0..n
      <4>1. g[i] = h[i] /\ (i # 0 => g[i - 1] = h[i - 1])
        BY <3>2
      <4>2. h[i] = IF i = 0 THEN 1 ELSE 2 * h[i - 1]
        BY <2>1, <3>2
      <4>3. QED
        BY <4>1, <4>2
    <3>3. QED
      BY <3>1, <3>2
  <2> HIDE DEF g
  <2>3. g = Body(g, n + 1)
    <3>1. g = [i \in 0..n + 1 |-> g[i]]
      BY DEF g
    <3>2. QED
      BY <2>2, <3>1
  <2>4. QED
    BY <2>3, Zenon
<1>3. Exists(LEAF_W)
  <2> HIDE DEF Exists
  <2>1. 0 \in S /\ \A n \in Nat : n \in S => n + 1 \in S
    BY <1>1, <1>2
  <2>2. \A n \in Nat : n \in S
    BY <2>1, SetInduction
  <2>3. QED
    BY <2>2, LeafAssumption
<1>4. QED
  BY <1>3 DEF Pow2

LEMMA Weights ==
  /\ Pow2[0] = 1 /\ LEAF_W \in Nat \ {0}
  /\ \A i \in 0..LEAF_W : Pow2[i] \in Nat \ {0}
  /\ \A i \in 0..LEAF_W - 1 : Pow2[i + 1] = 2 * Pow2[i]
<1>1. \A i \in 0..LEAF_W : Pow2[i] = IF i = 0 THEN 1 ELSE 2 * Pow2[i - 1]
  BY Pow2Def, Zenon
<1>2. Pow2[0] = 1
  BY <1>1, LeafAssumption
<1>3. \A i \in 0..LEAF_W - 1 : Pow2[i + 1] = 2 * Pow2[i]
  <2> SUFFICES ASSUME NEW i \in 0..LEAF_W - 1 PROVE Pow2[i + 1] = 2 * Pow2[i]
    OBVIOUS
  <2>1. i + 1 \in 0..LEAF_W /\ i + 1 # 0 /\ (i + 1) - 1 = i
    BY LeafAssumption
  <2>2. QED
    BY <1>1, <2>1
<1> DEFINE S == {i \in Nat : i <= LEAF_W => Pow2[i] \in Nat \ {0}}
<1>4. 0 \in S
  BY <1>2
<1>5. ASSUME NEW n \in Nat, n \in S PROVE n + 1 \in S
  <2>1. n + 1 <= LEAF_W => n \in 0..LEAF_W - 1 /\ Pow2[n] \in Nat \ {0}
    BY <1>5, LeafAssumption
  <2>2. n + 1 <= LEAF_W => Pow2[n + 1] = 2 * Pow2[n]
    BY <1>3, <2>1
  <2>3. QED
    BY <2>1, <2>2
<1> HIDE DEF S
<1>6. \A n \in Nat : n \in S
  BY <1>4, <1>5, SetInduction
<1>7. \A i \in 0..LEAF_W : Pow2[i] \in Nat \ {0}
  BY <1>6, LeafAssumption DEF S
<1>8. QED
  BY <1>2, <1>3, <1>7, LeafAssumption

(* Each level of the tree from the one below it. *)
LEMMA LevelDef ==
  ASSUME NEW c
  PROVE  G_LVL(c) =
           [gl \in 0 .. LEAF_W |->
              IF gl = 0 THEN [k \in 0 .. Pow2[LEAF_W] - 1 |-> Leaf(c, k)]
              ELSE [k \in 0 .. Pow2[LEAF_W - gl] - 1 |->
                      Node(G_LVL(c)[gl - 1][2 * k], G_LVL(c)[gl - 1][2 * k + 1])]]
<1> DEFINE leaves == [k \in 0 .. Pow2[LEAF_W] - 1 |-> Leaf(c, k)]
           next(gl, below) == [k \in 0 .. Pow2[LEAF_W - gl] - 1 |->
                                 Node(below[2 * k], below[2 * k + 1])]
           Body(h, m) == [gl \in 0 .. m |-> IF gl = 0 THEN leaves ELSE next(gl, h[gl - 1])]
           Exists(m) == \E h : h = Body(h, m)
           S == {m \in Nat : Exists(m)}
<1>1. Exists(LEAF_W) => G_LVL(c) = Body(G_LVL(c), LEAF_W)
  BY DEF G_LVL
<1> HIDE DEF next, leaves
<1>2. Exists(0)
  <2> DEFINE h == [gl \in 0 .. 0 |-> leaves]
  <2>1. h = Body(h, 0)
    OBVIOUS
  <2>2. QED
    BY <2>1
<1>3. ASSUME NEW m \in Nat, Exists(m) PROVE Exists(m + 1)
  <2>1. PICK h : h = Body(h, m)
    BY <1>3
  <2> DEFINE g == [gl \in 0 .. m + 1 |-> IF gl <= m THEN h[gl] ELSE next(gl, h[m])]
  <2>2. ASSUME NEW gl \in 0 .. m + 1
        PROVE  g[gl] = IF gl = 0 THEN leaves ELSE next(gl, g[gl - 1])
    <3>1. CASE gl = m + 1
      <4>1. gl # 0 /\ gl - 1 = m /\ g[gl] = next(gl, h[m]) /\ g[m] = h[m]
        BY <3>1
      <4>2. QED
        BY <4>1
    <3>2. CASE gl \in 0 .. m
      <4>1. g[gl] = h[gl] /\ (gl # 0 => g[gl - 1] = h[gl - 1])
        BY <3>2
      <4>2. h[gl] = IF gl = 0 THEN leaves ELSE next(gl, h[gl - 1])
        BY <2>1, <3>2
      <4>3. QED
        BY <4>1, <4>2
    <3>3. QED
      BY <3>1, <3>2
  <2> HIDE DEF g
  <2>3. g = Body(g, m + 1)
    <3>1. g = [gl \in 0 .. m + 1 |-> g[gl]]
      BY DEF g
    <3>2. QED
      BY <2>2, <3>1
  <2>4. QED
    BY <2>3, Zenon
<1>4. Exists(LEAF_W)
  <2> HIDE DEF Exists
  <2>1. 0 \in S /\ \A m \in Nat : m \in S => m + 1 \in S
    BY <1>2, <1>3
  <2>2. \A m \in Nat : m \in S
    BY <2>1, SetInduction
  <2>3. QED
    BY <2>2, LeafAssumption
<1>5. QED
  BY <1>1, <1>4 DEF next, leaves

(* A node stands for a set R of the sources that qualify: it is valid if    *)
(* there are any, and then carries the best of them with its priority.      *)
StandsFor(n, R) ==
  /\ n \in [v : BOOLEAN, p : Int, id : Nat]
  /\ n.v <=> R # {}
  /\ n.v => n.id \in R /\ n.p = prio[n.id] /\ \A t \in R : Beats(n.id, t)

(* A node over the winners of two sets, the left one of the lower numbers.  *)
LEMMA NodeOfTwo ==
  ASSUME prio \in [Sources -> Priorities], NEW A \in SUBSET Sources, NEW B \in SUBSET Sources,
         \A a \in A, b \in B : a < b,
         NEW l, NEW r, StandsFor(l, A), StandsFor(r, B)
  PROVE  StandsFor(Node(l, r), A \cup B)
<1>1. \A s \in Sources : prio[s] \in Int /\ s \in Nat
  BY PrioAssumption, SourcesAssumption DEF Priorities, Sources
<1>2. l \in [v : BOOLEAN, p : Int, id : Nat] /\ r \in [v : BOOLEAN, p : Int, id : Nat]
  BY DEF StandsFor
<1>3. CASE r.v /\ (~l.v \/ r.p > l.p)
  <2>1. Node(l, r) = [v |-> TRUE, p |-> r.p, id |-> r.id]
    BY <1>2, <1>3 DEF Node
  <2>2. r.id \in B /\ r.p = prio[r.id] /\ \A t \in B : Beats(r.id, t)
    BY <1>3 DEF StandsFor
  <2>3. ASSUME NEW t \in A PROVE Beats(r.id, t)
    <3>1. l.v /\ r.p > l.p /\ l.id \in A /\ l.p = prio[l.id] /\ Beats(l.id, t)
      BY <1>3, <2>3 DEF StandsFor
    <3>2. QED
      BY <1>1, <2>2, <3>1 DEF Beats
  <2>4. QED
    BY <1>2, <2>1, <2>2, <2>3 DEF StandsFor
<1>4. CASE l.v /\ ~(r.v /\ r.p > l.p)
  <2>1. Node(l, r) = [v |-> TRUE, p |-> l.p, id |-> l.id]
    BY <1>2, <1>4 DEF Node
  <2>2. l.id \in A /\ l.p = prio[l.id] /\ \A t \in A : Beats(l.id, t)
    BY <1>4 DEF StandsFor
  <2>3. ASSUME NEW t \in B PROVE Beats(l.id, t)
    <3>1. r.v /\ ~(r.p > l.p) /\ r.id \in B /\ r.p = prio[r.id] /\ Beats(r.id, t)
      BY <1>4, <2>3 DEF StandsFor
    <3>2. l.id < t
      BY <2>2, <2>3
    <3>3. QED
      BY <1>1, <2>2, <3>1, <3>2 DEF Beats
  <2>4. QED
    BY <1>2, <2>1, <2>2, <2>3 DEF StandsFor
<1>5. CASE ~l.v /\ ~r.v
  <2>1. Node(l, r) = [v |-> FALSE, p |-> l.p, id |-> l.id] /\ A = {} /\ B = {}
    BY <1>2, <1>5 DEF Node, StandsFor
  <2>2. QED
    BY <1>2, <2>1 DEF StandsFor
<1>6. QED
  BY <1>2, <1>3, <1>4, <1>5

(* The numbers of the leaves under a node of level gl. *)
Span(gl, k) == {i \in Nat : k * Pow2[gl] <= i /\ i < k * Pow2[gl] + Pow2[gl]}

LEMMA SpanOfTwo ==
  ASSUME NEW gl \in 0 .. LEAF_W - 1, NEW k \in Nat
  PROVE  /\ Span(gl + 1, k) = Span(gl, 2 * k) \cup Span(gl, 2 * k + 1)
         /\ \A i \in Span(gl, 2 * k), j \in Span(gl, 2 * k + 1) : i < j
<1> DEFINE w == Pow2[gl]
           a == k * w
<1>1. w \in Nat \ {0} /\ Pow2[gl + 1] = 2 * w
  BY Weights, LeafAssumption
<1> HIDE DEF w
<1>2. /\ a \in Nat /\ k * (2 * w) = 2 * a /\ (2 * k) * w = 2 * a /\ (2 * k + 1) * w = 2 * a + w
  BY <1>1, SMTT(30)
<1> HIDE DEF a
<1>3. /\ Span(gl + 1, k) = {i \in Nat : 2 * a <= i /\ i < 2 * a + 2 * w}
      /\ Span(gl, 2 * k) = {i \in Nat : 2 * a <= i /\ i < 2 * a + w}
      /\ Span(gl, 2 * k + 1) = {i \in Nat : 2 * a + w <= i /\ i < 2 * a + w + w}
  BY <1>1, <1>2 DEF Span, w
<1>4. QED
  BY <1>1, <1>2, <1>3

(* By induction over the levels: every node stands for the qualifying       *)
(* sources among its leaves.                                                *)
LEMMA NodesStandForSpans ==
  ASSUME prio \in [Sources -> Priorities], NEW c
  PROVE  \A gl \in 0 .. LEAF_W : \A k \in 0 .. Pow2[LEAF_W - gl] - 1 :
           StandsFor(G_LVL(c)[gl][k], Qualifying(c) \cap Span(gl, k))
<1> DEFINE Good(gl) == \A k \in 0 .. Pow2[LEAF_W - gl] - 1 :
                         StandsFor(G_LVL(c)[gl][k], Qualifying(c) \cap Span(gl, k))
           S == {gl \in Nat : gl <= LEAF_W => Good(gl)}
<1>1. Good(0)
  <2> SUFFICES ASSUME NEW k \in 0 .. Pow2[LEAF_W - 0] - 1
               PROVE  StandsFor(G_LVL(c)[0][k], Qualifying(c) \cap Span(0, k))
    OBVIOUS
  <2>1. LEAF_W - 0 = LEAF_W /\ 0 \in 0 .. LEAF_W /\ Pow2[LEAF_W] \in Nat /\ Pow2[0] = 1
    BY Weights, LeafAssumption
  <2>2. G_LVL(c)[0] = [j \in 0 .. Pow2[LEAF_W] - 1 |-> Leaf(c, j)]
    BY <2>1, LevelDef, Zenon
  <2>3. G_LVL(c)[0][k] = Leaf(c, k) /\ k \in Nat
    BY <2>1, <2>2
  <2>4. Span(0, k) = {k}
    BY <2>1, <2>3 DEF Span
  <2>5. Qualifying(c) \cap {k} = IF k \in Qualifying(c) THEN {k} ELSE {}
    OBVIOUS
  <2>6. k \in Qualifying(c) => k \in Sources
    BY DEF Qualifying
  <2>7. k \in Sources => prio[k] \in Int
    BY PrioAssumption DEF Priorities
  <2>8. CASE k \in Qualifying(c)
    <3>1. Leaf(c, k) = [v |-> TRUE, p |-> prio[k], id |-> k] /\ prio[k] \in Int
      BY <2>6, <2>7, <2>8 DEF Leaf
    <3>2. StandsFor(Leaf(c, k), {k})
      BY <2>3, <3>1 DEF StandsFor, Beats
    <3>3. QED
      BY <2>3, <2>4, <2>5, <2>8, <3>2
  <2>9. CASE k \notin Qualifying(c)
    <3> DEFINE x == IF k \in Sources THEN prio[k] ELSE 0
    <3>1. Leaf(c, k) = [v |-> FALSE, p |-> x, id |-> k]
      <4>1. (k \in Qualifying(c)) = FALSE
        BY <2>9
      <4>2. QED
        BY <4>1, Zenon DEF Leaf
    <3>2. StandsFor(Leaf(c, k), {})
      <4>1. x \in Int
        BY <2>7
      <4> HIDE DEF x
      <4>2. QED
        BY <2>3, <3>1, <4>1 DEF StandsFor
    <3>3. QED
      BY <2>3, <2>4, <2>5, <2>9, <3>2
  <2>10. QED
    BY <2>8, <2>9
<1>2. ASSUME NEW gl \in Nat, gl + 1 <= LEAF_W, Good(gl) PROVE Good(gl + 1)
  <2> SUFFICES ASSUME NEW k \in 0 .. Pow2[LEAF_W - (gl + 1)] - 1
               PROVE  StandsFor(G_LVL(c)[gl + 1][k], Qualifying(c) \cap Span(gl + 1, k))
    OBVIOUS
  <2> DEFINE j == LEAF_W - (gl + 1)
             f == G_LVL(c)
  <2>1. /\ gl + 1 \in 0 .. LEAF_W /\ gl + 1 # 0 /\ (gl + 1) - 1 = gl
        /\ gl \in 0 .. LEAF_W - 1 /\ j \in 0 .. LEAF_W - 1 /\ LEAF_W - gl = j + 1
    BY <1>2, LeafAssumption
  <2> HIDE DEF j, f
  <2>2. Pow2[j] \in Nat /\ Pow2[LEAF_W - gl] = 2 * Pow2[j]
    BY <2>1, Weights, LeafAssumption
  <2>3. k \in 0 .. Pow2[j] - 1
    BY DEF j
  <2>4. f[gl + 1][k] = Node(f[gl][2 * k], f[gl][2 * k + 1])
    <3> DEFINE i == gl + 1
    <3>1. f = [g \in 0 .. LEAF_W |->
              IF g = 0 THEN [x \in 0 .. Pow2[LEAF_W] - 1 |-> Leaf(c, x)]
              ELSE [x \in 0 .. Pow2[LEAF_W - g] - 1 |->
                      Node(f[g - 1][2 * x], f[g - 1][2 * x + 1])]]
      BY LevelDef, Zenon DEF f
    <3>2. i \in 0 .. LEAF_W /\ i # 0 /\ i - 1 = gl /\ k \in 0 .. Pow2[LEAF_W - i] - 1
      BY <2>1
    <3> HIDE DEF i
    <3>3. f[i] = [x \in 0 .. Pow2[LEAF_W - i] - 1 |->
                    Node(f[i - 1][2 * x], f[i - 1][2 * x + 1])]
      BY <3>1, <3>2
    <3>4. f[i][k] = Node(f[i - 1][2 * k], f[i - 1][2 * k + 1])
      BY <3>2, <3>3
    <3>5. QED
      BY <3>2, <3>4 DEF i
  <2>5. /\ k \in Nat /\ 2 * k \in 0 .. Pow2[LEAF_W - gl] - 1
        /\ 2 * k + 1 \in 0 .. Pow2[LEAF_W - gl] - 1
    BY <2>2, <2>3
  <2> DEFINE A == Qualifying(c) \cap Span(gl, 2 * k)
             B == Qualifying(c) \cap Span(gl, 2 * k + 1)
  <2>6. StandsFor(f[gl][2 * k], A) /\ StandsFor(f[gl][2 * k + 1], B)
    BY <1>2, <2>5 DEF f
  <2>7. Qualifying(c) \cap Span(gl + 1, k) = A \cup B /\ \A a \in A, b \in B : a < b
    BY <2>1, <2>5, SpanOfTwo
  <2>8. A \in SUBSET Sources /\ B \in SUBSET Sources
    BY DEF Qualifying
  <2> HIDE DEF A, B
  <2>9. StandsFor(Node(f[gl][2 * k], f[gl][2 * k + 1]), A \cup B)
    BY <2>6, <2>7, <2>8, NodeOfTwo
  <2>10. QED
    BY <2>4, <2>7, <2>9 DEF f
<1> HIDE DEF Good
<1>3. 0 \in S
  BY <1>1
<1>4. ASSUME NEW gl \in Nat, gl \in S PROVE gl + 1 \in S
  BY <1>2, <1>4, LeafAssumption
<1> HIDE DEF S
<1>5. \A gl \in Nat : gl \in S
  BY <1>3, <1>4, SetInduction
<1>6. QED
  BY <1>5, LeafAssumption DEF S, Good

LEMMA TreeIsRight == TypeOK => TreeFindsBest
<1> SUFFICES ASSUME TypeOK, NEW c \in Contexts PROVE top_id_claim(c) = top_source_id(c)
  BY WinnerNotifies DEF TreeFindsBest
<1> DEFINE root == G_LVL(c)[LEAF_W][0]
           Q == Qualifying(c)
           top == top_source_id(c)
<1>1. prio \in [Sources -> Priorities]
  BY DEF TypeOK
<1>2. LEAF_W \in 0 .. LEAF_W /\ LEAF_W - LEAF_W = 0 /\ 0 \in 0 .. Pow2[0] - 1
      /\ Pow2[LEAF_W] \in Nat
  BY Weights, LeafAssumption
<1>3. StandsFor(root, Q \cap Span(LEAF_W, 0))
  BY <1>1, <1>2, NodesStandForSpans
<1>4. Q \subseteq Sources /\ Q \cap Span(LEAF_W, 0) = Q
  <2>1. Sources \subseteq Span(LEAF_W, 0)
    BY <1>2, LeafAssumption, SourcesAssumption DEF Sources, Span
  <2>2. QED
    BY <2>1 DEF Qualifying
<1>5. /\ Q = {} => top = 0
      /\ Q # {} => top \in Q /\ \A t \in Q : Beats(top, t)
  BY <1>1, TopWins
<1>6. top_id_claim(c) = IF root.v THEN root.id ELSE 0
  BY DEF top_id_claim
<1> HIDE DEF root, Q, top
<1>7. CASE Q = {}
  BY <1>3, <1>4, <1>5, <1>6, <1>7 DEF StandsFor, top
<1>8. CASE Q # {}
  <2>1. root.v /\ root.id \in Q /\ top \in Q /\ Beats(root.id, top) /\ Beats(top, root.id)
    BY <1>3, <1>4, <1>5, <1>8 DEF StandsFor
  <2>2. /\ root.id \in Nat /\ top \in Nat /\ prio[root.id] \in Int /\ prio[top] \in Int
    <3>1. \A s \in Sources : s \in Nat /\ prio[s] \in Int
      BY <1>1, PrioAssumption, SourcesAssumption DEF Sources, Priorities
    <3>2. QED
      BY <1>4, <2>1, <3>1
  <2>3. root.id = top
    BY <2>1, <2>2 DEF Beats
  <2>4. QED
    BY <1>6, <2>1, <2>3 DEF top
<1>9. QED
  BY <1>7, <1>8

(* The comparison tree built for a context's claims returns, for any number *)
(* of sources, its highest-priority qualifying source, the lowest ID among  *)
(* equals, and 0 when there is none: no padding leaf and no source 0 wins.  *)
(* A context is notified just when that source lies above its threshold.    *)
(* All this whatever is on the bus, and with the drivers' software too.     *)
THEOREM ArbiterTreeFindsBest == (Spec => []TreeFindsBest) /\ (DSpec => []TreeFindsBest)
<1>1. TypeOK => TreeFindsBest
  BY TreeIsRight
<1>2. DInv => TypeOK
  BY DEF DInv
<1>3. QED
  BY <1>1, <1>2, TypeCorrect, DriverInvariant, PTL
=============================================================================
