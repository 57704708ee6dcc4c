----------------------------- MODULE PlicDriver -----------------------------
(***************************************************************************)
(* The harts' software on top of Plic: per context, the loop of the C      *)
(* driver's plic_dispatch (claim, run the handler, complete the same ID),  *)
(* with the trap that starts it, and plic_enable / plic_disable, which     *)
(* read, modify and write an enable word shared by several sources.  They  *)
(* are called by handlers and by the code a trap interrupts, which may     *)
(* have read a word and not stored it yet: the driver masks nothing.       *)
(*                                                                         *)
(* The harts share one bus: an access is issued at an hclk edge and        *)
(* answered at the edge that ends its data phase.  Devices hold their      *)
(* request until the handler serves it.                                    *)
(***************************************************************************)
EXTENDS Plic

CONSTANTS
  Devices,      \* the sources something is connected to
  Setups,       \* enable / priority registers the set-up code has written
  Reconfigured  \* the sources each context enables and disables at run time

ASSUME SetupsAssumption ==
  Setups \subseteq [enable: [Contexts -> SUBSET Sources], prio: [Sources -> Priorities],
                    threshold: [Contexts -> Priorities]]
ASSUME DevicesAssumption ==
  Devices \subseteq Sources /\ Reconfigured \in [Contexts -> SUBSET Sources]

VARIABLES
  sw,   \* per context: what its software is doing, and with which source
  bus   \* the context whose access is in its data phase, NoCtx for none

dvars == <<vars, sw, bus>>

NoCtx == NUM_CONTEXTS
SwSteps == {"idle", "trapped", "claiming", "handling", "served", "completing",
            "reading", "writing", "storing"}
(* A read-modify-write under way: the source it is for, and the word read. *)
RmwType == [src: 0 .. NUM_SOURCES, word: SUBSET Sources]
NoRmw   == [src |-> 0, word |-> {}]
(* A context's software: its step, the source it services (0 outside a     *)
(* handler), its read-modify-write, and the one that its trap interrupted. *)
SwType == [pc: SwSteps, id: 0 .. NUM_SOURCES, rmw: RmwType, cut: RmwType]
Idle == [pc |-> "idle", id |-> 0, rmw |-> NoRmw, cut |-> NoRmw]

(* plic_context: the context of a hart's mode; software runs in that mode. *)
plic_context(hart, s_mode) ==
  IF SU_MODE_EN THEN 2 * hart + (IF s_mode THEN 1 ELSE 0) ELSE hart
ModeOf(c) ==
  IF \E h \in 0 .. NUM_HARTS - 1 : SU_MODE_EN /\ c = plic_context(h, TRUE) THEN "S" ELSE "M"

Register(win, wr, c) ==
  [NoAccess EXCEPT !.win = win, !.wr = wr, !.ctx = c, !.mode = ModeOf(c)]

(* The state after plic_init, plic_set_priority and plic_enable calls. *)
DInit ==
  /\ \E u \in Setups : enable = u.enable /\ prio = u.prio /\ threshold = u.threshold
  /\ dph = NoAccess /\ err_state = FALSE
  /\ pending = {} /\ in_service = {} /\ irq_src = {}
  /\ sw = [c \in Contexts |-> Idle]
  /\ bus = NoCtx

(* The trap handler returns to the code it interrupted. *)
Returned(x) ==
  [pc |-> IF x.cut = NoRmw THEN "idle" ELSE "writing", id |-> 0, rmw |-> x.cut, cut |-> NoRmw]

(* What the software in the data phase learns when the edge answers it.    *)
(* plic_dispatch returns at once when the claim reads 0.                   *)
Answered(c) ==
  CASE sw[c].pc = "claiming" ->
         IF top_source_id(c) = 0 THEN Returned(sw[c])
         ELSE [sw[c] EXCEPT !.pc = "handling", !.id = top_source_id(c)]
    [] sw[c].pc = "reading" ->
         [sw[c] EXCEPT !.pc = "writing",
            !.rmw.word = {s \in enable[c] : WordOf(s) = WordOf(sw[c].rmw.src)}]
    [] sw[c].pc = "storing" ->
         [sw[c] EXCEPT !.pc = IF sw[c].id = 0 THEN "idle" ELSE "served", !.rmw = NoRmw]
    [] OTHER -> Returned(sw[c])

(* One edge: the access in its data phase is answered, and the access aph  *)
(* of context c, whose software becomes next, enters its data phase.       *)
BusEdge(c, aph, next) ==
  /\ HclkEdge(aph)
  /\ hreadyout
  /\ bus' = c
  /\ sw' = [x \in Contexts |-> IF x = c THEN next
                               ELSE IF x = bus THEN Answered(x) ELSE sw[x]]

IdleEdge == BusEdge(NoCtx, NoAccess, Idle)

(* The hart takes the external interrupt while the context is notified,    *)
(* also between the load and the store of a plic_enable, but not in a      *)
(* handler: the hart masks interrupts when it takes one.                   *)
TakeTrap(c) ==
  /\ sw[c].pc \in {"idle", "writing"} /\ sw[c].id = 0
  /\ irq_o(c)
  /\ sw' = [sw EXCEPT ![c] = [Idle EXCEPT !.pc = "trapped", !.cut = sw[c].rmw]]
  /\ UNCHANGED <<vars, bus>>

plic_claim(c) ==
  /\ sw[c].pc = "trapped"
  /\ BusEdge(c, Register("claim", FALSE, c), [sw[c] EXCEPT !.pc = "claiming"])

(* The handler serves the device, whose request line then drops. *)
Handler(c) ==
  /\ sw[c].pc = "handling"
  /\ irq_src' = irq_src \ {sw[c].id}
  /\ sw' = [sw EXCEPT ![c].pc = "served"]
  /\ UNCHANGED <<regs, bus>>

plic_complete(c) ==
  /\ sw[c].pc = "served"
  /\ BusEdge(c, [Register("claim", TRUE, c) EXCEPT !.src = sw[c].id],
             [sw[c] EXCEPT !.pc = "completing"])

(* plic_enable and plic_disable: read the word, then store it with the bit *)
(* of source s set or cleared.  A handler does not disable its own source, *)
(* as the driver's header demands.                                         *)
EnableLoad(c, s) ==
  /\ sw[c].pc \in {"idle", "served"}
  /\ BusEdge(c, [Register("enable", FALSE, c) EXCEPT !.word = WordOf(s)],
             [sw[c] EXCEPT !.pc = "reading", !.rmw = [src |-> s, word |-> {}]])

Bug_whole_word_stored(c, set) == IF set THEN {sw[c].rmw.src} ELSE {}
Modified(c, set) ==
  IF set THEN sw[c].rmw.word \cup {sw[c].rmw.src} ELSE sw[c].rmw.word \ {sw[c].rmw.src}

EnableStore(c, set) ==
  /\ sw[c].pc = "writing"
  /\ sw[c].rmw.src = sw[c].id => set
  /\ BusEdge(c, [Register("enable", TRUE, c) EXCEPT
                   !.word = WordOf(sw[c].rmw.src), !.bits = Modified(c, set)],
             [sw[c] EXCEPT !.pc = "storing"])

(* A device raises its request and holds it. *)
Raise(s) ==
  /\ s \notin irq_src
  /\ LineChange(s)
  /\ UNCHANGED <<sw, bus>>

BusStep ==
  \/ IdleEdge
  \/ \E c \in Contexts : plic_claim(c) \/ plic_complete(c)
  \/ \E c \in Contexts : \E s \in Reconfigured[c] : EnableLoad(c, s)
  \/ \E c \in Contexts, set \in BOOLEAN : EnableStore(c, set)

DNext ==
  \/ BusStep
  \/ \E c \in Contexts : TakeTrap(c) \/ Handler(c)
  \/ \E s \in Devices : Raise(s)

DSpec == DInit /\ [][DNext]_dvars

(* The clock runs while it is requested, the arbiter of the bus lets every *)
(* hart in, and harts keep executing.                                      *)
DFair ==
  /\ WF_dvars(BusStep)
  /\ \A c \in Contexts :
       /\ WF_dvars(TakeTrap(c))
       /\ WF_dvars(Handler(c))
       /\ WF_dvars(plic_claim(c))
       /\ WF_dvars(plic_complete(c))
       /\ \A set \in BOOLEAN : WF_dvars(EnableStore(c, set))
DFairSpec == DSpec /\ DFair

----------------------------------------------------------------------------
(* Properties. *)

Holds(c, s) == sw[c].id = s

(* No two contexts service the same source at the same time, though all of *)
(* them are notified of it and race to claim it.                           *)
ExclusiveService ==
  \A s \in Sources, c, d \in Contexts : Holds(c, s) /\ Holds(d, s) => c = d

(* A source is in service exactly while a context handles it, and then it  *)
(* is enabled there, so that its completion will be accepted: whatever     *)
(* words handlers, the code they interrupt and other contexts store, and   *)
(* although an interrupted plic_enable stores a word read long before.     *)
InServiceMeansHandled ==
  /\ \A s \in in_service : \E c \in Contexts : Holds(c, s)
  /\ \A c \in Contexts : sw[c].id # 0 => sw[c].id \in in_service \cap enable[c]

Outranks(t, s) == t # s /\ Beats(t, s)
Wanted(s) == \E c \in Contexts : s \in enable[c] /\ prio[s] > threshold[c]
Reconfiguring == \E c \in Contexts : sw[c].pc = "storing"

(* A device that raises its request is eventually served, unless sources   *)
(* that win over it at the arbiter are served again and again, or software *)
(* never stops changing the enables, or leaves the source disabled.        *)
ServedOrOutranked ==
  \A s \in Devices :
    \/ []<>~Wanted(s)
    \/ []<>Reconfiguring
    \/ (s \in irq_src) ~> (s \notin irq_src)
    \/ []<>(\E c \in Contexts, t \in Devices : Outranks(t, s) /\ Holds(c, t))

============================================================================
