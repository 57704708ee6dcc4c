------------------------------- MODULE AhbGeneric -------------------------------
(***************************************************************************)
(* ahb_interconnect_generic: NR_M managers share one bus to NR_S           *)
(* subordinates and the built-in default subordinate.  Arbitration and     *)
(* address decoding are external.  One action is one hclk edge, taken by   *)
(* the fabric, the managers and the subordinates together.                 *)
(*                                                                         *)
(* The arbiter is any that meets its contract: at most one grant, given    *)
(* in the same cycle, possibly parked on a manager that asks for nothing.  *)
(***************************************************************************)
EXTENDS AhbBlocks

CONSTANTS Managers, Subs

DFLT    == "default subordinate"
Targets == Subs \cup {DFLT}
ASSUME GenericAssumption ==
  /\ DFLT \notin Subs
  /\ \A x \in Xfers : x.m \in Managers

VARIABLES
  aph,           \* the address phase each manager presents
  dp,            \* the transfer whose data phase each manager is in
  mif,           \* the registers of each ahb_manager_if
  hsel_latched,  \* the targets selected for the data phase
  dflt,          \* the default subordinate
  sub            \* the subordinates

vars == <<aph, dp, mif, hsel_latched, dflt, sub>>

(* The external decoder, with the default subordinate for an address that  *)
(* belongs to nobody.                                                      *)
Decoded(x)    == IF x.addr \in Subs THEN x.addr ELSE DFLT
Selects(x, t) == x # None /\ Decoded(x) = t

----------------------------------------------------------------------------
TargetReady(t) == IF t = DFLT THEN dflt_hreadyout(dflt) ELSE s_hreadyout(sub[t])
TargetResp(t)  == IF t = DFLT THEN dflt_hresp(dflt) ELSE s_hresp(sub[t])

hreadyout == \A t \in hsel_latched : TargetReady(t)
hresp     == \E t \in hsel_latched : TargetResp(t)

m_hready(m) == m_hreadyout(mif[m], hreadyout)
m_hresp(m)  == hresp /\ mif[m].dph

m_aph_valid(m) == m_hready(m) /\ aph[m] # None

(* The granted address phase on the bus, None when hsel is low; g is the   *)
(* set of managers granted, empty or a singleton.                          *)
BusAphs(g) == {m \in g : m_aph_granted(mif[m], m_aph_valid(m), TRUE, hreadyout)}
BusAph(g) ==
  IF BusAphs(g) = {} THEN None
  ELSE LET m == CHOOSE m \in BusAphs(g) : TRUE IN m_aph(mif[m], aph[m])

(* The write data on the bus: the managers' OR-combined, each gated by its *)
(* data phase.  Data is the set of its bits that are one.                  *)
hwdata == UNION {dp[m].data : m \in {n \in Managers : mif[n].dph /\ dp[n] # None}}

hclk_en(g) ==
  \/ BusAph(g) # None /\ hreadyout
  \/ Selects(BusAph(g), DFLT) /\ hreadyout
  \/ dflt_hresp(dflt)
  \/ \E m \in Managers : mif_hclk_en(mif[m], m_aph_valid(m))

----------------------------------------------------------------------------
Offers == {f \in [Managers -> XferOrNone] : \A m \in Managers : f[m] \in XfersOf(m) \cup {None}}

Init ==
  /\ aph \in Offers
  /\ dp = [m \in Managers |-> None]
  /\ mif = [m \in Managers |-> MifReset]
  /\ hsel_latched = {}
  /\ dflt = DfltReset
  /\ sub = [s \in Subs |-> SubReset]

ManagerEdge ==
  /\ dp' = [m \in Managers |-> IF m_hready(m) THEN aph[m] ELSE dp[m]]
  /\ aph' \in {f \in Offers :
               \A m \in Managers : f[m] \in AphNext(m, aph[m], m_hready(m), m_hresp(m))}

(* The registers of the fabric after an edge with address phase x on the   *)
(* bus: manager mux, subordinate mux, default subordinate.                 *)
ManagerMux(g) ==
  [m \in Managers |-> MifNext(mif[m], aph[m], m_aph_valid(m), m \in g, hreadyout)]
SubordinateMux(x) == IF x # None /\ hreadyout THEN {Decoded(x)} ELSE hsel_latched
DefaultSub(x)     == DfltNext(dflt, Selects(x, DFLT) /\ hreadyout)

Subordinates(x) ==
  \E reply \in (IF x = None THEN {[wait |-> 0, resp |-> "okay"]} ELSE Replies) :
    sub' = [s \in Subs |-> SubNext(sub[s], IF Selects(x, s) THEN x ELSE None, hreadyout, reply)]

HclkEdge(g) ==
  LET x == BusAph(g) IN
  /\ ManagerEdge
  /\ Subordinates(x)
  /\ mif' = ManagerMux(g)
  /\ hsel_latched' = SubordinateMux(x)
  /\ dflt' = DefaultSub(x)

Grants == {{}} \cup {{m} : m \in Managers}

Next == \E g \in Grants : HclkEdge(g)
Spec == Init /\ [][Next]_vars

----------------------------------------------------------------------------
TypeOK ==
  /\ aph \in [Managers -> XferOrNone]
  /\ dp \in [Managers -> XferOrNone]
  /\ \A m \in Managers : {aph[m], dp[m]} \subseteq XfersOf(m) \cup {None}
  /\ mif \in [Managers -> Mif]
  /\ hsel_latched \in SUBSET Targets
  /\ dflt \in Dflt
  /\ sub \in [Subs -> Sub]

(* Constraint 2 of ahb_interconnect.md and the invariant the manager mux   *)
(* relies on: one manager owns the data phase, so the ORs of write data    *)
(* and the gating of the response are selections.                          *)
OneDataPhase ==
  \A m, n \in Managers : mif[m].dph /\ mif[n].dph => m = n

(* A manager held off with a cached address phase sees no ERROR, and the   *)
(* manager in its data phase sees exactly the answer of the target of its  *)
(* own transfer, an ERROR if that address belongs to nobody.               *)
AnswerIsOfTarget ==
  \A m \in Managers : dp[m] # None =>
    IF mif[m].dph
    THEN /\ m_hready(m) = TargetReady(Decoded(dp[m]))
         /\ m_hresp(m) = TargetResp(Decoded(dp[m]))
         /\ Decoded(dp[m]) = DFLT => m_hresp(m)
    ELSE ~m_hready(m) /\ ~m_hresp(m)

(* AHB's ERROR response takes two cycles at the manager: a transfer never  *)
(* ends in ERROR without an ERROR wait cycle before, in which the manager  *)
(* could cancel its next address phase.                                    *)
TwoCycleError ==
  [][\A m \in Managers :
       m_hready(m)' /\ m_hresp(m)' => ~m_hready(m) /\ m_hresp(m)]_vars

(* The fabric implements a crossbar.  What a subordinate executes is the   *)
(* address phase it sampled with the write data now on the bus; the        *)
(* default subordinate executes what its owner asked for.                  *)
Executed(t) ==
  IF t = DFLT
  THEN IF dflt_hresp(dflt) /\ hsel_latched = {DFLT}
       THEN CHOOSE x \in XferOrNone : \E m \in Managers : mif[m].dph /\ x = dp[m]
       ELSE None
  ELSE IF sub[t].dp = None THEN None
       ELSE [sub[t].dp EXCEPT !.data = hwdata]
Executions == {e \in {<<t, Executed(t)>> : t \in Targets} : e[2] # None}
XB == INSTANCE Crossbar WITH
        want <- dp, at <- Executions,
        Home <- [x \in Xfers |-> Decoded(x)]
ImplementsCrossbar == XB!Spec
================================================================================
