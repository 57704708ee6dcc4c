-------------------------------- MODULE AhbHiperf --------------------------------
(***************************************************************************)
(* ahb_interconnect_hiperf: one executable manager XM with a bus of its    *)
(* own, non-executable managers NXM on a second bus, and behind each       *)
(* executable subordinate's port a level-2 channel: a manager interface    *)
(* per bus and an ahb_arbiter_2m.  Arbitration of the non-executable       *)
(* managers is external; here it is any fixed or rotating choice among the *)
(* managers that request.                                                  *)
(***************************************************************************)
EXTENDS AhbBlocks

CONSTANTS XM, NXM,       \* the executable manager, the others
          XSubs, NXSubs  \* executable subordinates, the others

DFLT_X   == "x default subordinate"
DFLT_NX  == "nx default subordinate"
Managers == {XM} \cup NXM
Subs     == XSubs \cup NXSubs
Targets  == Subs \cup {DFLT_X, DFLT_NX}
Sides    == {"x", "nx"}

ASSUME HiperfAssumption ==
  /\ XM \notin NXM
  /\ XSubs \cap NXSubs = {} /\ {DFLT_X, DFLT_NX} \cap Subs = {}
  /\ \A x \in Xfers : x.m \in Managers

VARIABLES
  aph, dp,       \* each manager's address phase and its data phase
  mif,           \* the manager interfaces of the non-executable bus
  hsel_latched,  \* per side, the data phase select of its subordinate mux
  dflt,          \* per side, its default subordinate
  chan,          \* per executable subordinate, its two manager interfaces
  toggle,        \* per executable subordinate, toggle_priority
  sub            \* the subordinates

vars == <<aph, dp, mif, hsel_latched, dflt, chan, toggle, sub>>

(* The two decoders; they agree on the executable subordinates. *)
Decoded(side, x) ==
  CASE side = "x"  -> IF x.addr \in XSubs THEN x.addr ELSE DFLT_X
    [] side = "nx" -> IF x.addr \in Subs THEN x.addr ELSE DFLT_NX
SideOf(m) == IF m = XM THEN "x" ELSE "nx"
HomeOf(x) == Decoded(SideOf(x.m), x)
Selects(side, x, t) == x # None /\ Decoded(side, x) = t

----------------------------------------------------------------------------
(* What a side's subordinate mux sees of target t. *)
TargetReady(side, t) ==
  IF t \in XSubs THEN m_hreadyout(chan[t][side], s_hreadyout(sub[t]))
  ELSE IF t \in NXSubs THEN s_hreadyout(sub[t])
  ELSE dflt_hreadyout(dflt[side])
TargetResp(side, t) ==
  IF t \in XSubs THEN s_hresp(sub[t]) /\ chan[t][side].dph
  ELSE IF t \in NXSubs THEN s_hresp(sub[t])
  ELSE dflt_hresp(dflt[side])

hreadyout(side) == \A t \in hsel_latched[side] : TargetReady(side, t)
hresp(side)     == \E t \in hsel_latched[side] : TargetResp(side, t)

m_hready(m) == IF m = XM THEN hreadyout("x") ELSE m_hreadyout(mif[m], hreadyout("nx"))
m_hresp(m)  == IF m = XM THEN hresp("x") ELSE hresp("nx") /\ mif[m].dph

m_aph_valid(m) == m_hready(m) /\ aph[m] # None

(* The address phase on each bus: the executable manager's own, and the    *)
(* one of the granted non-executable manager.                              *)
BusAphs(g) == {m \in g : m_aph_granted(mif[m], m_aph_valid(m), TRUE, hreadyout("nx"))}
BusAph(side, g) ==
  IF side = "x" THEN aph[XM]
  ELSE IF BusAphs(g) = {} THEN None
  ELSE LET m == CHOOSE m \in BusAphs(g) : TRUE IN m_aph(mif[m], aph[m])

(* The level-2 channels of executable subordinate s; bus is the pair of    *)
(* address phases.  An address phase is accepted from a side only while    *)
(* the bus of that side is ready.                                          *)
Bug_own_ready(s, side, bus) ==
  Selects(side, bus[side], s) /\ m_hreadyout(chan[s][side], s_hreadyout(sub[s]))
aph_valid_x(s, side, bus) == Selects(side, bus[side], s) /\ hreadyout(side)
Requests(s, bus) ==
  LET asks(side) == m_request(chan[s][side], aph_valid_x(s, side, bus), s_hreadyout(sub[s]))
  IN [x |-> asks("x"), nx |-> asks("nx")]
Grant(s, bus) ==
  IF toggle[s] THEN Arbitrate("nx", "x", Requests(s, bus))
  ELSE Arbitrate("x", "nx", Requests(s, bus))
ChannelAphs(s, bus) ==
  {side \in Grant(s, bus) :
     m_aph_granted(chan[s][side], aph_valid_x(s, side, bus), TRUE, s_hreadyout(sub[s]))}
(* What is presented to each subordinate, None if nothing is. *)
SubAph(s, bus) ==
  IF s \in NXSubs THEN IF Selects("nx", bus["nx"], s) THEN bus["nx"] ELSE None
  ELSE IF ChannelAphs(s, bus) = {} THEN None
  ELSE LET side == CHOOSE side \in ChannelAphs(s, bus) : TRUE
       IN m_aph(chan[s][side], bus[side])
SubReady(s) == IF s \in NXSubs THEN hreadyout("nx") ELSE s_hreadyout(sub[s])

(* Write data on each bus and at each subordinate, gated and combined at   *)
(* both levels; a value is the set of its bits that are one.               *)
BusData(side) ==
  IF side = "x" THEN IF dp[XM] = None THEN {} ELSE dp[XM].data
  ELSE UNION {dp[m].data : m \in {n \in NXM : mif[n].dph /\ dp[n] # None}}
SubData(s) ==
  IF s \in NXSubs THEN BusData("nx")
  ELSE UNION {BusData(side) : side \in {c \in Sides : chan[s][c].dph}}

Bug_channels_not_clocked(g) ==
  \/ \E side \in Sides : BusAph(side, g) # None \/ dflt_hresp(dflt[side])
  \/ \E m \in NXM : mif_hclk_en(mif[m], m_aph_valid(m))
hclk_en(g) ==
  LET bus == [x |-> BusAph("x", g), nx |-> BusAph("nx", g)] IN
  \/ \E side \in Sides : bus[side] # None /\ hreadyout(side)
  \/ \E side \in Sides : dflt_hresp(dflt[side])
  \/ \E m \in NXM : mif_hclk_en(mif[m], m_aph_valid(m))
  \/ \E s \in XSubs, side \in Sides :
       mif_hclk_en(chan[s][side], aph_valid_x(s, side, bus))

----------------------------------------------------------------------------
Offers == {f \in [Managers -> XferOrNone] : \A m \in Managers : f[m] \in XfersOf(m) \cup {None}}

Init ==
  /\ aph \in Offers
  /\ dp = [m \in Managers |-> None]
  /\ mif = [m \in NXM |-> MifReset]
  /\ hsel_latched = [side \in Sides |-> {}]
  /\ dflt = [side \in Sides |-> DfltReset]
  /\ chan = [s \in XSubs |-> [side \in Sides |-> MifReset]]
  /\ toggle = [s \in XSubs |-> FALSE]
  /\ sub = [s \in Subs |-> SubReset]

ManagerEdge ==
  /\ dp' = [m \in Managers |-> IF m_hready(m) THEN aph[m] ELSE dp[m]]
  /\ aph' \in {f \in Offers :
               \A m \in Managers : f[m] \in AphNext(m, aph[m], m_hready(m), m_hresp(m))}

ManagerMux(g) ==
  [m \in NXM |-> MifNext(mif[m], aph[m], m_aph_valid(m), m \in g, hreadyout("nx"))]
SubordinateMux(bus) ==
  [side \in Sides |-> IF bus[side] # None /\ hreadyout(side)
                      THEN {Decoded(side, bus[side])} ELSE hsel_latched[side]]
DefaultSub(bus) ==
  [side \in Sides |->
     DfltNext(dflt[side], /\ Selects(side, bus[side], IF side = "x" THEN DFLT_X ELSE DFLT_NX)
                          /\ hreadyout(side))]
Channels(bus) ==
  [s \in XSubs |-> [side \in Sides |->
     MifNext(chan[s][side], bus[side], aph_valid_x(s, side, bus),
             side \in Grant(s, bus), s_hreadyout(sub[s]))]]
Bug_toggle_sticks(bus) == [s \in XSubs |-> toggle[s] \/ "x" \in Grant(s, bus)]
Toggles(bus) ==
  [s \in XSubs |-> IF Grant(s, bus) = {} THEN toggle[s] ELSE "x" \in Grant(s, bus)]

Subordinates(bus) ==
  \E reply \in [{s \in Subs : SubReady(s) /\ SubAph(s, bus) # None} -> Replies] :
    sub' = [s \in Subs |->
              SubNext(sub[s], SubAph(s, bus), SubReady(s),
                      IF s \in DOMAIN reply THEN reply[s] ELSE [wait |-> 0, resp |-> "okay"])]

HclkEdge(g) ==
  LET bus == [x |-> BusAph("x", g), nx |-> BusAph("nx", g)] IN
  /\ ManagerEdge
  /\ Subordinates(bus)
  /\ mif' = ManagerMux(g)
  /\ hsel_latched' = SubordinateMux(bus)
  /\ dflt' = DefaultSub(bus)
  /\ chan' = Channels(bus)
  /\ toggle' = Toggles(bus)

Requesting == {m \in NXM : m_request(mif[m], m_aph_valid(m), hreadyout("nx"))}
Grants     == IF Requesting = {} THEN {{}} ELSE {{m} : m \in Requesting}

Next == \E g \in Grants : HclkEdge(g)
Spec == Init /\ [][Next]_vars
FairSpec == Spec /\ WF_vars(Next)

----------------------------------------------------------------------------
TypeOK ==
  /\ aph \in [Managers -> XferOrNone] /\ dp \in [Managers -> XferOrNone]
  /\ mif \in [NXM -> Mif]
  /\ hsel_latched \in [Sides -> SUBSET Targets]
  /\ dflt \in [Sides -> Dflt]
  /\ chan \in [XSubs -> [Sides -> Mif]]
  /\ toggle \in [XSubs -> BOOLEAN]
  /\ sub \in [Subs -> Sub]

(* hclk_en_o may drive the clock gate: an edge it would suppress changes   *)
(* no register of the fabric, at either arbitration level.                 *)
ClockGateSafe ==
  \A g \in Grants :
    LET bus == [x |-> BusAph("x", g), nx |-> BusAph("nx", g)] IN
    ~hclk_en(g) =>
      /\ ManagerMux(g) = mif
      /\ SubordinateMux(bus) = hsel_latched
      /\ DefaultSub(bus) = dflt
      /\ Channels(bus) = chan
      /\ Toggles(bus) = toggle

(* The executable manager's transfers end whatever the others do; the      *)
(* traffic of the non-executable side cannot starve instruction fetch.     *)
FetchCompletes == dp[XM] # None ~> m_hready(XM)

Executed(t) ==
  IF t \in Subs
  THEN IF sub[t].dp = None THEN None ELSE [sub[t].dp EXCEPT !.data = SubData(t)]
  ELSE LET side   == IF t = DFLT_X THEN "x" ELSE "nx"
           owners == IF side = "x" THEN {XM} ELSE {m \in NXM : mif[m].dph}
       IN IF dflt_hresp(dflt[side]) /\ hsel_latched[side] = {t}
          THEN CHOOSE x \in XferOrNone : \E m \in owners : x = dp[m]
          ELSE None
Executions == {e \in {<<t, Executed(t)>> : t \in Targets} : e[2] # None}
XB == INSTANCE Crossbar WITH
        want <- dp, at <- Executions,
        Home <- [x \in Xfers |-> HomeOf(x)]
ImplementsCrossbar == XB!Spec
================================================================================
