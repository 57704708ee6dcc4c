---------------------------- MODULE AhbHiperfProofs ----------------------------
(***************************************************************************)
(* Proofs about AhbHiperf for any number of managers, subordinates and     *)
(* transfers.  The transfer in the data phase of a side's bus is in        *)
(* exactly one place: parked in its channel, or executed by its target.    *)
(* A manager interface, of either level, keeps track of one transfer in    *)
(* the same way (InterfaceStep), so that the two levels are one argument   *)
(* used twice.                                                             *)
(***************************************************************************)
EXTENDS AhbHiperf, TLAPS

(* The interface f has the transfer d: parked, or in the data phase behind *)
(* it; or it has none.                                                     *)
Holds(f, d) ==
  /\ d # None <=> f.pending \/ f.dph
  /\ ~(f.pending /\ f.dph)
  /\ f.pending => f.cache = d

(* The transfer in the data phase of a side's bus. *)
SideDp(side) ==
  IF side = "x" THEN dp[XM]
  ELSE IF \E m \in NXM : mif[m].dph THEN dp[CHOOSE m \in NXM : mif[m].dph] ELSE None
Held(side, t) == IF Selects(side, SideDp(side), t) THEN SideDp(side) ELSE None
DfltOf(side)  == IF side = "x" THEN DFLT_X ELSE DFLT_NX

OwnTransfers ==
  \A m \in Managers : {aph[m], dp[m]} \subseteq XfersOf(m) \cup {None}
OneDataPhase ==
  \A m, n \in NXM : mif[m].dph /\ mif[n].dph => m = n
Tracked == \A m \in NXM : Holds(mif[m], dp[m])

(* The data phase of a bus selects the target of its transfer alone.       *)
Routed ==
  \A side \in Sides :
    SideDp(side) # None => hsel_latched[side] = {Decoded(side, SideDp(side))}

(* A channel has the transfer of its side if that is for its subordinate,  *)
(* and one channel at most has the subordinate.                            *)
Carried ==
  \A s \in XSubs :
    /\ \A side \in Sides : Holds(chan[s][side], Held(side, s))
    /\ ~(chan[s]["x"].dph /\ chan[s]["nx"].dph)

(* What a subordinate executes is that transfer, and nothing otherwise.    *)
Executing ==
  /\ \A s \in NXSubs : sub[s].dp = Held("nx", s)
  /\ \A s \in XSubs : sub[s].dp = IF chan[s]["x"].dph THEN SideDp("x")
                                  ELSE IF chan[s]["nx"].dph THEN SideDp("nx") ELSE None
  /\ \A s \in Subs : sub[s].dp = None => sub[s] = SubReset

(* A default subordinate answers the transfers astray, and those alone.    *)
Denied ==
  \A side \in Sides :
    /\ dflt[side].p0 \/ dflt[side].p1 <=> Selects(side, SideDp(side), DfltOf(side))
    /\ ~(dflt[side].p0 /\ dflt[side].p1)

IInv == /\ TypeOK /\ OwnTransfers /\ OneDataPhase /\ Tracked
        /\ Routed /\ Carried /\ Executing /\ Denied

USE BlocksAssumption, HiperfAssumption

----------------------------------------------------------------------------
(* What an interface may be offered: an address phase in its last cycle    *)
(* only while it is ready; n is what its side has after the edge.          *)
Offered(f, d, a, valid, ready, n) ==
  /\ Holds(f, d)
  /\ valid => a # None /\ m_hreadyout(f, ready)
  /\ n = IF m_hreadyout(f, ready) THEN (IF valid THEN a ELSE None) ELSE d

Follows(f, d, a, valid, grant, ready, n) ==
  /\ MifNext(f, a, valid, grant, ready) \in Mif
  /\ Holds(MifNext(f, a, valid, grant, ready), n)
  /\ MifNext(f, a, valid, grant, ready).dph
       <=> m_aph_granted(f, valid, grant, ready) \/ (f.dph /\ ~ready)
  /\ f.dph /\ ~ready => n = d
  /\ m_aph_granted(f, valid, grant, ready) => m_aph(f, a) = n /\ n \in Xfers
  /\ m_aph_granted(f, valid, grant, ready) => grant /\ ready

(* One edge of an interface: it keeps track of what its side has next, and *)
(* what it is granted to present is that.                                  *)
LEMMA InterfaceStep ==
  ASSUME NEW f \in Mif, NEW d \in XferOrNone, NEW a \in XferOrNone, NEW n,
         NEW valid \in BOOLEAN, NEW grant \in BOOLEAN, NEW ready \in BOOLEAN,
         Offered(f, d, a, valid, ready, n)
  PROVE  Follows(f, d, a, valid, grant, ready, n)
<1> DEFINE eff == grant /\ ready
           g   == MifNext(f, a, valid, grant, ready)
<1>1. /\ f.pending \in BOOLEAN /\ f.dph \in BOOLEAN /\ f.cache \in XferOrNone
      /\ f.pending => f.cache \in Xfers
  BY DEF Mif
<1>2. m_hreadyout(f, ready) <=> IF f.dph THEN ready ELSE ~f.pending
  BY <1>1 DEF m_hreadyout
<1>3. g = [pending |-> (valid /\ ~eff) \/ (f.pending /\ ~eff),
           cache   |-> IF valid /\ ~eff THEN a ELSE f.cache,
           dph     |-> ((valid \/ f.pending) /\ eff) \/ (f.dph /\ ~ready)]
  BY DEF MifNext, m_grant_eff, m_aph_granted
<1>4. eff \in BOOLEAN
  OBVIOUS
<1>5. m_aph_granted(f, valid, grant, ready) = ((valid \/ f.pending) /\ eff)
  BY DEF m_aph_granted, m_grant_eff
<1>6. eff => ready
  OBVIOUS
<1> HIDE DEF eff, g
<1>7. /\ g.pending <=> (valid \/ f.pending) /\ ~eff
      /\ g.cache = IF valid /\ ~eff THEN a ELSE f.cache
      /\ g.dph <=> ((valid \/ f.pending) /\ eff) \/ (f.dph /\ ~ready)
  <2>1. g.pending = ((valid /\ ~eff) \/ (f.pending /\ ~eff))
    BY <1>3
  <2>2. g.cache = IF valid /\ ~eff THEN a ELSE f.cache
    BY <1>3
  <2>3. g.dph = (((valid \/ f.pending) /\ eff) \/ (f.dph /\ ~ready))
    BY <1>3
  <2> QED BY <1>1, <1>4, <2>1, <2>2, <2>3
<1>8. /\ d # None <=> f.pending \/ f.dph
      /\ ~(f.pending /\ f.dph)
      /\ f.pending => f.cache = d
  BY DEF Holds, Offered
<1>9. /\ valid => a # None /\ m_hreadyout(f, ready)
      /\ n = IF m_hreadyout(f, ready) THEN (IF valid THEN a ELSE None) ELSE d
  BY DEF Offered
<1>10. g \in Mif
  <2>1. /\ g = [pending |-> g.pending, cache |-> g.cache, dph |-> g.dph]
        /\ g.pending \in BOOLEAN /\ g.cache \in XferOrNone /\ g.dph \in BOOLEAN
    BY <1>1, <1>3, <1>4
  <2>2. g.pending => g.cache \in Xfers
    BY <1>1, <1>4, <1>7, <1>8, <1>9 DEF XferOrNone
  <2> QED BY <2>1, <2>2 DEF Mif
<1>11. Holds(g, n)
  <2>1. n # None <=> g.pending \/ g.dph
    BY <1>1, <1>2, <1>4, <1>6, <1>7, <1>8, <1>9
  <2>2. ~(g.pending /\ g.dph)
    BY <1>1, <1>2, <1>4, <1>6, <1>7, <1>8, <1>9
  <2>3. g.pending => g.cache = n
    BY <1>1, <1>2, <1>4, <1>6, <1>7, <1>8, <1>9
  <2> QED BY <2>1, <2>2, <2>3 DEF Holds
<1>12. (valid \/ f.pending) /\ eff => m_aph(f, a) = n /\ n \in Xfers
  BY <1>1, <1>2, <1>8, <1>9 DEF m_aph, XferOrNone
<1>13. f.dph /\ ~ready => n = d
  BY <1>1, <1>2, <1>9
<1> QED
  BY <1>5, <1>7, <1>10, <1>11, <1>12, <1>13 DEF g, eff, Follows

----------------------------------------------------------------------------
(* The first level: the bus of each side.                                  *)
SideHolds ==
  /\ \A m \in NXM : mif[m].dph => SideDp("nx") = dp[m] /\ dp[m] # None
  /\ (\A m \in NXM : ~mif[m].dph) => SideDp("nx") = None
  /\ SideDp("x") = dp[XM]

LEMMA SideHoldsIs == OneDataPhase /\ Tracked => SideHolds
BY DEF SideHolds, SideDp, OneDataPhase, Tracked, Holds

LEMMA Types ==
  ASSUME TypeOK, NEW m \in Managers
  PROVE  /\ aph[m] \in XferOrNone /\ dp[m] \in XferOrNone
         /\ m \in NXM => mif[m] \in Mif
         /\ m_aph_valid(m) \in BOOLEAN
         /\ \A side : hreadyout(side) \in BOOLEAN
BY DEF TypeOK, m_aph_valid, hreadyout

(* The bus of the non-executable side presents the transfer of at most one *)
(* manager, which is then in its data phase with it.                       *)
LEMMA ManagerStep ==
  ASSUME TypeOK, Tracked, NEW g \in Grants, ManagerEdge, mif' = ManagerMux(g),
         NEW m \in NXM
  PROVE  /\ mif'[m] \in Mif /\ Holds(mif'[m], dp'[m])
         /\ mif'[m].dph <=> m \in BusAphs(g) \/ (mif[m].dph /\ ~hreadyout("nx"))
         /\ mif[m].dph /\ ~hreadyout("nx") => dp'[m] = dp[m]
         /\ m \in BusAphs(g) => /\ m_aph(mif[m], aph[m]) = dp'[m]
                                /\ dp'[m] \in Xfers /\ hreadyout("nx")
<1> DEFINE valid == m_aph_valid(m)
           ready == hreadyout("nx")
           grant == m \in g
           n     == dp'[m]
           f     == mif[m]
           a     == aph[m]
           d     == dp[m]
<1>1. m \in Managers /\ m # XM
  BY DEF Managers
<1>2. /\ a \in XferOrNone /\ d \in XferOrNone /\ f \in Mif /\ Holds(f, d)
      /\ valid \in BOOLEAN /\ ready \in BOOLEAN /\ grant \in BOOLEAN
  BY <1>1, Types DEF Tracked
<1>3. m_hready(m) = m_hreadyout(f, ready)
  BY <1>1 DEF m_hready
<1>4. valid = (m_hready(m) /\ a # None)
  BY DEF m_aph_valid
<1>5. n = IF m_hready(m) THEN a ELSE d
  BY <1>1 DEF ManagerEdge
<1>6. mif'[m] = MifNext(f, a, valid, grant, ready)
  BY DEF ManagerMux
<1>7. m \in BusAphs(g) <=> m_aph_granted(f, valid, grant, ready)
  BY DEF BusAphs, m_aph_granted, m_grant_eff
<1> HIDE DEF valid, ready, grant, n, f, a, d
<1>8. Offered(f, d, a, valid, ready, n)
  BY <1>2, <1>3, <1>4, <1>5 DEF Offered
<1>9. Follows(f, d, a, valid, grant, ready, n)
  BY <1>2, <1>8, InterfaceStep
<1> QED BY <1>6, <1>7, <1>9 DEF Follows, ready, grant, n, f, a, d

LEMMA BusFacts ==
  ASSUME NEW g \in Grants
  PROVE  /\ BusAphs(g) \subseteq NXM
         /\ \A m, n \in BusAphs(g) : m = n
         /\ BusAphs(g) = {} => BusAph("nx", g) = None
         /\ \A m \in BusAphs(g) : BusAph("nx", g) = m_aph(mif[m], aph[m])
         /\ BusAph("x", g) = aph[XM]
<1>1. BusAphs(g) \subseteq NXM /\ \A m, n \in BusAphs(g) : m = n
  BY DEF BusAphs, Grants, Requesting
<1>2. BusAphs(g) = {} => BusAph("nx", g) = None
  BY DEF BusAph
<1>3. ASSUME NEW m \in BusAphs(g)
      PROVE  BusAph("nx", g) = m_aph(mif[m], aph[m])
  <2>1. BusAphs(g) = {m}
    BY <1>1, <1>3
  <2>2. (CHOOSE n \in BusAphs(g) : TRUE) = m
    BY <2>1
  <2> QED BY <2>1, <2>2 DEF BusAph
<1> QED BY <1>1, <1>2, <1>3 DEF BusAph

(* The data phase of a bus that is ready is over, and what the bus         *)
(* presents is its next.                                                   *)
LEMMA SideStep ==
  ASSUME TypeOK, OwnTransfers, OneDataPhase, Tracked, NEW g \in Grants, ManagerEdge,
         mif' = ManagerMux(g)
  PROVE  /\ OwnTransfers' /\ OneDataPhase' /\ Tracked'
         /\ \A side \in Sides :
              /\ SideDp(side) \in XferOrNone /\ BusAph(side, g) \in XferOrNone
              /\ (SideDp(side))' = IF hreadyout(side) THEN BusAph(side, g) ELSE SideDp(side)
<1>1. \A m \in NXM :
        /\ mif'[m] \in Mif /\ Holds(mif'[m], dp'[m])
        /\ mif'[m].dph <=> m \in BusAphs(g) \/ (mif[m].dph /\ ~hreadyout("nx"))
        /\ mif[m].dph /\ ~hreadyout("nx") => dp'[m] = dp[m]
        /\ m \in BusAphs(g) => /\ m_aph(mif[m], aph[m]) = dp'[m]
                               /\ dp'[m] \in Xfers /\ hreadyout("nx")
  BY ManagerStep
<1>2. /\ BusAphs(g) \subseteq NXM
      /\ \A m, n \in BusAphs(g) : m = n
      /\ BusAphs(g) = {} => BusAph("nx", g) = None
      /\ \A m \in BusAphs(g) : BusAph("nx", g) = m_aph(mif[m], aph[m])
      /\ BusAph("x", g) = aph[XM]
  BY BusFacts
<1>3. XM \in Managers /\ \A m \in NXM : m \in Managers
  BY DEF Managers
<1>4. \A m \in Managers : aph[m] \in XferOrNone /\ dp[m] \in XferOrNone
  BY Types
<1>5. OwnTransfers'
  <2>1. \A m \in Managers : aph'[m] \in XfersOf(m) \cup {None}
    BY DEF ManagerEdge, Offers
  <2>2. \A m \in Managers : dp'[m] \in {aph[m], dp[m]}
    BY DEF ManagerEdge
  <2> QED BY <2>1, <2>2 DEF OwnTransfers, XfersOf
<1>6. Tracked'
  BY <1>1 DEF Tracked, Holds
<1>7. OneDataPhase'
  BY <1>1, <1>2 DEF OneDataPhase
<1>8. SideHolds /\ SideHolds'
  BY <1>6, <1>7, SideHoldsIs, PTL
<1>9. /\ SideDp("x") \in XferOrNone /\ BusAph("x", g) \in XferOrNone
      /\ (SideDp("x"))' = IF hreadyout("x") THEN BusAph("x", g) ELSE SideDp("x")
  <2>1. (SideDp("x"))' = dp'[XM] /\ SideDp("x") = dp[XM]
    BY DEF SideDp
  <2>2. dp'[XM] = IF hreadyout("x") THEN aph[XM] ELSE dp[XM]
    BY <1>3 DEF ManagerEdge, m_hready
  <2> QED BY <1>2, <1>3, <1>4, <2>1, <2>2
<1>10. SideDp("nx") \in XferOrNone /\ BusAph("nx", g) \in XferOrNone
  <2>1. SideDp("nx") \in XferOrNone
    BY <1>3, <1>4, <1>8 DEF SideHolds, XferOrNone
  <2>2. BusAph("nx", g) \in XferOrNone
    BY <1>1, <1>2 DEF XferOrNone
  <2> QED BY <2>1, <2>2
<1>11. (SideDp("nx"))' = IF hreadyout("nx") THEN BusAph("nx", g) ELSE SideDp("nx")
  <2>1. PICK d : d = (SideDp("nx"))'
    OBVIOUS
  <2>2. /\ \A m \in NXM : mif'[m].dph => d = dp'[m]
        /\ (\A m \in NXM : ~mif'[m].dph) => d = None
    BY <1>8, <2>1 DEF SideHolds
  <2>3. CASE BusAphs(g) # {}
    BY <1>1, <1>2, <2>1, <2>2, <2>3
  <2>4. CASE BusAphs(g) = {} /\ hreadyout("nx")
    BY <1>1, <1>2, <2>1, <2>2, <2>4
  <2>5. CASE BusAphs(g) = {} /\ ~hreadyout("nx")
    <3>1. \A m \in NXM : (mif'[m].dph <=> mif[m].dph) /\ (mif[m].dph => dp'[m] = dp[m])
      BY <1>1, <2>5
    <3>2. /\ \A m \in NXM : mif[m].dph => SideDp("nx") = dp[m]
          /\ (\A m \in NXM : ~mif[m].dph) => SideDp("nx") = None
      BY <1>8 DEF SideHolds
    <3> QED BY <2>1, <2>2, <2>5, <3>1, <3>2
  <2> QED BY <2>3, <2>4, <2>5
<1> QED BY <1>5, <1>6, <1>7, <1>9, <1>10, <1>11 DEF Sides

----------------------------------------------------------------------------
(* The second level: the channels of an executable subordinate.            *)
Bus(g) == [x |-> BusAph("x", g), nx |-> BusAph("nx", g)]

LEMMA ReadyOfTarget ==
  ASSUME Routed, NEW side \in Sides, SideDp(side) # None
  PROVE  hreadyout(side) <=> TargetReady(side, Decoded(side, SideDp(side)))
BY DEF Routed, hreadyout

LEMMA HeldIs ==
  ASSUME NEW side \in Sides, NEW t
  PROVE  /\ Held(side, t) # None => /\ Held(side, t) = SideDp(side) /\ SideDp(side) # None
                                    /\ Decoded(side, SideDp(side)) = t
         /\ Held(side, t) = None => SideDp(side) = None \/ Decoded(side, SideDp(side)) # t
BY DEF Held, Selects

LEMMA HeldStep ==
  ASSUME TypeOK, OwnTransfers, OneDataPhase, Tracked, NEW g \in Grants, ManagerEdge,
         mif' = ManagerMux(g), NEW side \in Sides, NEW t
  PROVE  /\ Held(side, t) \in XferOrNone
         /\ (Held(side, t))' =
              IF hreadyout(side)
              THEN IF Selects(side, BusAph(side, g), t) THEN BusAph(side, g) ELSE None
              ELSE Held(side, t)
<1>1. /\ SideDp(side) \in XferOrNone /\ BusAph(side, g) \in XferOrNone
      /\ (SideDp(side))' = IF hreadyout(side) THEN BusAph(side, g) ELSE SideDp(side)
  BY SideStep
<1>2. Held(side, t) \in XferOrNone
  BY <1>1 DEF Held, XferOrNone
<1>3. (Held(side, t))' = IF Selects(side, (SideDp(side))', t) THEN (SideDp(side))' ELSE None
  BY DEF Held, Selects, Decoded
<1>4. CASE hreadyout(side)
  BY <1>1, <1>2, <1>3, <1>4
<1>5. CASE ~hreadyout(side)
  BY <1>1, <1>2, <1>3, <1>5 DEF Held
<1> QED BY <1>4, <1>5

LEMMA GrantIs ==
  ASSUME NEW s, NEW bus
  PROVE  Grant(s, bus) \subseteq Sides /\ \A a, b \in Grant(s, bus) : a = b
BY DEF Grant, Arbitrate, Sides

LEMMA ChannelStep ==
  ASSUME TypeOK, OwnTransfers, OneDataPhase, Tracked, Routed, Carried,
         NEW g \in Grants, ManagerEdge, mif' = ManagerMux(g), chan' = Channels(Bus(g)),
         NEW s \in XSubs, NEW side \in Sides
  PROVE  /\ chan'[s][side] \in Mif /\ Holds(chan'[s][side], (Held(side, s))')
         /\ chan'[s][side].dph <=> \/ side \in ChannelAphs(s, Bus(g))
                                   \/ chan[s][side].dph /\ ~s_hreadyout(sub[s])
         /\ chan[s][side].dph /\ ~s_hreadyout(sub[s]) => (Held(side, s))' = Held(side, s)
         /\ side \in ChannelAphs(s, Bus(g)) =>
              /\ m_aph(chan[s][side], Bus(g)[side]) = (Held(side, s))'
              /\ (Held(side, s))' \in Xfers /\ s_hreadyout(sub[s])
<1> DEFINE f     == chan[s][side]
           d     == Held(side, s)
           a     == Bus(g)[side]
           valid == aph_valid_x(s, side, Bus(g))
           grant == side \in Grant(s, Bus(g))
           ready == s_hreadyout(sub[s])
           n     == (Held(side, s))'
<1>1. a = BusAph(side, g)
  BY DEF Bus, Sides
<1>2. /\ f \in Mif /\ f.pending \in BOOLEAN /\ f.dph \in BOOLEAN
      /\ ready \in BOOLEAN /\ grant \in BOOLEAN
  BY DEF TypeOK, s_hreadyout, Mif
<1>3. a \in XferOrNone /\ d \in XferOrNone
  BY <1>1, SideStep, HeldStep
<1>4. Holds(f, d)
  BY DEF Carried
<1>5. /\ valid = (Selects(side, a, s) /\ hreadyout(side))
      /\ valid \in BOOLEAN
  BY Types DEF aph_valid_x, Selects
<1>6. n = IF hreadyout(side) THEN IF Selects(side, a, s) THEN a ELSE None ELSE d
  BY <1>1, HeldStep
<1>7. chan'[s][side] = MifNext(f, a, valid, grant, ready)
  BY DEF Channels
<1>8. side \in ChannelAphs(s, Bus(g)) <=> m_aph_granted(f, valid, grant, ready)
  BY GrantIs DEF ChannelAphs, m_aph_granted, m_grant_eff
<1>9. d # None => (hreadyout(side) <=> m_hreadyout(f, ready))
  <2> SUFFICES ASSUME d # None PROVE hreadyout(side) <=> m_hreadyout(f, ready)
    OBVIOUS
  <2>1. SideDp(side) # None /\ Decoded(side, SideDp(side)) = s
    BY HeldIs
  <2>2. hreadyout(side) <=> TargetReady(side, s)
    BY <2>1, ReadyOfTarget
  <2> QED BY <2>2 DEF TargetReady
<1>10. d = None => m_hreadyout(f, ready)
  BY <1>2, <1>4 DEF Holds, m_hreadyout
<1>11. hreadyout(side) \in BOOLEAN /\ m_hreadyout(f, ready) \in BOOLEAN
  BY <1>2 DEF hreadyout, m_hreadyout
<1>12. valid => a # None
  BY <1>5 DEF Selects
<1> HIDE DEF f, d, a, valid, grant, ready, n
<1>13. valid => m_hreadyout(f, ready)
  BY <1>5, <1>9, <1>10
<1>14. n = IF m_hreadyout(f, ready) THEN (IF valid THEN a ELSE None) ELSE d
  BY <1>5, <1>6, <1>9, <1>10, <1>11
<1>15. Offered(f, d, a, valid, ready, n)
  BY <1>4, <1>12, <1>13, <1>14 DEF Offered
<1>16. /\ f \in Mif /\ d \in XferOrNone /\ a \in XferOrNone
       /\ valid \in BOOLEAN /\ grant \in BOOLEAN /\ ready \in BOOLEAN
  BY <1>2, <1>3, <1>5
<1>17. Follows(f, d, a, valid, grant, ready, n)
  BY <1>15, <1>16, InterfaceStep
<1> QED BY <1>7, <1>8, <1>17 DEF Follows, f, d, a, valid, grant, ready, n

(* A subordinate that is ready samples what it is presented; one that is   *)
(* not goes on with what it executes.                                      *)
LEMMA SubStep ==
  ASSUME NEW u \in Sub, NEW x \in XferOrNone, NEW ready \in BOOLEAN, NEW reply \in Replies
  PROVE  /\ SubNext(u, x, ready, reply) \in Sub
         /\ ready => /\ SubNext(u, x, ready, reply).dp = x
                     /\ x = None => SubNext(u, x, ready, reply) = SubReset
         /\ ~ready => /\ SubNext(u, x, ready, reply).dp = u.dp
                      /\ u = SubReset => SubNext(u, x, ready, reply) = SubReset
<1>1. /\ u = [dp |-> u.dp, wait |-> u.wait, resp |-> u.resp]
      /\ u.dp \in XferOrNone /\ u.wait \in 0 .. MAX_WAIT
      /\ u.resp \in {"okay", "err1", "err2"} /\ (u.resp = "err2" => u.wait = 0)
  BY DEF Sub
<1>2. reply.wait \in 0 .. MAX_WAIT /\ reply.resp \in {"okay", "err1"}
  BY DEF Replies
<1>3. SubReset \in Sub
  BY DEF SubReset, Sub, XferOrNone
<1>4. CASE ready /\ x = None
  BY <1>3, <1>4 DEF SubNext, SubReset
<1>5. CASE ready /\ x # None
  BY <1>2, <1>5 DEF SubNext, Sub
<1>6. CASE ~ready /\ u.wait > 0
  <2>1. SubNext(u, x, ready, reply) = [dp |-> u.dp, wait |-> u.wait - 1, resp |-> u.resp]
    BY <1>1, <1>6 DEF SubNext
  <2>2. u.wait - 1 \in 0 .. MAX_WAIT /\ u.resp # "err2"
    BY <1>1, <1>6
  <2> QED BY <1>1, <1>6, <2>1, <2>2 DEF Sub, SubReset
<1>7. CASE ~ready /\ ~(u.wait > 0) /\ u.resp = "err1"
  <2>1. SubNext(u, x, ready, reply) = [dp |-> u.dp, wait |-> u.wait, resp |-> "err2"]
    BY <1>1, <1>7 DEF SubNext
  <2>2. u.wait = 0
    BY <1>1, <1>7
  <2> QED BY <1>1, <1>7, <2>1, <2>2 DEF Sub, SubReset
<1>8. CASE ~ready /\ ~(u.wait > 0) /\ u.resp # "err1"
  BY <1>8 DEF SubNext
<1> QED BY <1>4, <1>5, <1>6, <1>7, <1>8

----------------------------------------------------------------------------
(* What an edge keeps.                                                     *)
Fabric(g) ==
  /\ ManagerEdge /\ mif' = ManagerMux(g) /\ hsel_latched' = SubordinateMux(Bus(g))
  /\ dflt' = DefaultSub(Bus(g)) /\ chan' = Channels(Bus(g)) /\ toggle' = Toggles(Bus(g))
  /\ Subordinates(Bus(g))

LEMMA EdgeIs ==
  ASSUME NEW g, HclkEdge(g)
  PROVE  Fabric(g)
BY DEF HclkEdge, Fabric, Bus

(* An executable subordinate is presented what the granted channel has.    *)
LEMMA SubAphIs ==
  ASSUME IInv, NEW g \in Grants, Fabric(g), NEW s \in XSubs
  PROVE  /\ ChannelAphs(s, Bus(g)) = {} => SubAph(s, Bus(g)) = None
         /\ \A side \in ChannelAphs(s, Bus(g)) :
              /\ side \in Sides /\ s_hreadyout(sub[s])
              /\ SubAph(s, Bus(g)) = (Held(side, s))' /\ (Held(side, s))' \in Xfers
         /\ \A a, b \in ChannelAphs(s, Bus(g)) : a = b
<1>1. s \notin NXSubs
  BY DEF Subs
<1>2. /\ ChannelAphs(s, Bus(g)) \subseteq Sides
      /\ \A a, b \in ChannelAphs(s, Bus(g)) : a = b
  BY GrantIs DEF ChannelAphs
<1>3. ASSUME NEW side \in ChannelAphs(s, Bus(g))
      PROVE  /\ s_hreadyout(sub[s]) /\ (Held(side, s))' \in Xfers
             /\ SubAph(s, Bus(g)) = (Held(side, s))'
  <2>1. (CHOOSE c \in ChannelAphs(s, Bus(g)) : TRUE) = side
    BY <1>2, <1>3
  <2>2. SubAph(s, Bus(g)) = m_aph(chan[s][side], Bus(g)[side])
    BY <1>1, <1>3, <2>1 DEF SubAph
  <2>3. side \in Sides
    BY <1>2, <1>3
  <2> QED BY <1>3, <2>2, <2>3, ChannelStep DEF IInv, Fabric
<1>4. ChannelAphs(s, Bus(g)) = {} => SubAph(s, Bus(g)) = None
  BY <1>1 DEF SubAph
<1> QED BY <1>2, <1>3, <1>4

LEMMA SubsStep ==
  ASSUME IInv, NEW g \in Grants, Fabric(g), NEW s \in Subs
  PROVE  /\ SubReady(s) \in BOOLEAN /\ SubAph(s, Bus(g)) \in XferOrNone
         /\ sub'[s] \in Sub
         /\ SubReady(s) => /\ sub'[s].dp = SubAph(s, Bus(g))
                           /\ SubAph(s, Bus(g)) = None => sub'[s] = SubReset
         /\ ~SubReady(s) => /\ sub'[s].dp = sub[s].dp
                            /\ sub[s] = SubReset => sub'[s] = SubReset
<1>1. /\ SubReady(s) \in BOOLEAN /\ sub[s] \in Sub
  BY DEF IInv, TypeOK, SubReady, s_hreadyout, hreadyout
<1>2. SubAph(s, Bus(g)) \in XferOrNone
  <2>1. CASE s \in NXSubs
    <3>1. BusAph("nx", g) \in XferOrNone
      BY SideStep DEF IInv, Fabric, Sides
    <3>2. Bus(g)["nx"] = BusAph("nx", g)
      BY DEF Bus
    <3> QED BY <2>1, <3>1, <3>2 DEF SubAph, XferOrNone
  <2>2. CASE s \in XSubs
    <3>1. CASE ChannelAphs(s, Bus(g)) = {}
      BY <2>2, <3>1, SubAphIs DEF XferOrNone
    <3>2. CASE ChannelAphs(s, Bus(g)) # {}
      <4>1. PICK side \in ChannelAphs(s, Bus(g)) : TRUE
        BY <3>2
      <4> QED BY <2>2, <4>1, SubAphIs DEF XferOrNone
    <3> QED BY <3>1, <3>2
  <2> QED BY <2>1, <2>2 DEF Subs
<1>3. PICK r \in Replies : sub'[s] = SubNext(sub[s], SubAph(s, Bus(g)), SubReady(s), r)
  <2>1. PICK reply \in [{t \in Subs : SubReady(t) /\ SubAph(t, Bus(g)) # None} -> Replies] :
          sub' = [t \in Subs |->
                    SubNext(sub[t], SubAph(t, Bus(g)), SubReady(t),
                            IF t \in DOMAIN reply THEN reply[t] ELSE [wait |-> 0, resp |-> "okay"])]
    BY DEF Fabric, Subordinates
  <2>2. [wait |-> 0, resp |-> "okay"] \in Replies
    BY DEF Replies
  <2>3. (IF s \in DOMAIN reply THEN reply[s] ELSE [wait |-> 0, resp |-> "okay"]) \in Replies
    BY <2>1, <2>2
  <2> QED BY <2>1, <2>3
<1> QED BY <1>1, <1>2, <1>3, SubStep

LEMMA DefaultStalls ==
  ASSUME TypeOK, Routed, Denied, NEW side \in Sides
  PROVE  /\ dflt[side].p0 => ~hreadyout(side)
         /\ dflt[side].p1 => hreadyout(side)
<1>1. dflt[side].p0 \in BOOLEAN /\ dflt[side].p1 \in BOOLEAN
  BY DEF TypeOK, Dflt
<1>2. DfltOf(side) \notin XSubs /\ DfltOf(side) \notin NXSubs
  BY DEF DfltOf, Subs
<1>3. TargetReady(side, DfltOf(side)) <=> ~dflt[side].p0
  BY <1>2 DEF TargetReady, dflt_hreadyout
<1>4. dflt[side].p0 \/ dflt[side].p1 =>
        SideDp(side) # None /\ Decoded(side, SideDp(side)) = DfltOf(side)
  BY DEF Denied, Selects
<1>5. dflt[side].p0 \/ dflt[side].p1 => (hreadyout(side) <=> ~dflt[side].p0)
  BY <1>3, <1>4, ReadyOfTarget
<1>6. ~(dflt[side].p0 /\ dflt[side].p1)
  BY DEF Denied
<1> QED BY <1>1, <1>5, <1>6

LEMMA FabricTypes ==
  ASSUME IInv, NEW g \in Grants, Fabric(g)
  PROVE  TypeOK'
<1>1. aph' \in [Managers -> XferOrNone]
  BY DEF Fabric, ManagerEdge, Offers
<1>2. dp' \in [Managers -> XferOrNone]
  BY Types DEF Fabric, ManagerEdge, IInv
<1>3. mif' \in [NXM -> Mif]
  <2>1. \A m \in NXM : mif'[m] \in Mif
    BY ManagerStep DEF Fabric, IInv
  <2> QED BY <2>1 DEF Fabric, ManagerMux
<1>4. ASSUME NEW side \in Sides, NEW x PROVE Decoded(side, x) \in Targets
  BY DEF Decoded, Targets, Subs, Sides
<1>5. hsel_latched' \in [Sides -> SUBSET Targets]
  <2>1. hsel_latched \in [Sides -> SUBSET Targets]
    BY DEF IInv, TypeOK
  <2> QED BY <1>4, <2>1 DEF Fabric, SubordinateMux
<1>6. dflt' \in [Sides -> Dflt]
  <2>1. \A side \in Sides : dflt[side].p0 \in BOOLEAN
    BY DEF IInv, TypeOK, Dflt
  <2>2. \A side \in Sides, p \in BOOLEAN : DfltNext(dflt[side], p) \in Dflt
    BY <2>1 DEF DfltNext, Dflt
  <2>3. \A side \in Sides :
          (/\ Selects(side, Bus(g)[side], IF side = "x" THEN DFLT_X ELSE DFLT_NX)
           /\ hreadyout(side)) \in BOOLEAN
    OBVIOUS
  <2> QED BY <2>2, <2>3 DEF Fabric, DefaultSub
<1>7. chan' \in [XSubs -> [Sides -> Mif]]
  <2>1. \A s \in XSubs, side \in Sides : chan'[s][side] \in Mif
    BY ChannelStep DEF Fabric, IInv
  <2> QED BY <2>1 DEF Fabric, Channels
<1>8. toggle' \in [XSubs -> BOOLEAN]
  <2>1. ASSUME NEW s \in XSubs
        PROVE  (IF Grant(s, Bus(g)) = {} THEN toggle[s] ELSE "x" \in Grant(s, Bus(g)))
                 \in BOOLEAN
    <3>1. toggle[s] \in BOOLEAN
      BY DEF IInv, TypeOK
    <3>2. ("x" \in Grant(s, Bus(g))) \in BOOLEAN
      OBVIOUS
    <3> QED BY <3>1, <3>2, Zenon
  <2> QED BY <2>1 DEF Fabric, Toggles
<1>9. sub' \in [Subs -> Sub]
  <2>1. \A s \in Subs : sub'[s] \in Sub
    BY SubsStep
  <2>2. DOMAIN sub' = Subs /\ sub' = [s \in Subs |-> sub'[s]]
    BY DEF Fabric, Subordinates
  <2> QED BY <2>1, <2>2
<1> QED BY <1>1, <1>2, <1>3, <1>5, <1>6, <1>7, <1>8, <1>9 DEF TypeOK

LEMMA FabricSides ==
  ASSUME IInv, NEW g \in Grants, Fabric(g)
  PROVE  /\ OwnTransfers' /\ OneDataPhase' /\ Tracked'
         /\ \A side \in Sides :
              /\ Bus(g)[side] = BusAph(side, g)
              /\ SideDp(side) \in XferOrNone /\ Bus(g)[side] \in XferOrNone
              /\ (SideDp(side))' = IF hreadyout(side) THEN Bus(g)[side] ELSE SideDp(side)
<1>1. \A side \in Sides : Bus(g)[side] = BusAph(side, g)
  BY DEF Bus, Sides
<1> QED BY <1>1, SideStep DEF IInv, Fabric

LEMMA RoutedStep ==
  ASSUME IInv, NEW g \in Grants, Fabric(g)
  PROVE  Routed'
<1> SUFFICES ASSUME NEW side \in Sides, (SideDp(side))' # None
             PROVE  hsel_latched'[side] = {Decoded(side, (SideDp(side))')}
  BY DEF Routed, Decoded
<1>1. (SideDp(side))' = IF hreadyout(side) THEN Bus(g)[side] ELSE SideDp(side)
  BY FabricSides
<1>2. hsel_latched'[side] = IF Bus(g)[side] # None /\ hreadyout(side)
                            THEN {Decoded(side, Bus(g)[side])} ELSE hsel_latched[side]
  BY DEF Fabric, SubordinateMux
<1>3. SideDp(side) # None => hsel_latched[side] = {Decoded(side, SideDp(side))}
  BY DEF IInv, Routed
<1>4. CASE hreadyout(side)
  BY <1>1, <1>2, <1>4
<1>5. CASE ~hreadyout(side)
  BY <1>1, <1>2, <1>3, <1>5
<1> QED BY <1>4, <1>5

LEMMA CarriedStep ==
  ASSUME IInv, NEW g \in Grants, Fabric(g)
  PROVE  Carried'
<1> SUFFICES ASSUME NEW s \in XSubs
             PROVE  /\ \A side \in Sides : Holds(chan'[s][side], (Held(side, s))')
                    /\ ~(chan'[s]["x"].dph /\ chan'[s]["nx"].dph)
  BY DEF Carried, Holds
<1>1. \A side \in Sides :
        /\ Holds(chan'[s][side], (Held(side, s))')
        /\ chan'[s][side].dph <=> \/ side \in ChannelAphs(s, Bus(g))
                                  \/ chan[s][side].dph /\ ~s_hreadyout(sub[s])
        /\ side \in ChannelAphs(s, Bus(g)) => s_hreadyout(sub[s])
  BY ChannelStep DEF IInv, Fabric
<1>2. ~(chan[s]["x"].dph /\ chan[s]["nx"].dph)
  BY DEF IInv, Carried
<1>3. \A a, b \in ChannelAphs(s, Bus(g)) : a = b
  BY SubAphIs
<1>4. "x" \in Sides /\ "nx" \in Sides /\ "x" # "nx"
  BY DEF Sides
<1> QED BY <1>1, <1>2, <1>3, <1>4

(* A subordinate goes on with its transfer as long as its channel or its   *)
(* bus does, and takes the next one in the cycle that ends it.             *)
LEMMA ExecutingStep ==
  ASSUME IInv, NEW g \in Grants, Fabric(g)
  PROVE  Executing'
<1>1. ASSUME NEW s \in NXSubs
      PROVE  sub'[s].dp = (Held("nx", s))'
  <2>1. s \in Subs /\ SubReady(s) = hreadyout("nx")
    BY DEF Subs, SubReady
  <2>2. SubAph(s, Bus(g)) = IF Selects("nx", Bus(g)["nx"], s) THEN Bus(g)["nx"] ELSE None
    BY DEF SubAph
  <2>3. (Held("nx", s))' = IF hreadyout("nx")
                           THEN IF Selects("nx", Bus(g)["nx"], s) THEN Bus(g)["nx"] ELSE None
                           ELSE Held("nx", s)
    BY HeldStep, FabricSides DEF IInv, Fabric, Sides
  <2>4. sub[s].dp = Held("nx", s)
    BY DEF IInv, Executing
  <2>5. /\ hreadyout("nx") \in BOOLEAN
        /\ hreadyout("nx") => sub'[s].dp = SubAph(s, Bus(g))
        /\ ~hreadyout("nx") => sub'[s].dp = sub[s].dp
    BY <2>1, SubsStep
  <2> QED BY <2>2, <2>3, <2>4, <2>5
<1>2. ASSUME NEW s \in XSubs
      PROVE  sub'[s].dp = IF chan'[s]["x"].dph THEN (SideDp("x"))'
                          ELSE IF chan'[s]["nx"].dph THEN (SideDp("nx"))' ELSE None
  <2> DEFINE A == ChannelAphs(s, Bus(g))
             dp2 == sub'[s].dp
  <2>1. s \in Subs /\ SubReady(s) = s_hreadyout(sub[s])
    BY DEF Subs, SubReady
  <2>2. /\ s_hreadyout(sub[s]) \in BOOLEAN
        /\ s_hreadyout(sub[s]) => dp2 = SubAph(s, Bus(g))
        /\ ~s_hreadyout(sub[s]) => dp2 = sub[s].dp
    BY <2>1, SubsStep
  <2>3. \A side \in Sides :
          /\ chan'[s][side].dph <=> side \in A \/ (chan[s][side].dph /\ ~s_hreadyout(sub[s]))
          /\ chan[s][side].dph /\ ~s_hreadyout(sub[s]) => (Held(side, s))' = Held(side, s)
          /\ side \in A => (Held(side, s))' \in Xfers
    BY ChannelStep DEF IInv, Fabric
  <2>4. /\ A = {} => SubAph(s, Bus(g)) = None
        /\ \A side \in A : /\ side \in Sides /\ s_hreadyout(sub[s])
                           /\ SubAph(s, Bus(g)) = (Held(side, s))'
        /\ \A a, b \in A : a = b
    BY SubAphIs
  <2>5. \A side \in Sides :
          (Held(side, s))' # None => (Held(side, s))' = (SideDp(side))'
    BY DEF Held
  <2>6. \A side \in Sides :
          chan[s][side].dph => Held(side, s) = SideDp(side) /\ Held(side, s) # None
    BY DEF IInv, Carried, Holds, Held
  <2>7. "x" \in Sides /\ "nx" \in Sides /\ "x" # "nx"
    BY DEF Sides
  <2>8. /\ sub[s].dp = IF chan[s]["x"].dph THEN SideDp("x")
                       ELSE IF chan[s]["nx"].dph THEN SideDp("nx") ELSE None
    BY DEF IInv, Executing
  <2> HIDE DEF A, dp2
  <2>9. CASE A # {}
    <3>1. PICK side \in A : side \in Sides
      BY <2>4, <2>9
    <3>2. \A c \in Sides : chan'[s][c].dph <=> c = side
      BY <2>3, <2>4, <3>1
    <3>3. dp2 = (SideDp(side))'
      BY <2>2, <2>3, <2>4, <2>5, <3>1
    <3>4. side = "x" \/ side = "nx"
      BY <3>1 DEF Sides
    <3> QED BY <2>7, <3>2, <3>3, <3>4 DEF dp2
  <2>10. CASE A = {} /\ s_hreadyout(sub[s])
    <3>1. ~chan'[s]["x"].dph /\ ~chan'[s]["nx"].dph
      BY <2>3, <2>7, <2>10
    <3> QED BY <2>2, <2>4, <2>10, <3>1 DEF dp2
  <2>11. CASE ~s_hreadyout(sub[s])
    <3>1. \A c \in Sides : /\ chan'[s][c].dph <=> chan[s][c].dph
                           /\ chan[s][c].dph => (SideDp(c))' = SideDp(c)
      BY <2>3, <2>4, <2>5, <2>6, <2>11
    <3>2. dp2 = sub[s].dp
      BY <2>2, <2>11
    <3> QED BY <2>7, <2>8, <3>1, <3>2 DEF dp2
  <2> QED BY <2>2, <2>9, <2>10, <2>11
<1>3. ASSUME NEW s \in Subs, sub'[s].dp = None
      PROVE  sub'[s] = SubReset
  <2>1. sub[s].dp = None => sub[s] = SubReset
    BY DEF IInv, Executing
  <2> QED BY <1>3, <2>1, SubsStep
<1> QED BY <1>1, <1>2, <1>3 DEF Executing

LEMMA DeniedStep ==
  ASSUME IInv, NEW g \in Grants, Fabric(g)
  PROVE  Denied'
<1> SUFFICES ASSUME NEW side \in Sides
             PROVE  /\ dflt'[side].p0 \/ dflt'[side].p1
                         <=> Selects(side, (SideDp(side))', DfltOf(side))
                    /\ ~(dflt'[side].p0 /\ dflt'[side].p1)
  BY DEF Denied, Selects, Decoded
<1> DEFINE p == Selects(side, Bus(g)[side], DfltOf(side)) /\ hreadyout(side)
<1>1. dflt'[side].p0 = p /\ dflt'[side].p1 = dflt[side].p0
  <2>1. dflt'[side] = DfltNext(dflt[side], p)
    BY DEF Fabric, DefaultSub, DfltOf
  <2> QED BY <2>1 DEF DfltNext
<1>2. dflt[side].p0 \in BOOLEAN /\ dflt[side].p1 \in BOOLEAN
  BY DEF IInv, TypeOK, Dflt
<1>3. /\ dflt[side].p0 => ~hreadyout(side)
      /\ dflt[side].p1 => hreadyout(side)
  BY DefaultStalls DEF IInv
<1>4. dflt[side].p0 \/ dflt[side].p1 <=> Selects(side, SideDp(side), DfltOf(side))
  BY DEF IInv, Denied
<1>5. (SideDp(side))' = IF hreadyout(side) THEN Bus(g)[side] ELSE SideDp(side)
  BY FabricSides
<1>6. PICK d : d = (SideDp(side))'
  OBVIOUS
<1>7. p \in BOOLEAN /\ hreadyout(side) \in BOOLEAN
  BY DEF hreadyout, Selects
<1>8. CASE hreadyout(side)
  <2>1. Selects(side, d, DfltOf(side)) <=> p
    BY <1>5, <1>6, <1>8
  <2>2. ~dflt[side].p0
    BY <1>3, <1>8
  <2> HIDE DEF p
  <2> QED BY <1>1, <1>2, <1>6, <1>7, <2>1, <2>2
<1>9. CASE ~hreadyout(side)
  <2>1. Selects(side, d, DfltOf(side)) <=> dflt[side].p0
    BY <1>2, <1>3, <1>4, <1>5, <1>6, <1>9
  <2>2. ~p
    BY <1>9
  <2> HIDE DEF p
  <2> QED BY <1>1, <1>2, <1>6, <1>7, <2>1, <2>2
<1> QED BY <1>7, <1>8, <1>9

LEMMA InitHolds == Init => IInv
<1> SUFFICES ASSUME Init PROVE IInv
  OBVIOUS
<1>1. TypeOK
  BY DEF Init, TypeOK, Offers, Mif, MifReset, Dflt, DfltReset, Sub, SubReset, XferOrNone, XfersOf
<1>2. /\ \A m \in NXM : mif[m] = MifReset
      /\ \A m \in Managers : dp[m] = None /\ aph[m] \in XfersOf(m) \cup {None}
      /\ \A s \in XSubs, side \in Sides : chan[s][side] = MifReset
      /\ \A s \in Subs : sub[s] = SubReset
      /\ \A side \in Sides : dflt[side] = DfltReset
  BY DEF Init, Offers
<1>3. XM \in Managers /\ NXM \subseteq Managers
  BY DEF Managers
<1>4. \A side : SideDp(side) = None
  BY <1>2, <1>3 DEF SideDp, MifReset
<1>5. \A side, t : Held(side, t) = None
  BY <1>4 DEF Held
<1>6. OwnTransfers /\ OneDataPhase /\ Tracked /\ Routed
  BY <1>2, <1>3, <1>4 DEF OwnTransfers, OneDataPhase, Tracked, Routed, Holds, MifReset
<1>7. Carried
  BY <1>2, <1>5 DEF Carried, Holds, MifReset, Sides
<1>8. Executing
  BY <1>2, <1>5 DEF Executing, MifReset, SubReset, Subs, Sides
<1>9. Denied
  BY <1>2, <1>4 DEF Denied, DfltReset, Selects
<1> QED BY <1>1, <1>6, <1>7, <1>8, <1>9 DEF IInv

(* What the fabric keeps, for any number of managers and subordinates.     *)
THEOREM HiperfInvariant == Spec => []IInv
<1>1. ASSUME IInv, Next PROVE IInv'
  <2>1. PICK g \in Grants : Fabric(g)
    BY <1>1, EdgeIs DEF Next
  <2> QED
    BY <1>1, <2>1, FabricTypes, FabricSides, RoutedStep, CarriedStep, ExecutingStep, DeniedStep
    DEF IInv
<1>2. ASSUME IInv, UNCHANGED vars PROVE IInv'
  <2>1. /\ \A side : (SideDp(side))' = SideDp(side)
        /\ \A side, t : (Held(side, t))' = Held(side, t)
    BY <1>2 DEF vars, SideDp, Held, Selects, Decoded
  <2>2. TypeOK' /\ OwnTransfers' /\ OneDataPhase' /\ Tracked'
    BY <1>2 DEF vars, IInv, TypeOK, OwnTransfers, OneDataPhase, Tracked, Holds
  <2>3. Routed' /\ Denied'
    BY <1>2, <2>1 DEF vars, IInv, Routed, Denied, Selects, Decoded
  <2>4. Carried' /\ Executing'
    BY <1>2, <2>1 DEF vars, IInv, Carried, Executing, Holds
  <2> QED BY <2>2, <2>3, <2>4 DEF IInv
<1> QED BY <1>1, <1>2, InitHolds, PTL DEF Spec

----------------------------------------------------------------------------
(* The clock gate: an interface whose enable is low has nothing and is     *)
(* offered nothing, so that its registers stay as they are.                *)
LEMMA GatedInterface ==
  ASSUME NEW f \in Mif, NEW a, NEW valid \in BOOLEAN, NEW grant, NEW ready,
         ~mif_hclk_en(f, valid)
  PROVE  MifNext(f, a, valid, grant, ready) = f /\ ~m_request(f, valid, ready)
<1>1. /\ f = [pending |-> f.pending, cache |-> f.cache, dph |-> f.dph]
      /\ f.pending \in BOOLEAN /\ f.dph \in BOOLEAN
  BY DEF Mif
<1>2. valid = FALSE /\ f.pending = FALSE /\ f.dph = FALSE
  BY <1>1 DEF mif_hclk_en
<1>3. MifNext(f, a, valid, grant, ready) = [pending |-> FALSE, cache |-> f.cache, dph |-> FALSE]
  BY <1>2 DEF MifNext, m_grant_eff, m_aph_granted
<1> QED BY <1>1, <1>2, <1>3 DEF m_request

LEMMA GateIsSafe == TypeOK => ClockGateSafe
<1> SUFFICES ASSUME TypeOK, NEW g \in Grants, ~hclk_en(g)
             PROVE  /\ ManagerMux(g) = mif /\ SubordinateMux(Bus(g)) = hsel_latched
                    /\ DefaultSub(Bus(g)) = dflt
                    /\ Channels(Bus(g)) = chan /\ Toggles(Bus(g)) = toggle
  BY DEF ClockGateSafe, Bus
<1>1. /\ \A side \in Sides : ~(Bus(g)[side] # None /\ hreadyout(side))
      /\ \A side \in Sides : ~dflt_hresp(dflt[side])
      /\ \A m \in NXM : ~mif_hclk_en(mif[m], m_aph_valid(m))
      /\ \A s \in XSubs, side \in Sides :
           ~mif_hclk_en(chan[s][side], aph_valid_x(s, side, Bus(g)))
  BY DEF hclk_en, Bus
<1>2. ManagerMux(g) = mif
  <2>1. \A m \in NXM : MifNext(mif[m], aph[m], m_aph_valid(m), m \in g, hreadyout("nx")) = mif[m]
    <3> TAKE m \in NXM
    <3>1. mif[m] \in Mif /\ m_aph_valid(m) \in BOOLEAN
      BY Types DEF Managers
    <3> QED BY <1>1, <3>1, GatedInterface
  <2> QED BY <2>1 DEF ManagerMux, TypeOK
<1>3. SubordinateMux(Bus(g)) = hsel_latched
  BY <1>1 DEF SubordinateMux, TypeOK
<1>4. DefaultSub(Bus(g)) = dflt
  <2>1. \A side \in Sides :
          DfltNext(dflt[side], /\ Selects(side, Bus(g)[side], DfltOf(side))
                               /\ hreadyout(side)) = dflt[side]
    <3> TAKE side \in Sides
    <3>1. /\ dflt[side] = [p0 |-> dflt[side].p0, p1 |-> dflt[side].p1]
          /\ dflt[side].p0 \in BOOLEAN /\ dflt[side].p1 \in BOOLEAN
      BY DEF TypeOK, Dflt
    <3>2. dflt[side].p0 = FALSE /\ dflt[side].p1 = FALSE
      BY <1>1, <3>1 DEF dflt_hresp
    <3>3. (Selects(side, Bus(g)[side], DfltOf(side)) /\ hreadyout(side)) = FALSE
      BY <1>1 DEF Selects
    <3> QED BY <3>1, <3>2, <3>3 DEF DfltNext
  <2> QED BY <2>1 DEF DefaultSub, DfltOf, TypeOK
<1>5. ASSUME NEW s \in XSubs, NEW side \in Sides
      PROVE  /\ ~m_request(chan[s][side], aph_valid_x(s, side, Bus(g)), s_hreadyout(sub[s]))
             /\ MifNext(chan[s][side], Bus(g)[side], aph_valid_x(s, side, Bus(g)),
                        side \in Grant(s, Bus(g)), s_hreadyout(sub[s])) = chan[s][side]
  <2>1. chan[s][side] \in Mif /\ aph_valid_x(s, side, Bus(g)) \in BOOLEAN
    BY DEF TypeOK, aph_valid_x, Selects, hreadyout
  <2> QED BY <1>1, <2>1, GatedInterface
<1>6. Channels(Bus(g)) = chan
  BY <1>5 DEF Channels, TypeOK
<1>7. \A s \in XSubs : Grant(s, Bus(g)) = {}
  BY <1>5 DEF Grant, Arbitrate, Requests, Sides
<1>8. Toggles(Bus(g)) = toggle
  BY <1>7 DEF Toggles, TypeOK
<1> QED BY <1>2, <1>3, <1>4, <1>6, <1>8

(* hclk_en_o may drive the clock gate of an interconnect of any size: an   *)
(* edge it would suppress changes no register of the fabric, at either     *)
(* arbitration level.                                                      *)
THEOREM ClockGateAlwaysSafe == Spec => []ClockGateSafe
<1>1. IInv => ClockGateSafe
  BY GateIsSafe DEF IInv
<1> QED BY <1>1, HiperfInvariant, PTL

THEOREM HiperfTypeCorrect == Spec => []TypeOK
<1>1. IInv => TypeOK
  BY DEF IInv
<1> QED BY <1>1, HiperfInvariant, PTL

----------------------------------------------------------------------------
(* What is executed.  A manager drives the data phase of the bus of its    *)
(* side with its transfer; it is executed unless it waits in a channel.    *)
Drives(m) == dp[m] # None /\ (m = XM \/ mif[m].dph)
Exec(m) ==
  Drives(m) /\ (HomeOf(dp[m]) \in XSubs => chan[HomeOf(dp[m])][SideOf(m)].dph)

ExecutedIs(t) ==
  /\ \A m \in Managers : Exec(m) /\ HomeOf(dp[m]) = t => Executed(t) = dp[m]
  /\ Executed(t) # None => \E m \in Managers : Exec(m) /\ HomeOf(dp[m]) = t

LEMMA Sorted ==
  ASSUME NEW m \in Managers, NEW x \in XfersOf(m)
  PROVE  /\ x \in Xfers /\ x.m = m /\ x # None
         /\ SideOf(m) \in Sides /\ (SideOf(m) = "x" <=> m = XM)
         /\ HomeOf(x) = Decoded(SideOf(m), x)
         /\ m = XM  => HomeOf(x) \in XSubs \cup {DFLT_X}
         /\ m # XM => HomeOf(x) \in Subs \cup {DFLT_NX}
<1>1. x \in Xfers /\ x.m = m /\ x # None
  BY DEF XfersOf
<1>2. SideOf(m) \in Sides /\ (SideOf(m) = "x" <=> m = XM)
  BY DEF SideOf, Sides
<1>3. HomeOf(x) = Decoded(SideOf(m), x)
  BY <1>1 DEF HomeOf
<1>4. m = XM => HomeOf(x) \in XSubs \cup {DFLT_X}
  BY <1>2, <1>3 DEF Decoded
<1>5. m # XM => HomeOf(x) \in Subs \cup {DFLT_NX}
  <2> SUFFICES ASSUME m # XM PROVE HomeOf(x) \in Subs \cup {DFLT_NX}
    OBVIOUS
  <2>1. SideOf(m) = "nx"
    BY DEF SideOf
  <2> QED BY <1>3, <2>1 DEF Decoded
<1> QED BY <1>1, <1>2, <1>3, <1>4, <1>5

(* Each bus has the transfer of the manager that drives it.                *)
LEMMA Driver ==
  ASSUME IInv
  PROVE  /\ \A m \in Managers : Drives(m) =>
              /\ dp[m] \in XfersOf(m) /\ SideDp(SideOf(m)) = dp[m]
              /\ BusData(SideOf(m)) = dp[m].data
         /\ \A side \in Sides : SideDp(side) # None =>
              \E m \in Managers : Drives(m) /\ SideOf(m) = side /\ dp[m] = SideDp(side)
<1>1. SideHolds
  BY SideHoldsIs DEF IInv
<1>2. ASSUME NEW m \in Managers, Drives(m)
      PROVE  /\ dp[m] \in XfersOf(m) /\ SideDp(SideOf(m)) = dp[m]
             /\ BusData(SideOf(m)) = dp[m].data
  <2>1. dp[m] \in XfersOf(m)
    BY <1>2 DEF IInv, OwnTransfers, Drives
  <2>2. CASE m = XM
    BY <1>1, <1>2, <2>1, <2>2 DEF SideOf, SideHolds, BusData, Drives
  <2>3. CASE m # XM
    <3>1. m \in NXM /\ mif[m].dph /\ dp[m] # None
      BY <1>2, <2>3 DEF Managers, Drives
    <3>2. {n \in NXM : mif[n].dph /\ dp[n] # None} = {m}
      BY <3>1 DEF IInv, OneDataPhase
    <3>3. BusData("nx") = dp[m].data
      BY <3>2 DEF BusData
    <3> QED BY <1>1, <2>1, <2>3, <3>1, <3>3 DEF SideOf, SideHolds
  <2> QED BY <2>2, <2>3
<1>3. ASSUME NEW side \in Sides, SideDp(side) # None
      PROVE  \E m \in Managers : Drives(m) /\ SideOf(m) = side /\ dp[m] = SideDp(side)
  <2>1. CASE side = "x"
    BY <1>1, <1>3, <2>1 DEF SideHolds, Drives, SideOf, Managers
  <2>2. CASE side = "nx"
    <3>1. PICK m \in NXM : mif[m].dph
      BY <1>1, <1>3, <2>2 DEF SideHolds
    <3>2. m \in Managers /\ m # XM /\ SideDp("nx") = dp[m]
      BY <1>1, <3>1 DEF Managers, SideHolds
    <3> QED BY <1>3, <2>2, <3>1, <3>2 DEF Drives, SideOf
  <2> QED BY <2>1, <2>2 DEF Sides
<1> QED BY <1>2, <1>3

(* A subordinate on the non-executable bus executes its transfer.          *)
LEMMA ExecutedNX ==
  ASSUME IInv, NEW t \in NXSubs
  PROVE  ExecutedIs(t)
<1>1. /\ t \in Subs /\ t \notin XSubs /\ t # DFLT_X
      /\ sub[t].dp = Held("nx", t) /\ "nx" \in Sides
  BY DEF Subs, IInv, Executing, Sides
<1>2. Executed(t) = IF Held("nx", t) = None THEN None
                    ELSE [Held("nx", t) EXCEPT !.data = BusData("nx")]
  BY <1>1 DEF Executed, SubData
<1>3. ASSUME NEW m \in Managers, Exec(m), HomeOf(dp[m]) = t
      PROVE  Executed(t) = dp[m]
  <2>1. Drives(m)
    BY <1>3 DEF Exec
  <2>2. dp[m] \in XfersOf(m) /\ SideDp(SideOf(m)) = dp[m] /\ BusData(SideOf(m)) = dp[m].data
    BY <2>1, Driver
  <2>3. SideOf(m) = "nx" /\ Decoded("nx", dp[m]) = t /\ dp[m] \in Xfers /\ dp[m] # None
    BY <1>1, <1>3, <2>2, Sorted DEF SideOf
  <2>4. Held("nx", t) = dp[m]
    BY <2>2, <2>3 DEF Held, Selects
  <2>5. [dp[m] EXCEPT !.data = dp[m].data] = dp[m]
    BY <2>3
  <2> QED BY <1>2, <2>2, <2>3, <2>4, <2>5
<1>4. ASSUME Executed(t) # None
      PROVE  \E m \in Managers : Exec(m) /\ HomeOf(dp[m]) = t
  <2>1. SideDp("nx") # None /\ Decoded("nx", SideDp("nx")) = t
    BY <1>2, <1>4, HeldIs, <1>1
  <2>2. PICK m \in Managers : Drives(m) /\ SideOf(m) = "nx" /\ dp[m] = SideDp("nx")
    BY <1>1, <2>1, Driver
  <2>3. HomeOf(dp[m]) = t
    BY <2>1, <2>2, Driver, Sorted
  <2> QED BY <1>1, <2>2, <2>3 DEF Exec
<1> QED BY <1>3, <1>4 DEF ExecutedIs

(* An executable subordinate executes the transfer of the channel that has *)
(* it.                                                                     *)
LEMMA ExecutedX ==
  ASSUME IInv, NEW t \in XSubs
  PROVE  ExecutedIs(t)
<1>1. /\ t \in Subs /\ t \notin NXSubs
      /\ "x" \in Sides /\ "nx" \in Sides
  BY DEF Subs, Sides
<1>2. /\ \A side \in Sides : chan[t][side].dph => Held(side, t) # None
      /\ ~(chan[t]["x"].dph /\ chan[t]["nx"].dph)
  BY DEF IInv, Carried, Holds
<1>3. ASSUME NEW side \in Sides, chan[t][side].dph
      PROVE  /\ SideDp(side) # None /\ Decoded(side, SideDp(side)) = t
             /\ sub[t].dp = SideDp(side)
             /\ SubData(t) = BusData(side)
  <2>1. SideDp(side) # None /\ Decoded(side, SideDp(side)) = t
    BY <1>2, <1>3, HeldIs
  <2>2. sub[t].dp = SideDp(side)
    BY <1>2, <1>3 DEF IInv, Executing, Sides
  <2>3. {c \in Sides : chan[t][c].dph} = {side}
    BY <1>2, <1>3 DEF Sides
  <2>4. SubData(t) = UNION {BusData(c) : c \in {side}}
    BY <1>1, <2>3 DEF SubData
  <2>5. UNION {BusData(c) : c \in {side}} = BusData(side)
    OBVIOUS
  <2> QED BY <2>1, <2>2, <2>4, <2>5
<1>4. ASSUME NEW m \in Managers, Exec(m), HomeOf(dp[m]) = t
      PROVE  Executed(t) = dp[m]
  <2>1. Drives(m) /\ chan[t][SideOf(m)].dph
    BY <1>4 DEF Exec
  <2>2. dp[m] \in XfersOf(m) /\ SideDp(SideOf(m)) = dp[m] /\ BusData(SideOf(m)) = dp[m].data
    BY <2>1, Driver
  <2>3. SideOf(m) \in Sides /\ dp[m] \in Xfers /\ dp[m] # None
    BY <2>2, Sorted
  <2>4. sub[t].dp = dp[m] /\ SubData(t) = dp[m].data
    BY <1>3, <2>1, <2>2, <2>3
  <2>5. [dp[m] EXCEPT !.data = dp[m].data] = dp[m]
    BY <2>3
  <2> QED BY <1>1, <2>3, <2>4, <2>5 DEF Executed
<1>5. ASSUME Executed(t) # None
      PROVE  \E m \in Managers : Exec(m) /\ HomeOf(dp[m]) = t
  <2>1. sub[t].dp # None
    BY <1>1, <1>5 DEF Executed
  <2>2. PICK side \in Sides : chan[t][side].dph
    BY <1>1, <2>1 DEF IInv, Executing
  <2>3. PICK m \in Managers : Drives(m) /\ SideOf(m) = side /\ dp[m] = SideDp(side)
    BY <1>3, <2>2, Driver
  <2>4. HomeOf(dp[m]) = t
    BY <1>3, <2>2, <2>3, Driver, Sorted
  <2> QED BY <2>2, <2>3, <2>4 DEF Exec
<1> QED BY <1>4, <1>5 DEF ExecutedIs

(* A default subordinate answers the transfer of its side's manager.       *)
LEMMA ExecutedDflt ==
  ASSUME IInv, NEW side \in Sides
  PROVE  ExecutedIs(DfltOf(side))
<1> DEFINE t == DfltOf(side)
           owners == IF side = "x" THEN {XM} ELSE {m \in NXM : mif[m].dph}
<1>1. /\ t \notin Subs /\ t \notin XSubs
      /\ t \in {DFLT_X, DFLT_NX} /\ (t = DFLT_X <=> side = "x")
  BY DEF DfltOf, Subs, Sides, DFLT_X, DFLT_NX
<1>2. /\ Executed(t) # None => dflt_hresp(dflt[side])
      /\ \A x \in XferOrNone :
           /\ dflt_hresp(dflt[side]) /\ hsel_latched[side] = {t}
           /\ \A y : (\E m \in owners : y = dp[m]) <=> y = x
           => Executed(t) = x
  <2>1. CASE side = "x"
    BY <1>1, <2>1 DEF Executed
  <2>2. CASE side = "nx"
    BY <1>1, <2>2 DEF Executed
  <2> QED BY <2>1, <2>2 DEF Sides
<1>3. dflt_hresp(dflt[side]) <=> SideDp(side) # None /\ Decoded(side, SideDp(side)) = t
  BY DEF IInv, Denied, dflt_hresp, Selects
<1>4. SideDp(side) # None => hsel_latched[side] = {Decoded(side, SideDp(side))}
  BY DEF IInv, Routed
<1>5. ASSUME NEW m \in Managers, Exec(m), HomeOf(dp[m]) = t
      PROVE  Executed(t) = dp[m]
  <2>1. Drives(m)
    BY <1>5 DEF Exec
  <2>2. dp[m] \in XfersOf(m) /\ SideDp(SideOf(m)) = dp[m]
    BY <2>1, Driver
  <2>3. SideOf(m) = side /\ dp[m] \in XferOrNone /\ dp[m] # None
    <3>1. dp[m] \in Xfers /\ dp[m] # None /\ (SideOf(m) = "x" <=> m = XM)
      BY <2>2, Sorted
    <3>2. m = XM <=> t = DFLT_X
      <4>1. /\ m = XM => t \in XSubs \cup {DFLT_X}
            /\ m # XM => t \in Subs \cup {DFLT_NX}
        BY <1>5, <2>2, Sorted
      <4>2. DFLT_X # DFLT_NX
        BY DEF DFLT_X, DFLT_NX
      <4> QED BY <1>1, <4>1, <4>2
    <3> QED BY <1>1, <3>1, <3>2 DEF Sides, SideOf, XferOrNone
  <2>4. Decoded(side, dp[m]) = t
    BY <1>5, <2>2, <2>3, Sorted
  <2>5. owners = {m}
    BY <2>1, <2>3 DEF SideOf, Drives, Managers, IInv, OneDataPhase, Sides
  <2>6. \A y : (\E n \in owners : y = dp[n]) <=> y = dp[m]
    BY <2>5
  <2> HIDE DEF owners
  <2> QED BY <1>2, <1>3, <1>4, <2>2, <2>3, <2>4, <2>6
<1>6. ASSUME Executed(t) # None
      PROVE  \E m \in Managers : Exec(m) /\ HomeOf(dp[m]) = t
  <2>1. SideDp(side) # None /\ Decoded(side, SideDp(side)) = t
    BY <1>2, <1>3, <1>6
  <2>2. PICK m \in Managers : Drives(m) /\ SideOf(m) = side /\ dp[m] = SideDp(side)
    BY <2>1, Driver
  <2>3. HomeOf(dp[m]) = t
    BY <2>1, <2>2, Driver, Sorted
  <2> QED BY <1>1, <2>2, <2>3 DEF Exec
<1> QED BY <1>5, <1>6 DEF ExecutedIs

(* The executions are those of the managers whose transfers do not wait,   *)
(* and no two are at one target.                                           *)
ExecutionsAre ==
  /\ Executions = {<<HomeOf(dp[m]), dp[m]>> : m \in {n \in Managers : Exec(n)}}
  /\ \A m, n \in Managers : Exec(m) /\ Exec(n) /\ HomeOf(dp[m]) = HomeOf(dp[n]) => m = n
  /\ \A m \in Managers : Exec(m) => dp[m] \in XfersOf(m)

LEMMA ExecutionsHold == IInv => ExecutionsAre
<1> SUFFICES ASSUME IInv PROVE ExecutionsAre
  OBVIOUS
<1>1. \A t \in Targets : ExecutedIs(t)
  <2>1. ExecutedIs(DFLT_X) /\ ExecutedIs(DFLT_NX)
    BY ExecutedDflt DEF DfltOf, Sides
  <2> QED BY <2>1, ExecutedNX, ExecutedX DEF Targets, Subs
<1>2. \A m \in Managers : Exec(m) =>
        /\ dp[m] \in XfersOf(m) /\ dp[m] # None /\ dp[m].m = m
        /\ HomeOf(dp[m]) \in Targets
  <2> SUFFICES ASSUME NEW m \in Managers, Exec(m)
               PROVE  /\ dp[m] \in XfersOf(m) /\ dp[m] # None /\ dp[m].m = m
                      /\ HomeOf(dp[m]) \in Targets
    OBVIOUS
  <2>1. dp[m] \in XfersOf(m)
    BY Driver DEF Exec
  <2> QED BY <2>1, Sorted DEF Targets, Subs
<1>3. \A m, n \in Managers : Exec(m) /\ Exec(n) /\ HomeOf(dp[m]) = HomeOf(dp[n]) => m = n
  <2> SUFFICES ASSUME NEW m \in Managers, NEW n \in Managers, Exec(m), Exec(n),
                      HomeOf(dp[m]) = HomeOf(dp[n])
               PROVE  m = n
    OBVIOUS
  <2>1. dp[m] = dp[n]
    BY <1>1, <1>2 DEF ExecutedIs
  <2> QED BY <1>2, <2>1
<1>4. Executions = {<<HomeOf(dp[m]), dp[m]>> : m \in {n \in Managers : Exec(n)}}
  <2>1. Executions = {e \in {<<t, Executed(t)>> : t \in Targets} : e[2] # None}
    BY DEF Executions
  <2>2. ASSUME NEW e \in Executions
        PROVE  \E m \in Managers : Exec(m) /\ e = <<HomeOf(dp[m]), dp[m]>>
    <3>1. PICK t \in Targets : e = <<t, Executed(t)>> /\ Executed(t) # None
      BY <2>1, <2>2
    <3> QED BY <1>1, <3>1 DEF ExecutedIs
  <2>3. ASSUME NEW m \in Managers, Exec(m)
        PROVE  <<HomeOf(dp[m]), dp[m]>> \in Executions
    <3>1. HomeOf(dp[m]) \in Targets /\ Executed(HomeOf(dp[m])) = dp[m] /\ dp[m] # None
      BY <1>1, <1>2, <2>3 DEF ExecutedIs
    <3> QED BY <2>1, <3>1
  <2> DEFINE all == {<<HomeOf(dp[m]), dp[m]>> : m \in {n \in Managers : Exec(n)}}
  <2>4. Executions \subseteq all
    BY <2>2
  <2>5. all \subseteq Executions
    BY <2>3
  <2> QED BY <2>4, <2>5
<1> QED BY <1>2, <1>3, <1>4 DEF ExecutionsAre

----------------------------------------------------------------------------
(* The refinement: every edge is a step of the crossbar, in which the      *)
(* transfers that are executed and find their manager ready end.           *)
Ended == {m \in Managers : Exec(m) /\ m_hready(m)}

(* A manager with a transfer outstanding is ready in the cycle its         *)
(* execution ends, and in no other.                                        *)
LEMMA ReadyEnds ==
  ASSUME IInv, NEW m \in Managers, dp[m] # None
  PROVE  /\ m_hready(m) => Exec(m)
         /\ Exec(m) /\ HomeOf(dp[m]) \in XSubs =>
              (m_hready(m) <=> s_hreadyout(sub[HomeOf(dp[m])]))
         /\ Exec(m) => (m_hready(m) <=> hreadyout(SideOf(m)))
<1> DEFINE t    == HomeOf(dp[m])
           side == SideOf(m)
<1>1. /\ dp[m] \in XfersOf(m) /\ side \in Sides
      /\ t = Decoded(side, dp[m])
  BY Sorted DEF IInv, OwnTransfers
<1>2. Drives(m) => (m_hready(m) <=> hreadyout(side))
  BY DEF Drives, m_hready, m_hreadyout, SideOf, Managers
<1>3. m_hready(m) => Drives(m)
  <2>1. CASE m = XM
    BY <2>1 DEF Drives
  <2>2. CASE m # XM
    <3>1. m \in NXM /\ mif[m] \in Mif /\ Holds(mif[m], dp[m])
      BY <2>2 DEF Managers, IInv, TypeOK, Tracked
    <3> QED BY <2>2, <3>1 DEF Holds, m_hready, m_hreadyout, Drives, Mif
  <2> QED BY <2>1, <2>2
<1>4. ASSUME Drives(m), t \in XSubs
      PROVE  /\ hreadyout(side) => chan[t][side].dph
             /\ chan[t][side].dph => (hreadyout(side) <=> s_hreadyout(sub[t]))
  <2>1. SideDp(side) = dp[m]
    BY <1>4, Driver
  <2>2. Held(side, t) # None
    BY <1>1, <2>1 DEF Held, Selects
  <2>3. chan[t][side] \in Mif /\ Holds(chan[t][side], Held(side, t))
    BY <1>1, <1>4 DEF IInv, Carried, TypeOK
  <2>4. hreadyout(side) <=> TargetReady(side, t)
    BY <1>1, <2>1, ReadyOfTarget DEF IInv
  <2>5. TargetReady(side, t) = m_hreadyout(chan[t][side], s_hreadyout(sub[t]))
    BY <1>4 DEF TargetReady
  <2> QED BY <2>2, <2>3, <2>4, <2>5 DEF Holds, m_hreadyout, Mif
<1> QED BY <1>2, <1>3, <1>4 DEF Exec

(* An execution that is not over goes on.                                  *)
LEMMA ExecutionGoesOn ==
  ASSUME IInv, NEW g \in Grants, Fabric(g), NEW m \in Managers, Exec(m), ~m_hready(m)
  PROVE  dp'[m] = dp[m] /\ (Exec(m))' /\ HomeOf(dp'[m]) = HomeOf(dp[m])
<1>1. dp'[m] = dp[m]
  BY DEF Fabric, ManagerEdge
<1>2. Drives(m) /\ dp[m] # None /\ ~hreadyout(SideOf(m))
  BY ReadyEnds DEF Exec, Drives
<1>3. (Drives(m))'
  <2>1. CASE m = XM
    BY <1>1, <1>2, <2>1 DEF Drives
  <2>2. CASE m # XM
    <3>1. m \in NXM /\ mif[m].dph /\ ~hreadyout("nx")
      BY <1>2, <2>2 DEF Managers, Drives, SideOf
    <3>2. mif'[m].dph
      BY <3>1, ManagerStep DEF IInv, Fabric
    <3> QED BY <1>1, <1>2, <3>2 DEF Drives
  <2> QED BY <2>1, <2>2
<1>4. ASSUME HomeOf(dp[m]) \in XSubs
      PROVE  chan'[HomeOf(dp[m])][SideOf(m)].dph
  <2>1. chan[HomeOf(dp[m])][SideOf(m)].dph /\ ~s_hreadyout(sub[HomeOf(dp[m])])
    BY <1>2, <1>4, ReadyEnds DEF Exec
  <2>2. SideOf(m) \in Sides
    BY DEF SideOf, Sides
  <2> QED BY <1>4, <2>1, <2>2, ChannelStep DEF IInv, Fabric
<1>5. HomeOf(dp'[m]) = HomeOf(dp[m])
  BY <1>1
<1>6. (Exec(m))'
  BY <1>1, <1>3, <1>4, <1>5 DEF Exec, HomeOf, Decoded, SideOf
<1> QED BY <1>1, <1>5, <1>6

LEMMA EdgeIsCrossbarStep ==
  ASSUME IInv, IInv', NEW g \in Grants, Fabric(g)
  PROVE  XB!Next
<1>1. ExecutionsAre
  BY ExecutionsHold
<1>2. ExecutionsAre'
  BY ExecutionsHold, PTL
<1>3. Ended \in SUBSET {e[2].m : e \in Executions}
  <2> SUFFICES ASSUME NEW m \in Ended PROVE m \in {e[2].m : e \in Executions}
    OBVIOUS
  <2>1. m \in Managers /\ Exec(m) /\ dp[m] \in XfersOf(m)
    BY <1>1 DEF Ended, ExecutionsAre
  <2>2. <<HomeOf(dp[m]), dp[m]>> \in Executions
    BY <1>1, <2>1 DEF ExecutionsAre
  <2>3. dp[m].m = m
    BY <2>1 DEF XfersOf
  <2> QED BY <2>2, <2>3
<1>4. XB!Issue(Ended)
  <2>1. DOMAIN dp' = Managers
    BY DEF IInv, TypeOK
  <2>2. \A m \in Managers : dp'[m] \in {x \in Xfers : x.m = m} \cup {None}
    BY DEF IInv, OwnTransfers, XfersOf
  <2>3. ASSUME NEW m \in Managers, dp[m] # None, m \notin Ended
        PROVE  dp'[m] = dp[m]
    <3>1. ~m_hready(m)
      BY <2>3, ReadyEnds DEF Ended
    <3> QED BY <3>1 DEF Fabric, ManagerEdge
  <2> QED BY <2>1, <2>2, <2>3 DEF XB!Issue
<1>5. ASSUME NEW e \in Executions, e[2].m \notin Ended
      PROVE  e \in Executions'
  <2>1. PICK m \in Managers : Exec(m) /\ e = <<HomeOf(dp[m]), dp[m]>> /\ dp[m] \in XfersOf(m)
    BY <1>1, <1>5 DEF ExecutionsAre
  <2>2. e[2].m = m
    BY <2>1 DEF XfersOf
  <2>3. ~m_hready(m)
    BY <1>5, <2>1, <2>2 DEF Ended
  <2>4. dp'[m] = dp[m] /\ (Exec(m))' /\ HomeOf(dp'[m]) = HomeOf(dp[m])
    BY <2>1, <2>3, ExecutionGoesOn
  <2> QED BY <1>2, <2>1, <2>4 DEF ExecutionsAre
<1>6. ASSUME NEW e \in Executions'
      PROVE  /\ e[2] \in Xfers /\ e[1] = [x \in Xfers |-> HomeOf(x)][e[2]]
             /\ dp'[e[2].m] = e[2]
  <2>1. PICK m \in Managers : (Exec(m))' /\ e = <<HomeOf(dp'[m]), dp'[m]>>
                              /\ dp'[m] \in XfersOf(m)
    BY <1>2, <1>6 DEF ExecutionsAre
  <2> QED BY <2>1 DEF XfersOf
<1>7. ASSUME NEW e \in Executions', NEW f \in Executions', e[1] = f[1]
      PROVE  e = f
  <2>1. PICK m \in Managers : (Exec(m))' /\ e = <<HomeOf(dp'[m]), dp'[m]>>
    BY <1>2, <1>7 DEF ExecutionsAre
  <2>2. PICK n \in Managers : (Exec(n))' /\ f = <<HomeOf(dp'[n]), dp'[n]>>
    BY <1>2, <1>7 DEF ExecutionsAre
  <2> QED BY <1>2, <1>7, <2>1, <2>2 DEF ExecutionsAre
<1>8. XB!Execute(Ended)
  BY <1>5, <1>6, <1>7 DEF XB!Execute
<1> QED BY <1>3, <1>4, <1>8 DEF XB!Next

(* The two-level fabric, with its two decoders, the channels that park a   *)
(* transfer behind another's and the arbiters that alternate, implements   *)
(* the crossbar for any number of managers and subordinates: every         *)
(* transfer is executed once, by the subordinate its address belongs to,   *)
(* with its own write data, and ends when that execution does.             *)
THEOREM HiperfImplementsCrossbar == Spec => ImplementsCrossbar
<1>1. Init => XB!Init
  <2> SUFFICES ASSUME Init PROVE XB!Init
    OBVIOUS
  <2>1. \A m \in Managers : ~Exec(m)
    BY DEF Init, Exec, Drives
  <2>2. Executions = {}
    BY <2>1, InitHolds, ExecutionsHold DEF ExecutionsAre
  <2> QED BY <2>2 DEF Init, XB!Init
<1>2. IInv /\ IInv' /\ [Next]_vars => [XB!Next]_(XB!vars)
  <2>1. ASSUME IInv, IInv', Next PROVE XB!Next
    <3>1. PICK g \in Grants : Fabric(g)
      BY <2>1, EdgeIs DEF Next
    <3> QED BY <2>1, <3>1, EdgeIsCrossbarStep
  <2>2. ASSUME UNCHANGED vars PROVE UNCHANGED XB!vars
    <3>1. Executions' = Executions
      BY <2>2 DEF vars, Executions, Executed, SubData, BusData
    <3> QED BY <2>2, <3>1 DEF vars, XB!vars
  <2> QED BY <2>1, <2>2
<1> QED BY <1>1, <1>2, HiperfInvariant, PTL DEF Spec, ImplementsCrossbar, XB!Spec
=============================================================================
