---------------------------- MODULE AhbGenericProofs ----------------------------
(***************************************************************************)
(* Proofs about AhbGeneric for any number of managers, subordinates and    *)
(* transfers: every manager's outstanding transfer is in exactly one       *)
(* place, parked in its interface or executed by its target, from which    *)
(* the single data phase and the routing of the answers follow.            *)
(***************************************************************************)
EXTENDS AhbGeneric, TLAPS

USE BlocksAssumption, GenericAssumption

(* A manager's outstanding transfer is parked in its cache or in its data  *)
(* phase on the bus.                                                       *)
Tracked ==
  \A m \in Managers :
    /\ dp[m] # None <=> mif[m].pending \/ mif[m].dph
    /\ ~(mif[m].pending /\ mif[m].dph)
    /\ mif[m].pending => mif[m].cache = dp[m]

(* The data phase on the bus selects the target of its owner's transfer,   *)
(* which executes that transfer.                                           *)
Routed ==
  \A m \in Managers : mif[m].dph =>
    /\ hsel_latched = {Decoded(dp[m])}
    /\ Decoded(dp[m]) \in Subs => sub[Decoded(dp[m])].dp = dp[m]
    /\ Decoded(dp[m]) = DFLT => dflt.p0 \/ dflt.p1

(* Nothing is executed but the transfer of the data phase on the bus.      *)
Owned ==
  /\ \A s \in Subs : sub[s].dp # None => \E m \in Managers : mif[m].dph /\ dp[m] = sub[s].dp
                                                            /\ Decoded(dp[m]) = s
  /\ \A s \in Subs : sub[s].dp = None => sub[s] = SubReset
  /\ dflt.p0 \/ dflt.p1 => \E m \in Managers : mif[m].dph /\ Decoded(dp[m]) = DFLT
  /\ ~(dflt.p0 /\ dflt.p1)

IInv == TypeOK /\ OneDataPhase /\ Tracked /\ Routed /\ Owned

----------------------------------------------------------------------------
LEMMA InitHolds == Init => IInv
<1> SUFFICES ASSUME Init PROVE IInv
  OBVIOUS
<1>1. TypeOK
  BY DEF Init, TypeOK, Offers, Mif, MifReset, Dflt, DfltReset, Sub, SubReset, XferOrNone, XfersOf
<1>2. \A m \in Managers : mif[m] = MifReset /\ dp[m] = None
  BY DEF Init
<1>3. OneDataPhase /\ Tracked /\ Routed
  BY <1>2 DEF OneDataPhase, Tracked, Routed, MifReset
<1>4. Owned
  BY DEF Owned, Init, DfltReset, SubReset
<1> QED
  BY <1>1, <1>3, <1>4 DEF IInv

(* The address phase put on the bus is that of at most one manager, who is *)
(* then in its data phase with it, and only while the bus is ready.        *)
LEMMA BusFacts ==
  ASSUME TypeOK, Tracked, NEW g \in Grants, ManagerEdge
  PROVE  /\ BusAphs(g) \subseteq Managers
         /\ \A m, n \in BusAphs(g) : m = n
         /\ BusAphs(g) = {} <=> BusAph(g) = None
         /\ \A m \in BusAphs(g) : hreadyout /\ BusAph(g) = dp'[m] /\ dp'[m] \in Xfers
<1>1. BusAphs(g) \subseteq Managers /\ \A m, n \in BusAphs(g) : m = n
  BY DEF BusAphs, Grants
<1>2. ASSUME NEW m \in BusAphs(g)
      PROVE  hreadyout /\ m_aph(mif[m], aph[m]) = dp'[m] /\ dp'[m] \in Xfers
  <2>1. m \in Managers /\ hreadyout /\ (m_aph_valid(m) \/ mif[m].pending)
    BY <1>1, <1>2 DEF BusAphs, m_aph_granted, m_grant_eff
  <2>2. /\ dp'[m] = IF m_hready(m) THEN aph[m] ELSE dp[m]
        /\ aph[m] \in XferOrNone /\ dp[m] \in XferOrNone
    BY <2>1 DEF ManagerEdge, TypeOK
  <2>3. CASE mif[m].pending
    <3>1. ~mif[m].dph /\ mif[m].cache = dp[m] /\ dp[m] # None
      BY <2>1, <2>3 DEF Tracked
    <3>2. ~m_hready(m)
      BY <2>3, <3>1 DEF m_hready, m_hreadyout
    <3> QED
      BY <2>1, <2>2, <2>3, <3>1, <3>2 DEF m_aph, XferOrNone
  <2>4. CASE ~mif[m].pending
    BY <2>1, <2>2, <2>4 DEF m_aph, m_aph_valid, XferOrNone
  <2> QED
    BY <2>3, <2>4
<1>3. CASE BusAphs(g) = {}
  BY <1>1, <1>3 DEF BusAph
<1>4. CASE BusAphs(g) # {}
  <2>1. PICK w \in BusAphs(g) : BusAph(g) = m_aph(mif[w], aph[w])
    BY <1>4 DEF BusAph
  <2> QED
    BY <1>1, <1>2, <1>4, <2>1
<1> QED
  BY <1>3, <1>4

(* What one edge does to a manager interface: the granted manager enters   *)
(* its data phase, an owner whose target is not ready stays in it, and any *)
(* other outstanding transfer is parked.                                   *)
LEMMA MifStep ==
  ASSUME TypeOK, Tracked, NEW g \in Grants, ManagerEdge, mif' = ManagerMux(g),
         NEW m \in Managers
  PROVE  /\ mif'[m] \in Mif
         /\ mif'[m].dph <=> m \in BusAphs(g) \/ (mif[m].dph /\ ~hreadyout)
         /\ dp'[m] # None <=> mif'[m].pending \/ mif'[m].dph
         /\ ~(mif'[m].pending /\ mif'[m].dph)
         /\ mif'[m].pending => mif'[m].cache = dp'[m]
         /\ mif[m].dph /\ ~hreadyout => dp'[m] = dp[m]
<1> DEFINE valid == m_aph_valid(m)
           eff   == m \in g /\ hreadyout
<1>1. mif'[m] = [pending |-> (valid /\ ~eff) \/ (mif[m].pending /\ ~eff),
                 cache   |-> IF valid /\ ~eff THEN aph[m] ELSE mif[m].cache,
                 dph     |-> ((valid \/ mif[m].pending) /\ eff) \/ (mif[m].dph /\ ~hreadyout)]
  BY DEF ManagerMux, MifNext, m_grant_eff, m_aph_granted
<1>2. m \in BusAphs(g) <=> (valid \/ mif[m].pending) /\ eff
  BY DEF BusAphs, m_aph_granted, m_grant_eff
<1>3. /\ mif[m].pending \in BOOLEAN /\ mif[m].dph \in BOOLEAN
      /\ mif[m].cache \in XferOrNone /\ aph[m] \in XferOrNone /\ dp[m] \in XferOrNone
      /\ mif[m].pending => mif[m].cache \in Xfers
  BY DEF TypeOK, Mif
<1>4. /\ dp[m] # None <=> mif[m].pending \/ mif[m].dph
      /\ ~(mif[m].pending /\ mif[m].dph)
      /\ mif[m].pending => mif[m].cache = dp[m]
  BY DEF Tracked
<1>5. dp'[m] = IF m_hready(m) THEN aph[m] ELSE dp[m]
  BY DEF ManagerEdge
<1>6. /\ m_hready(m) <=> IF mif[m].dph THEN hreadyout ELSE ~mif[m].pending
      /\ valid <=> m_hready(m) /\ aph[m] # None
  BY <1>3 DEF m_hready, m_hreadyout, m_aph_valid
<1>7. valid \in BOOLEAN /\ eff \in BOOLEAN /\ hreadyout \in BOOLEAN
  BY DEF m_aph_valid, hreadyout
<1> HIDE DEF valid, eff
<1>8. /\ mif'[m].pending <=> (valid \/ mif[m].pending) /\ ~eff
      /\ mif'[m].cache = IF valid /\ ~eff THEN aph[m] ELSE mif[m].cache
      /\ mif'[m].dph <=> ((valid \/ mif[m].pending) /\ eff) \/ (mif[m].dph /\ ~hreadyout)
  <2>1. mif'[m].pending = ((valid /\ ~eff) \/ (mif[m].pending /\ ~eff))
    BY <1>1
  <2>2. mif'[m].cache = IF valid /\ ~eff THEN aph[m] ELSE mif[m].cache
    BY <1>1
  <2>3. mif'[m].dph = (((valid \/ mif[m].pending) /\ eff) \/ (mif[m].dph /\ ~hreadyout))
    BY <1>1
  <2> QED
    BY <1>3, <1>7, <2>1, <2>2, <2>3
<1>9. mif[m].dph /\ ~hreadyout => ~valid /\ ~mif[m].pending
  BY <1>4, <1>6
<1>10. mif'[m].pending => mif'[m].cache \in Xfers
  BY <1>3, <1>6, <1>8 DEF XferOrNone
<1>11. mif'[m] \in Mif
  BY <1>1, <1>3, <1>7, <1>10 DEF Mif
<1> QED
  BY <1>2, <1>3, <1>4, <1>5, <1>6, <1>7, <1>8, <1>9, <1>11

(* One edge leaves the subordinates typed, and executing what they did     *)
(* while the bus is not ready, else the transfer on the bus or nothing.    *)
LEMMA SubStep ==
  ASSUME TypeOK, Owned, NEW x \in XferOrNone, Subordinates(x), NEW s \in Subs
  PROVE  /\ sub'[s] \in Sub
         /\ hreadyout => IF Selects(x, s) THEN sub'[s].dp = x ELSE sub'[s] = SubReset
         /\ ~hreadyout => /\ sub'[s].dp = sub[s].dp
                          /\ sub[s] = SubReset => sub'[s] = SubReset
         /\ s_hreadyout(sub'[s]) /\ s_hresp(sub'[s]) => ~hreadyout /\ s_hresp(sub[s])
<1>1. PICK reply \in Replies :
        sub'[s] = SubNext(sub[s], IF Selects(x, s) THEN x ELSE None, hreadyout, reply)
  <2>1. [wait |-> 0, resp |-> "okay"] \in Replies
    BY DEF Replies
  <2> QED
    BY <2>1 DEF Subordinates
<1>2. sub[s] \in Sub
  BY DEF TypeOK
<1>3. reply.wait \in 0 .. MAX_WAIT /\ reply.resp \in {"okay", "err1"}
  BY <1>1 DEF Replies
<1>4. CASE hreadyout /\ Selects(x, s)
  <2>1. sub'[s] = [dp |-> x, wait |-> reply.wait, resp |-> reply.resp]
    BY <1>1, <1>4 DEF SubNext, Selects
  <2> QED
    BY <1>3, <1>4, <2>1 DEF Sub, s_hreadyout, s_hresp
<1>5. CASE hreadyout /\ ~Selects(x, s)
  BY <1>1, <1>5 DEF SubNext, SubReset, Sub, XferOrNone, s_hresp
<1>6. CASE ~hreadyout
  <2>1. sub'[s] = IF sub[s].wait > 0 THEN [sub[s] EXCEPT !.wait = @ - 1]
                  ELSE IF sub[s].resp = "err1" THEN [sub[s] EXCEPT !.resp = "err2"] ELSE sub[s]
    BY <1>1, <1>6 DEF SubNext
  <2>2. sub[s].wait > 0 => sub[s].wait - 1 \in 0 .. MAX_WAIT
    BY <1>2 DEF Sub
  <2> QED
    BY <1>2, <1>6, <2>1, <2>2 DEF Sub, SubReset, s_hreadyout, s_hresp
<1> QED
  BY <1>4, <1>5, <1>6

(* While the default subordinate is in the first cycle of its ERROR, it is *)
(* selected and the bus is not ready.                                      *)
LEMMA ErrorStalls ==
  ASSUME IInv, dflt.p0
  PROVE  ~hreadyout
<1>1. PICK m \in Managers : mif[m].dph /\ Decoded(dp[m]) = DFLT
  BY DEF IInv, Owned
<1>2. hsel_latched = {DFLT}
  BY <1>1 DEF IInv, Routed
<1> QED
  BY <1>2 DEF hreadyout, TargetReady, dflt_hreadyout

LEMMA TypeStep ==
  ASSUME IInv, NEW g \in Grants, HclkEdge(g)
  PROVE  TypeOK'
<1> USE DEF IInv
<1>1. ManagerEdge /\ mif' = ManagerMux(g)
  BY DEF HclkEdge
<1>2. BusAph(g) \in XferOrNone
  BY <1>1, BusFacts DEF XferOrNone
<1>3. aph' \in [Managers -> XferOrNone] /\ \A m \in Managers : aph'[m] \in XfersOf(m) \cup {None}
  BY <1>1 DEF ManagerEdge, Offers
<1>4. dp' \in [Managers -> XferOrNone] /\ \A m \in Managers : dp'[m] \in XfersOf(m) \cup {None}
  BY <1>1 DEF ManagerEdge, TypeOK
<1>5. mif' \in [Managers -> Mif]
  <2>1. \A m \in Managers : mif'[m] \in Mif
    BY <1>1, MifStep
  <2> QED
    BY <1>1, <2>1 DEF ManagerMux
<1>6. hsel_latched' \in SUBSET Targets
  BY <1>2 DEF HclkEdge, SubordinateMux, Decoded, Targets, TypeOK
<1>7. dflt' \in Dflt
  BY DEF HclkEdge, DefaultSub, DfltNext, Dflt, TypeOK, Selects, hreadyout
<1>8. sub' \in [Subs -> Sub]
  <2>1. Subordinates(BusAph(g))
    BY DEF HclkEdge
  <2>2. \A s \in Subs : sub'[s] \in Sub
    BY <1>2, <2>1, SubStep
  <2> QED
    BY <2>1, <2>2 DEF Subordinates
<1> QED
  BY <1>3, <1>4, <1>5, <1>6, <1>7, <1>8 DEF TypeOK

(* Preservation, by the three things an edge can do: extend the data phase *)
(* on the bus, end it with no successor, or begin one.                     *)
LEMMA StepHolds ==
  ASSUME IInv, NEW g \in Grants, HclkEdge(g)
  PROVE  IInv'
<1> DEFINE x == BusAph(g)
<1>0. TypeOK /\ OneDataPhase /\ Tracked /\ Routed /\ Owned
  BY DEF IInv
<1>1. /\ ManagerEdge /\ mif' = ManagerMux(g) /\ Subordinates(x)
      /\ hsel_latched' = SubordinateMux(x) /\ dflt' = DefaultSub(x)
  BY DEF HclkEdge
<1>2. /\ BusAphs(g) \subseteq Managers
      /\ \A m, n \in BusAphs(g) : m = n
      /\ BusAphs(g) = {} <=> x = None
      /\ \A m \in BusAphs(g) : hreadyout /\ x = dp'[m] /\ dp'[m] \in Xfers
  BY <1>0, <1>1, BusFacts
<1>3. \A m \in Managers :
        /\ mif'[m].dph <=> m \in BusAphs(g) \/ (mif[m].dph /\ ~hreadyout)
        /\ dp'[m] # None <=> mif'[m].pending \/ mif'[m].dph
        /\ ~(mif'[m].pending /\ mif'[m].dph)
        /\ mif'[m].pending => mif'[m].cache = dp'[m]
        /\ mif[m].dph /\ ~hreadyout => dp'[m] = dp[m]
  BY <1>0, <1>1, MifStep
<1>4. x \in XferOrNone
  BY <1>2 DEF XferOrNone
<1>5. \A s \in Subs :
        /\ hreadyout => IF Selects(x, s) THEN sub'[s].dp = x ELSE sub'[s] = SubReset
        /\ ~hreadyout => /\ sub'[s].dp = sub[s].dp
                         /\ sub[s] = SubReset => sub'[s] = SubReset
  BY <1>0, <1>1, <1>4, SubStep
<1>6. dflt' = [p0 |-> Selects(x, DFLT) /\ hreadyout, p1 |-> dflt.p0]
  BY <1>1 DEF DefaultSub, DfltNext
<1>7. dflt.p0 => ~hreadyout
  BY ErrorStalls
<1> HIDE DEF x
<1>8. TypeOK'
  BY TypeStep
<1>9. Tracked'
  BY <1>3 DEF Tracked
<1>10. CASE ~hreadyout
  <2>1. x = None /\ hsel_latched' = hsel_latched
    BY <1>1, <1>2, <1>10 DEF SubordinateMux
  <2>2. \A m \in Managers : mif'[m].dph <=> mif[m].dph
    BY <1>2, <1>3, <1>10
  <2>3. \A m \in Managers : mif[m].dph => dp'[m] = dp[m]
    BY <1>3, <1>10
  <2>4. OneDataPhase'
    BY <1>0, <2>2 DEF OneDataPhase
  <2>5. dflt'.p0 = FALSE /\ dflt'.p1 = dflt.p0
    BY <1>6, <1>10
  <2>6. ASSUME NEW m \in Managers, mif[m].dph, Decoded(dp[m]) = DFLT PROVE dflt.p0
    <3>1. hsel_latched = {DFLT}
      BY <1>0, <2>6 DEF Routed
    <3> QED
      BY <1>10, <3>1 DEF hreadyout, TargetReady, dflt_hreadyout
  <2>7. Routed'
    <3> SUFFICES ASSUME NEW m \in Managers, mif'[m].dph
                 PROVE  /\ hsel_latched' = {Decoded(dp'[m])}
                        /\ Decoded(dp'[m]) \in Subs => sub'[Decoded(dp'[m])].dp = dp'[m]
                        /\ Decoded(dp'[m]) = DFLT => dflt'.p0 \/ dflt'.p1
      BY DEF Routed, Decoded
    <3>1. mif[m].dph /\ dp'[m] = dp[m]
      BY <2>2, <2>3
    <3> QED
      BY <1>0, <1>5, <1>10, <2>1, <2>5, <2>6, <3>1 DEF Routed
  <2>8. Owned'
    <3>1. ASSUME NEW s \in Subs, sub'[s].dp # None
          PROVE  \E m \in Managers : mif'[m].dph /\ dp'[m] = sub'[s].dp /\ Decoded(dp'[m]) = s
      <4>1. PICK m \in Managers : mif[m].dph /\ dp[m] = sub[s].dp /\ Decoded(dp[m]) = s
        BY <1>0, <1>5, <1>10, <3>1 DEF Owned
      <4> QED
        BY <1>5, <1>10, <2>2, <2>3, <4>1
    <3>2. ASSUME NEW s \in Subs, sub'[s].dp = None PROVE sub'[s] = SubReset
      BY <1>0, <1>5, <1>10, <3>2 DEF Owned
    <3>3. ASSUME dflt'.p0 \/ dflt'.p1
          PROVE  \E m \in Managers : mif'[m].dph /\ Decoded(dp'[m]) = DFLT
      <4>1. PICK m \in Managers : mif[m].dph /\ Decoded(dp[m]) = DFLT
        BY <1>0, <2>5, <3>3 DEF Owned
      <4> QED
        BY <2>2, <2>3, <4>1
    <3> QED
      BY <2>5, <3>1, <3>2, <3>3 DEF Owned, Decoded
  <2> QED
    BY <1>8, <1>9, <2>4, <2>7, <2>8 DEF IInv
<1>11. CASE hreadyout /\ BusAphs(g) = {}
  <2>1. x = None
    BY <1>2, <1>11
  <2>2. \A m \in Managers : ~mif'[m].dph
    BY <1>3, <1>11
  <2>3. \A s \in Subs : sub'[s] = SubReset
    BY <1>5, <1>11, <2>1 DEF Selects
  <2>4. dflt'.p0 = FALSE /\ dflt'.p1 = dflt.p0 /\ ~dflt.p0
    BY <1>6, <1>7, <1>11, <2>1 DEF Selects
  <2>5. OneDataPhase' /\ Routed'
    BY <2>2 DEF OneDataPhase, Routed
  <2>6. Owned'
    BY <2>3, <2>4 DEF Owned, SubReset
  <2> QED
    BY <1>8, <1>9, <2>5, <2>6 DEF IInv
<1>12. CASE hreadyout /\ BusAphs(g) # {}
  <2>1. PICK w \in BusAphs(g) : TRUE
    BY <1>12
  <2>2. w \in Managers /\ x = dp'[w] /\ x \in Xfers /\ x # None
    BY <1>2, <2>1
  <2>3. \A m \in Managers : mif'[m].dph <=> m = w
    BY <1>2, <1>3, <1>12, <2>1
  <2>4. hsel_latched' = {Decoded(dp'[w])}
    BY <1>1, <1>12, <2>2 DEF SubordinateMux
  <2>5. \A s \in Subs : IF Decoded(x) = s THEN sub'[s].dp = x ELSE sub'[s] = SubReset
    BY <1>5, <1>12, <2>2 DEF Selects
  <2>6. (dflt'.p0 <=> Decoded(x) = DFLT) /\ ~dflt'.p1
    BY <1>6, <1>7, <1>12, <2>2 DEF Selects
  <2>7. OneDataPhase'
    BY <2>3 DEF OneDataPhase
  <2>8. Routed'
    BY <2>2, <2>3, <2>4, <2>5, <2>6 DEF Routed, Decoded
  <2>9. Owned'
    BY <2>2, <2>3, <2>5, <2>6 DEF Owned, SubReset, Decoded
  <2> QED
    BY <1>8, <1>9, <2>7, <2>8, <2>9 DEF IInv
<1> QED
  BY <1>10, <1>11, <1>12

THEOREM GenericInvariant == Spec => []IInv
<1>1. IInv /\ [Next]_vars => IInv'
  <2>1. ASSUME IInv, Next PROVE IInv'
    BY <2>1, StepHolds DEF Next
  <2>2. ASSUME IInv, UNCHANGED vars PROVE IInv'
    BY <2>2 DEF IInv, TypeOK, OneDataPhase, Tracked, Routed, Owned, vars
  <2> QED
    BY <2>1, <2>2
<1> QED
  BY InitHolds, <1>1, PTL DEF Spec

(* The registers stay within their types, a cache that is replayed holding *)
(* a transfer.                                                             *)
THEOREM GenericTypeCorrect == Spec => []TypeOK
<1>1. IInv => TypeOK
  BY DEF IInv
<1> QED
  BY GenericInvariant, <1>1, PTL

(* At most one manager owns the data phase, for any number of managers and *)
(* any arbiter that grants at most one: the fabric's constraint 2.         *)
THEOREM GenericOneDataPhase == Spec => []OneDataPhase
<1>1. IInv => OneDataPhase
  BY DEF IInv
<1> QED
  BY GenericInvariant, <1>1, PTL

(* A manager sees the answer of the target of its own transfer, or none    *)
(* while the transfer waits for the bus.                                   *)
THEOREM GenericAnswerIsOfTarget == Spec => []AnswerIsOfTarget
<1>1. ASSUME IInv PROVE AnswerIsOfTarget
  <2> SUFFICES ASSUME NEW m \in Managers, dp[m] # None
               PROVE  IF mif[m].dph
                      THEN /\ m_hready(m) = TargetReady(Decoded(dp[m]))
                           /\ m_hresp(m) = TargetResp(Decoded(dp[m]))
                           /\ Decoded(dp[m]) = DFLT => m_hresp(m)
                      ELSE ~m_hready(m) /\ ~m_hresp(m)
    BY DEF AnswerIsOfTarget
  <2>1. CASE mif[m].dph
    <3>1. hsel_latched = {Decoded(dp[m])} /\ (Decoded(dp[m]) = DFLT => dflt.p0 \/ dflt.p1)
      BY <1>1, <2>1 DEF IInv, Routed
    <3>2. /\ TargetReady(Decoded(dp[m])) \in BOOLEAN
          /\ TargetResp(Decoded(dp[m])) \in BOOLEAN
      BY <1>1 DEF IInv, TypeOK, Dflt, TargetReady, TargetResp, dflt_hreadyout, dflt_hresp,
                  s_hreadyout, s_hresp
    <3>3. hreadyout = TargetReady(Decoded(dp[m])) /\ hresp = TargetResp(Decoded(dp[m]))
      BY <3>1, <3>2 DEF hreadyout, hresp
    <3> QED
      BY <2>1, <3>1, <3>2, <3>3 DEF m_hready, m_hreadyout, m_hresp, TargetResp, dflt_hresp
  <2>2. CASE ~mif[m].dph
    BY <1>1, <2>2 DEF IInv, Tracked, m_hready, m_hreadyout, m_hresp
  <2> QED
    BY <2>1, <2>2
<1> QED
  BY GenericInvariant, <1>1, PTL

(* An ERROR a manager can complete on follows an ERROR wait cycle. *)
LEMMA ErrorEdge ==
  ASSUME IInv, IInv', NEW g \in Grants, HclkEdge(g), NEW m \in Managers,
         m_hready(m)', m_hresp(m)'
  PROVE  ~m_hready(m) /\ m_hresp(m)
<1> DEFINE t == Decoded(dp'[m])
<1>0. /\ TypeOK /\ Tracked /\ Owned /\ ManagerEdge /\ mif' = ManagerMux(g)
      /\ Subordinates(BusAph(g)) /\ dflt' = DefaultSub(BusAph(g))
  BY DEF IInv, HclkEdge
<1>1. mif'[m].dph /\ hresp' /\ hreadyout'
  BY DEF m_hready, m_hresp, m_hreadyout
<1>2. hsel_latched' = {t} /\ t \in Targets
  BY <1>1 DEF IInv, Routed, Decoded, Targets
<1>3. IF t = DFLT THEN ~dflt'.p0 /\ (dflt'.p0 \/ dflt'.p1)
      ELSE s_hreadyout(sub'[t]) /\ s_hresp(sub'[t])
  BY <1>1, <1>2 DEF hresp, hreadyout, TargetReady, TargetResp, dflt_hreadyout, dflt_hresp
<1>4. BusAph(g) \in XferOrNone
  BY <1>0, BusFacts DEF XferOrNone
<1>5. ~hreadyout /\ (IF t = DFLT THEN dflt.p0 ELSE s_hresp(sub[t]))
  <2>1. CASE t = DFLT
    <3>1. dflt.p0
      BY <1>0, <1>3, <2>1 DEF DefaultSub, DfltNext
    <3> QED
      BY <2>1, <3>1, ErrorStalls
  <2>2. CASE t # DFLT
    BY <1>0, <1>2, <1>3, <1>4, <2>2, SubStep DEF Targets
  <2> QED
    BY <2>1, <2>2
<1>6. mif[m].dph /\ dp'[m] = dp[m]
  <2>1. \A n \in BusAphs(g) : hreadyout
    BY <1>0, BusFacts
  <2>2. /\ mif'[m].dph <=> m \in BusAphs(g) \/ (mif[m].dph /\ ~hreadyout)
        /\ mif[m].dph /\ ~hreadyout => dp'[m] = dp[m]
    BY <1>0, MifStep
  <2> QED
    BY <1>1, <1>5, <2>1, <2>2
<1>7. hsel_latched = {t}
  BY <1>6 DEF IInv, Routed
<1> QED
  BY <1>5, <1>6, <1>7 DEF m_hready, m_hresp, m_hreadyout, hresp, TargetResp, dflt_hresp

(* Every ERROR takes two cycles at the manager it answers. *)
THEOREM GenericTwoCycleError == Spec => TwoCycleError
<1>1. IInv /\ IInv' /\ [Next]_vars
      => [\A m \in Managers : m_hready(m)' /\ m_hresp(m)' => ~m_hready(m) /\ m_hresp(m)]_vars
  BY ErrorEdge DEF Next
<1> QED
  BY <1>1, GenericInvariant, PTL DEF Spec, TwoCycleError

----------------------------------------------------------------------------
(* What is executed, under the refinement mapping: the transfer of the     *)
(* manager in its data phase, at that transfer's target, or nothing.       *)
OneExecution ==
  /\ \A m \in Managers : mif[m].dph => Executions = {<<Decoded(dp[m]), dp[m]>>}
  /\ (\A m \in Managers : ~mif[m].dph) => Executions = {}

LEMMA ExecutionsAre == IInv => OneExecution
<1> SUFFICES ASSUME IInv PROVE OneExecution
  OBVIOUS
<1> USE DEF IInv
<1>1. ASSUME NEW m \in Managers, mif[m].dph
      PROVE  Executions = {<<Decoded(dp[m]), dp[m]>>}
  <2>1. dp[m] \in Xfers /\ dp[m] # None
    BY <1>1 DEF Tracked, TypeOK, XferOrNone
  <2>2. \A n \in Managers : mif[n].dph <=> n = m
    BY <1>1 DEF OneDataPhase
  <2>3. hwdata = dp[m].data
    BY <2>1, <2>2 DEF hwdata
  <2>4. [dp[m] EXCEPT !.data = hwdata] = dp[m]
    <3>1. dp[m] = [m |-> dp[m].m, addr |-> dp[m].addr, data |-> dp[m].data]
      BY <2>1
    <3> QED
      BY <2>3, <3>1
  <2>5. Decoded(dp[m]) \in Targets
    BY DEF Decoded, Targets
  <2>6. ASSUME NEW t \in Targets
        PROVE  Executed(t) = IF t = Decoded(dp[m]) THEN dp[m] ELSE None
    <3>1. CASE t = DFLT
      <4>1. dflt_hresp(dflt) /\ hsel_latched = {DFLT} <=> Decoded(dp[m]) = DFLT
        BY <1>1, <2>2 DEF Routed, dflt_hresp
      <4>2. (CHOOSE x \in XferOrNone : \E n \in Managers : mif[n].dph /\ x = dp[n]) = dp[m]
        BY <2>1, <2>2 DEF XferOrNone
      <4> QED
        BY <3>1, <4>1, <4>2 DEF Executed
    <3>2. CASE t \in Subs /\ t = Decoded(dp[m])
      BY <1>1, <2>1, <2>4, <3>2 DEF Routed, Executed
    <3>3. CASE t \in Subs /\ t # Decoded(dp[m])
      <4>1. sub[t].dp = None
        BY <2>2, <3>3 DEF Owned
      <4> QED
        BY <3>3, <4>1 DEF Executed
    <3> QED
      BY <3>1, <3>2, <3>3 DEF Targets
  <2> QED
    BY <2>1, <2>5, <2>6 DEF Executions
<1>2. ASSUME \A m \in Managers : ~mif[m].dph
      PROVE  Executions = {}
  <2>1. ~dflt_hresp(dflt) /\ \A s \in Subs : sub[s].dp = None
    BY <1>2 DEF Owned, dflt_hresp
  <2>2. \A t \in Targets : Executed(t) = None
    BY <2>1 DEF Executed, Targets
  <2> QED
    BY <2>2 DEF Executions
<1> QED
  BY <1>1, <1>2 DEF OneExecution

(* One edge is one step of the crossbar: the owner of the data phase ends  *)
(* its transfer when the bus is ready, and the granted one begins.         *)
LEMMA EdgeIsCrossbarStep ==
  ASSUME IInv, IInv', NEW g \in Grants, HclkEdge(g)
  PROVE  XB!Next
<1> DEFINE done == {m \in Managers : mif[m].dph /\ hreadyout}
<1>0. TypeOK /\ OneDataPhase /\ Tracked /\ ManagerEdge /\ mif' = ManagerMux(g)
  BY DEF IInv, HclkEdge
<1>1. /\ BusAphs(g) \subseteq Managers
      /\ \A m, n \in BusAphs(g) : m = n
      /\ \A m \in BusAphs(g) : hreadyout /\ dp'[m] \in Xfers
  BY <1>0, BusFacts
<1>2. \A m \in Managers :
        /\ mif'[m].dph <=> m \in BusAphs(g) \/ (mif[m].dph /\ ~hreadyout)
        /\ mif[m].dph /\ ~hreadyout => dp'[m] = dp[m]
  BY <1>0, MifStep
<1>3. \A m \in Managers : mif[m].dph => dp[m] \in Xfers /\ dp[m].m = m
  BY <1>0 DEF Tracked, TypeOK, XfersOf, XferOrNone
<1>4. \A m \in Managers : mif[m].dph => Executions = {<<Decoded(dp[m]), dp[m]>>}
  BY ExecutionsAre DEF OneExecution
<1>5. (\A m \in Managers : ~mif[m].dph) => Executions = {}
  BY ExecutionsAre DEF OneExecution
<1>6. /\ \A m \in Managers : mif'[m].dph => Executions' = {<<Decoded(dp'[m]), dp'[m]>>}
      /\ (\A m \in Managers : ~mif'[m].dph) => Executions' = {}
  <2>1. OneExecution'
    BY ExecutionsAre, PTL
  <2> QED
    BY <2>1 DEF OneExecution, Decoded
<1>7. done \in SUBSET {e[2].m : e \in Executions}
  <2>1. ASSUME NEW m \in done PROVE m \in {e[2].m : e \in Executions}
    <3>1. <<Decoded(dp[m]), dp[m]>> \in Executions /\ dp[m].m = m
      BY <1>3, <1>4, <2>1
    <3> QED
      BY <3>1
  <2> QED
    BY <2>1
<1>8. XB!Issue(done)
  <2>1. DOMAIN dp' = Managers
    BY <1>0 DEF ManagerEdge
  <2>2. ASSUME NEW m \in Managers
        PROVE  /\ dp'[m] \in {x \in Xfers : x.m = m} \cup {None}
               /\ dp[m] # None /\ m \notin done => dp'[m] = dp[m]
    <3>1. dp'[m] = IF m_hready(m) THEN aph[m] ELSE dp[m]
      BY <1>0 DEF ManagerEdge
    <3>2. {aph[m], dp[m]} \subseteq XfersOf(m) \cup {None}
      BY <1>0 DEF TypeOK
    <3>3. dp[m] # None /\ m_hready(m) => m \in done
      BY <1>0 DEF Tracked, m_hready, m_hreadyout
    <3> QED
      BY <3>1, <3>2, <3>3 DEF XfersOf
  <2> QED
    BY <2>1, <2>2 DEF XB!Issue
<1>9. XB!Execute(done)
  <2> DEFINE before == {e \in Executions : e[2].m \notin done}
  <2>1. CASE ~hreadyout
    <3>1. Executions' = Executions
      <4>1. \A m \in Managers : (mif'[m].dph <=> mif[m].dph) /\ (mif[m].dph => dp'[m] = dp[m])
        BY <1>1, <1>2, <2>1
      <4> QED
        BY <1>4, <1>5, <1>6, <4>1
    <3>2. \A e, f \in Executions : e[1] = f[1] => e = f
      BY <1>4, <1>5
    <3> QED
      BY <2>1, <3>1, <3>2 DEF XB!Execute
  <2>2. CASE hreadyout
    <3>1. before = {}
      <4>1. ASSUME NEW m \in Managers, mif[m].dph PROVE before = {}
        BY <1>3, <1>4, <2>2, <4>1
      <4> QED
        BY <1>5, <4>1
    <3>2. CASE BusAphs(g) = {}
      <4>1. Executions' = {}
        BY <1>2, <1>6, <2>2, <3>2
      <4> QED
        BY <3>1, <4>1 DEF XB!Execute
    <3>3. CASE BusAphs(g) # {}
      <4>1. PICK w \in BusAphs(g) : TRUE
        BY <3>3
      <4>2. /\ w \in Managers /\ mif'[w].dph /\ dp'[w] \in Xfers
            /\ Executions' = {<<Decoded(dp'[w]), dp'[w]>>}
        BY <1>1, <1>2, <1>6, <4>1
      <4>3. dp'[w].m = w
        BY <1>0, <4>2 DEF ManagerEdge, TypeOK, XfersOf
      <4> QED
        BY <3>1, <4>2, <4>3 DEF XB!Execute
    <3> QED
      BY <3>2, <3>3
  <2> QED
    BY <2>1, <2>2
<1> QED
  BY <1>7, <1>8, <1>9 DEF XB!Next

(* The generic fabric is a crossbar: each transfer a manager issues is     *)
(* executed once, alone and unchanged, by the target its address decodes   *)
(* to, and its manager is held until then and no longer.                   *)
THEOREM GenericImplementsCrossbar == Spec => ImplementsCrossbar
<1>1. Init => XB!Init
  <2>1. ASSUME Init PROVE XB!Init
    <3>1. Executions = {}
      <4>1. \A m \in Managers : ~mif[m].dph
        BY <2>1 DEF Init, MifReset
      <4> QED
        BY <2>1, <4>1, InitHolds, ExecutionsAre DEF OneExecution
    <3> QED
      BY <2>1, <3>1 DEF Init, XB!Init
  <2> QED
    BY <2>1
<1>2. IInv /\ IInv' /\ [Next]_vars => [XB!Next]_(XB!vars)
  <2>1. ASSUME IInv, IInv', Next PROVE XB!Next
    BY <2>1, EdgeIsCrossbarStep DEF Next
  <2>2. ASSUME UNCHANGED vars PROVE UNCHANGED XB!vars
    <3>1. Executions' = Executions
      BY <2>2 DEF vars, Executions, Executed, hwdata, Targets
    <3> QED
      BY <2>2, <3>1 DEF vars, XB!vars
  <2> QED
    BY <2>1, <2>2
<1> QED
  BY <1>1, <1>2, GenericInvariant, PTL DEF Spec, ImplementsCrossbar, XB!Spec
================================================================================
