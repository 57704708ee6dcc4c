------------------------------- MODULE AhbBlocks -------------------------------
(***************************************************************************)
(* The building blocks of the AHB interconnect, as functions of their      *)
(* registers and inputs: the per-manager front end (ahb_manager_if), the   *)
(* default subordinate and the two-channel arbiter (ahb_arbiter_2m), and   *)
(* the two AHB parties outside the fabric, a manager and a subordinate.    *)
(* AhbGeneric and AhbHiperf wire them together as the two top levels do.   *)
(*                                                                         *)
(* A transfer is one value, its address phase fields and its write data    *)
(* together; None stands for HTRANS = IDLE or BUSY.                        *)
(***************************************************************************)
EXTENDS Naturals

CONSTANTS
  Xfers,     \* the transfers: records with a manager m, an address addr and data
  None,      \* no transfer
  MAX_WAIT   \* most wait states a subordinate inserts

ASSUME BlocksAssumption ==
  /\ \A x \in Xfers : x = [m |-> x.m, addr |-> x.addr, data |-> x.data]
  /\ None \notin Xfers
  /\ MAX_WAIT \in Nat

XferOrNone == Xfers \cup {None}
XfersOf(m) == {x \in Xfers : x.m = m}

----------------------------------------------------------------------------
(* ahb_manager_if: f is its registers, aph the address phase its manager   *)
(* presents, valid that this is the last cycle of it, grant the arbiter's  *)
(* answer and hreadyout the readiness of the bus behind it.                *)
Mif      == {f \in [pending: BOOLEAN, cache: XferOrNone, dph: BOOLEAN] :
               f.pending => f.cache \in Xfers}
MifReset == [pending |-> FALSE, cache |-> None, dph |-> FALSE]

m_hreadyout(f, hreadyout) == IF f.dph THEN hreadyout ELSE ~f.pending
m_request(f, valid, hreadyout) == (valid \/ f.pending) /\ hreadyout

m_grant_eff(grant, hreadyout) == grant /\ hreadyout
m_aph_granted(f, valid, grant, hreadyout) ==
  (valid \/ f.pending) /\ m_grant_eff(grant, hreadyout)

Bug_cache_not_replayed(f, aph) == aph
m_aph(f, aph) == IF f.pending THEN f.cache ELSE aph

MifNext(f, aph, valid, grant, hreadyout) ==
  LET eff     == m_grant_eff(grant, hreadyout)
      latch   == valid /\ ~eff
      granted == m_aph_granted(f, valid, grant, hreadyout)
  IN [pending |-> latch \/ (f.pending /\ ~eff),
      cache   |-> IF latch THEN aph ELSE f.cache,
      dph     |-> granted \/ (f.dph /\ ~hreadyout)]

mif_hclk_en(f, valid) == valid \/ f.pending \/ f.dph

----------------------------------------------------------------------------
(* ahb_default_subordinate: the two data phase flops. *)
Dflt      == [p0: BOOLEAN, p1: BOOLEAN]
DfltReset == [p0 |-> FALSE, p1 |-> FALSE]
DfltNext(d, addr_phase) == [p0 |-> addr_phase, p1 |-> d.p0]
dflt_hresp(d)     == d.p0 \/ d.p1
Bug_dflt_one_cycle(d) == TRUE
dflt_hreadyout(d) == ~d.p0

(* ahb_arbiter_2m: the channels that request, in order of preference; the  *)
(* one granted last goes behind the other.                                 *)
Arbitrate(first, second, requests) ==
  IF requests[first] THEN {first} ELSE IF requests[second] THEN {second} ELSE {}

----------------------------------------------------------------------------
(* A subordinate outside the fabric.  It samples the address phase x of a  *)
(* bus that is ready, inserts some wait states and answers OKAY, or ERROR  *)
(* in two cycles.  Its hreadyout and hresp are registered.                 *)
Sub      == {s \in [dp: XferOrNone, wait: 0 .. MAX_WAIT, resp: {"okay", "err1", "err2"}] :
               s.resp = "err2" => s.wait = 0}
SubReset == [dp |-> None, wait |-> 0, resp |-> "okay"]

s_hreadyout(s) == s.wait = 0 /\ s.resp # "err1"
s_hresp(s)     == s.wait = 0 /\ s.resp # "okay"

Replies == [wait: 0 .. MAX_WAIT, resp: {"okay", "err1"}]
SubNext(s, x, hready, reply) ==
  IF hready
  THEN IF x = None THEN SubReset
       ELSE [dp |-> x, wait |-> reply.wait, resp |-> reply.resp]
  ELSE IF s.wait > 0 THEN [s EXCEPT !.wait = @ - 1]
  ELSE IF s.resp = "err1" THEN [s EXCEPT !.resp = "err2"] ELSE s

(* What a manager may present next: it holds an address phase the bus has  *)
(* not taken, except that an ERROR lets it cancel; it may begin one late.  *)
AphNext(m, aph, hready, hresp) ==
  IF hready \/ aph = None THEN XfersOf(m) \cup {None}
  ELSE IF hresp THEN {aph, None} ELSE {aph}
================================================================================
