------------------------------ MODULE MCMtimer ------------------------------
(* Model checking of Mtimer: MTIME stored to and read in any cycle, under a *)
(* chip that may stop the oscillator at any time.                           *)
EXTENDS Mtimer

MCTraffic == {Store("mtime", h, t) : h \in Halves, t \in {1}}
=============================================================================
