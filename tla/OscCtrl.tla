------------------------------- MODULE OscCtrl -------------------------------
(* arv_osc_ctrl: stops the oscillator one edge after announcing it, and     *)
(* starts it again on an asynchronous wake.  Operators on its registers:    *)
(* `hold' counts the edges until the preset that wake asserts is released.  *)
EXTENDS Naturals

Osc == [hold: 0 .. 2, announce: BOOLEAN, run: BOOLEAN]

(* Reset and wake preset both flops, whether or not a clock runs. *)
OscPreset == [hold |-> 2, announce |-> TRUE, run |-> TRUE]

clk_en_o(o) == o.announce
osc_en_o(o) == o.run

(* BUG: a request inside the announce window does not cancel the stop. *)
Bug_OscEdge(o, wake, enable) ==
  IF wake THEN OscPreset
  ELSE IF o.hold > 0 THEN [OscPreset EXCEPT !.hold = o.hold - 1]
  ELSE [hold |-> 0, announce |-> enable, run |-> o.announce]

(* One edge of the oscillator. *)
OscEdge(o, wake, enable) ==
  IF wake THEN OscPreset
  ELSE IF o.hold > 0 THEN [OscPreset EXCEPT !.hold = o.hold - 1]
  ELSE [hold |-> 0, announce |-> enable, run |-> o.announce \/ enable]
==============================================================================
