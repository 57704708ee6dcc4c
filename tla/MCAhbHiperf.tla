------------------------------- MODULE MCAhbHiperf -------------------------------
(* Model checking of AhbHiperf: the fetch port and a data manager, one       *)
(* executable subordinate both sides reach, one that only the data side      *)
(* reaches, and a fetch astray.  The manager multiplexer of the data side is *)
(* that of the generic fabric, which is checked with several managers there. *)
EXTENDS AhbHiperf

X(m, a, d) == [m |-> m, addr |-> a, data |-> d]
MCXfers ==
  {X("fetch", "rom", {}), X("fetch", "periph", {}),
   X("d0", "rom", {0}), X("d0", "periph", {1})}
================================================================================
