------------------------------ MODULE MCFused ------------------------------
(* Model checking of FusedFabric: two words of each memory, the ROM's       *)
(* distinct so that a mix-up of addresses shows.                            *)
EXTENDS FusedFabric, TLC

CONSTANTS lane, r0, r1
MCRomContent == (r0 :> [l \in Lanes |-> 0]) @@ (r1 :> [l \in Lanes |-> 1])
============================================================================
