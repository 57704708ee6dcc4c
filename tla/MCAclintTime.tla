---------------------------- MODULE MCAclintTime ----------------------------
(* Deadlines within, across and beyond the range of MTIME, and delays of    *)
(* nothing, of one chunk, of several, of a fraction rounded up and of the   *)
(* most ticks there are.                                                    *)
EXTENDS AclintTime
MCTicks == {1, 5, 12}
MCWaits == [t : 0..3, hz : {3}, d : {2}] \cup {[t |-> n, hz |-> 1, d |-> 1] : n \in {6, 15}}
============================================================================
