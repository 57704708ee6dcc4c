------------------------------ MODULE MCAhbGeneric ------------------------------
(* Model checking of AhbGeneric: two managers, two subordinates, and an     *)
(* address of nobody.  Each manager has one transfer to each, and the two   *)
(* managers write different data.                                           *)
EXTENDS AhbGeneric

X(m, a, d) == [m |-> m, addr |-> a, data |-> d]
MCXfers ==
  {X("m0", "s1", {0}), X("m0", "s2", {1}), X("m0", "hole", {0}),
   X("m1", "s1", {1}), X("m1", "s2", {0}), X("m1", "hole", {1})}
================================================================================
