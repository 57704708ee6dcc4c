----------------------------- MODULE PlicArbiter -----------------------------
(***************************************************************************)
(* The claim arbiter of plic_target as it is built, a binary tree of       *)
(* two-way comparisons over the source numbers, against the definition     *)
(* Plic uses for the same winner.                                          *)
(***************************************************************************)
EXTENDS Plic

CONSTANT LEAF_W  \* the levels of the tree: $clog2(NUM_SOURCES + 1)

(* The nodes of a level, counted from the root's: NLEAF at the leaves.      *)
Pow2[i \in 0 .. LEAF_W] == IF i = 0 THEN 1 ELSE 2 * Pow2[i - 1]

ASSUME LeafAssumption ==
  /\ LEAF_W \in Nat \ {0}
  /\ Pow2[LEAF_W - 1] < NUM_SOURCES + 1 /\ NUM_SOURCES + 1 <= Pow2[LEAF_W]

(* A leaf per ID; ID 0 and those past the last source never qualify. *)
Leaf(c, k) == [v  |-> k \in Qualifying(c),
               p  |-> IF k \in Sources THEN prio[k] ELSE 0,
               id |-> k]

(* The right child is the higher ID: it wins only if strictly higher. *)
Bug_right_wins_ties(l, r) ==
  IF r.v /\ (~l.v \/ r.p >= l.p) THEN [r EXCEPT !.v = l.v \/ r.v] ELSE [l EXCEPT !.v = l.v \/ r.v]
Node(l, r) ==
  IF r.v /\ (~l.v \/ r.p > l.p) THEN [r EXCEPT !.v = TRUE] ELSE [l EXCEPT !.v = l.v \/ r.v]

(* The nodes of level gl over their leaves. *)
G_LVL(c) ==
  LET lvl[gl \in 0 .. LEAF_W] ==
        IF gl = 0 THEN [k \in 0 .. Pow2[LEAF_W] - 1 |-> Leaf(c, k)]
        ELSE LET below == lvl[gl - 1]
             IN  [k \in 0 .. Pow2[LEAF_W - gl] - 1 |-> Node(below[2 * k], below[2 * k + 1])]
  IN  lvl

top_id_claim(c) == LET root == G_LVL(c)[LEAF_W][0] IN IF root.v THEN root.id ELSE 0

(* In every context the tree returns the highest-priority qualifying       *)
(* source, the lowest ID among equals, and 0 when none qualifies; and the  *)
(* context is notified, by comparisons of its own that the tree has no     *)
(* part in, exactly when the source it would claim is above its threshold. *)
TreeFindsBest ==
  \A c \in Contexts :
    LET id == top_id_claim(c)
    IN  /\ id = top_source_id(c)
        /\ irq_o(c) <=> id # 0 /\ prio[id] > threshold[c]
============================================================================
