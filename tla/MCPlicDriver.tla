---------------------------- MODULE MCPlicDriver ----------------------------
(* Model checking of PlicDriver: the M and S contexts of a hart share three *)
(* devices, the sources 3 to 5 of five, in two enable words and an arbiter  *)
(* tree of eight leaves.                                                    *)
EXTENDS PlicDriver, PlicArbiter

Setup(en, p, th) ==
  [enable |-> en, prio |-> p, threshold |-> [c \in Contexts |-> IF c = 1 THEN th ELSE 0]]

(* All devices enabled in both contexts (multicast), or only one in M; equal *)
(* priorities and different ones; the S context masked or not.              *)
Everywhere == [c \in Contexts |-> Devices]

MCSetups ==
  {Setup(Everywhere, [s \in Sources |-> 1], 1),
   Setup(Everywhere, [s \in Sources |-> IF s = 3 THEN 1 ELSE 2], 1),
   Setup(Everywhere, [s \in Sources |-> IF s = 5 THEN 1 ELSE 2], 0),
   Setup([c \in Contexts |-> IF c = 0 THEN {3} ELSE Devices], [s \in Sources |-> 1], 0)}

(* M-mode code, which handlers interrupt, changes two sources of one word. *)
MCReconfigured == [c \in Contexts |-> IF c = 0 THEN {4, 5} ELSE {}]
============================================================================
