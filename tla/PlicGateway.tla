----------------------------- MODULE PlicGateway -----------------------------
(***************************************************************************)
(* What the interrupt controller promises about each source: a level       *)
(* request is forwarded once, stays pending until one claim takes it, and  *)
(* is not forwarded again before the claim is completed.  At most one      *)
(* source is claimed, or one completed, at a time.                         *)
(***************************************************************************)
EXTENDS Integers, FiniteSets

CONSTANT Sources

VARIABLES
  gateway,  \* "idle", "pending" or "in_service", per source
  line      \* sources whose request line is high

gvars == <<gateway, line>>

Init ==
  /\ gateway = [s \in Sources |-> "idle"]
  /\ line \in SUBSET Sources

InState(st) == {s \in Sources : gateway[s] = st}

(* One clock edge: idle sources whose line is high become pending. *)
Advance(claimed, completed) ==
  /\ gateway' = [s \in Sources |->
                   IF s \in claimed THEN "in_service"
                   ELSE IF s \in completed THEN "idle"
                   ELSE IF gateway[s] = "idle" /\ s \in line THEN "pending"
                   ELSE gateway[s]]
  /\ UNCHANGED line

Clock ==
  \/ Advance({}, {})
  \/ \E s \in InState("pending")    : Advance({s}, {})
  \/ \E s \in InState("in_service") : Advance({}, {s})

LineChange(s) ==
  /\ line' = IF s \in line THEN line \ {s} ELSE line \cup {s}
  /\ UNCHANGED gateway

Next == Clock \/ \E s \in Sources : LineChange(s)

Spec == Init /\ [][Next]_gvars

============================================================================
