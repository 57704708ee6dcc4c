-------------------------------- MODULE Crossbar --------------------------------
(***************************************************************************)
(* What the AHB interconnect promises to the parties on its ports: a       *)
(* manager has one transfer outstanding at a time; the subordinate its     *)
(* address belongs to executes it, unchanged, exactly once and alone; and  *)
(* the manager's transfer is over when, and only when, that execution is.  *)
(* The order in which competing transfers are executed is left open.       *)
(***************************************************************************)
CONSTANTS Managers, Xfers, None,
          Home   \* the target each transfer belongs to

VARIABLES want,  \* the transfer each manager has outstanding
          at     \* the executions in progress: pairs of a target and a transfer

vars == <<want, at>>

Init ==
  /\ want = [m \in Managers |-> None]
  /\ at = {}

(* The transfers of the managers in done end, and those managers and the   *)
(* ones with nothing outstanding may issue their next.                     *)
Issue(done) ==
  /\ DOMAIN want' = Managers
  /\ \A m \in Managers :
       /\ want'[m] \in {x \in Xfers : x.m = m} \cup {None}
       /\ want[m] # None /\ m \notin done => want'[m] = want[m]

(* An execution that is not over goes on; one that begins is of a transfer *)
(* outstanding, at its home; a target executes one at a time.              *)
Execute(done) ==
  LET before == {e \in at : e[2].m \notin done}
      after  == at'
  IN /\ before \subseteq after
     /\ \A e \in after \ before :
          e[2] \in Xfers /\ e[1] = Home[e[2]] /\ want'[e[2].m] = e[2]
     /\ \A e, f \in after : e[1] = f[1] => e = f

Next ==
  \E done \in SUBSET {e[2].m : e \in at} : Issue(done) /\ Execute(done)

Spec == Init /\ [][Next]_vars
================================================================================
