---------------------------- MODULE AclintDriver ----------------------------
(***************************************************************************)
(* A hart running the ACLINT C driver on Mtimer: it moves its deadline with *)
(* the driver's stores, reads MTIME_LO and goes to sleep in WFI at any      *)
(* point between calls.  The chip may stop the oscillator as soon as        *)
(* nobody requests the clock; the controller's enable is the OR of every    *)
(* IP's request, so HONOURS is TRUE.                                        *)
(***************************************************************************)
EXTENDS Mtimer, Sequences

CONSTANT Deadlines  \* the arguments aclint_timer_set is called with

ASSUME DeadlineAssumption == Deadlines \subseteq Times
ASSUME HonoursAssumption == HONOURS

VARIABLE cpu  \* the hart: awake or in WFI, the call's stores still to issue,
              \* the deadline before the call and the one it sets
dvars == <<mvars, cpu>>

(* BUG: the halves are stored without covering the low half first. *)
Bug_two_stores(d) == <<Store("mtimecmp", "hi", d), Store("mtimecmp", "lo", d)>>
aclint_timer_set(d) ==
  <<Store("mtimecmp", "lo", AllOnes), Store("mtimecmp", "hi", d), Store("mtimecmp", "lo", d)>>

aclint_timer_disable ==
  <<Store("mtimecmp", "lo", AllOnes), Store("mtimecmp", "hi", AllOnes)>>

Call(stores, d) ==
  /\ cpu.pc = "run" /\ cpu.todo = <<>>
  /\ HclkEdge(Head(stores), TRUE)
  /\ cpu' = [pc |-> "run", todo |-> Tail(stores), new |-> d,
             old |-> IF Stored("mtimecmp") = {} THEN cpu.new ELSE Least(cpu.old, cpu.new)]

NextStore ==
  /\ cpu.todo # <<>>
  /\ HclkEdge(Head(cpu.todo), TRUE)
  /\ cpu' = [cpu EXCEPT !.todo = Tail(@)]

aclint_mtime_lo ==
  /\ cpu.pc = "run" /\ cpu.todo = <<>>
  /\ HclkEdge(ReadLo, TRUE)
  /\ UNCHANGED cpu

Compute == cpu.pc = "run" /\ HclkEdge(NoAccess, TRUE) /\ UNCHANGED cpu

Wfi ==
  /\ cpu.pc = "run" /\ cpu.todo = <<>> /\ dph # ReadLo
  /\ HclkEdge(NoAccess, TRUE)
  /\ cpu' = [cpu EXCEPT !.pc = "wfi"]

(* The hart samples MTIP live: it cannot stay asleep, nor let the clock go, *)
(* while MTIP is high.                                                      *)
Sleep ==
  /\ cpu.pc = "wfi" /\ ~irq_m_timer
  /\ \E other \in BOOLEAN : HclkEdge(NoAccess, other)
  /\ UNCHANGED cpu

(* MTIP or another interrupt. *)
Resume ==
  /\ cpu.pc = "wfi"
  /\ HclkEdge(NoAccess, TRUE)
  /\ cpu' = [cpu EXCEPT !.pc = "run"]

DInit == MInit /\ cpu = [pc |-> "run", todo |-> <<>>, old |-> AllOnes, new |-> AllOnes]

HartStep ==
  \/ \E d \in Deadlines : Call(aclint_timer_set(d), d)
  \/ Call(aclint_timer_disable, AllOnes)
  \/ NextStore \/ aclint_mtime_lo \/ Compute \/ Wfi \/ Sleep \/ Resume
DNext == HartStep \/ (LfStep /\ UNCHANGED cpu)

(* clk_lf never stops; the oscillator toggles while it is enabled. *)
Fairness ==
  /\ WF_dvars(HartStep)
  /\ WF_dvars(LfRise /\ UNCHANGED cpu)
  /\ WF_dvars(LfFall /\ UNCHANGED cpu)
DSpec == DInit /\ [][DNext]_dvars /\ Fairness

----------------------------------------------------------------------------
(* The oscillator does not stop under a hart that runs, a transfer or a     *)
(* store on its way, though they may come up while a stop is under way.     *)
RequestsHoldClock ==
  cpu.pc = "run" \/ dph # NoAccess \/ wr_pending => osc_en_o(osc)

(* The chip never sleeps through a deadline: at the LF edge on which MTIME  *)
(* reaches MTIMECMP as software last stored it, the oscillator is running   *)
(* or is started, also when WFI follows the store at once.                  *)
NoOversleep == [][LfRise /\ cnt'.mtime >= wr.cmp_s1 => osc_en_o(osc')]_dvars

(* MTIP is never raised before its time: not by an old mirror, and not by   *)
(* the comparands in between while a deadline is moved.                     *)
NoSpuriousTimer ==
  irq_m_timer =>
    cnt.mtime >= IF cpu.todo = <<>> /\ Stored("mtimecmp") = {} THEN cpu.new
                 ELSE Least(cpu.old, cpu.new)

(* What a completing MTIME_LO read returns is at most one tick old, also    *)
(* the first one after a sleep of any length.                               *)
ReadIsCurrent == dph = ReadLo /\ reg_ready => cnt.mtime <= view.mirror + 1

(* A hart asleep with its deadline reached wakes up. *)
DeadlineServed == cpu.pc = "wfi" /\ cnt.mtime >= wr.cmp_s1 ~> cpu.pc = "run"
============================================================================
