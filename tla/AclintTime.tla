----------------------------- MODULE AclintTime -----------------------------
(***************************************************************************)
(* The time calls of the ACLINT C driver, load by load and store by store,  *)
(* made by one context (a hart's main code or an ISR) among any number of   *)
(* others that load MTIME_LO whenever they like, and so move the one        *)
(* snapshot of its high half.  Nobody else moves this hart's deadline: the  *)
(* driver forbids calls for one hart to interleave.  MTIME is not written   *)
(* meanwhile; that it never goes back otherwise is what Mtimer shows.       *)
(***************************************************************************)
EXTENDS Integers

CONSTANTS
  LO_MOD,    \* values of a 32-bit word, as the low half of MTIME
  HI_MOD,    \* values of the high half
  BITS,      \* width of MTIME and of the driver's uint64_t
  MAX_TIME,  \* bound: the last MTIME value reached
  MAX_GAP,   \* the ticks a busy wait may be kept from polling
  Ticks,     \* the arguments of aclint_timer_set_rel
  Waits      \* the delays: [t, hz, d] lasts t/d seconds at hz ticks a second

ACLINT_MTIMECMP_DISARMED == LO_MOD * HI_MOD - 1
ACLINT_DELAY_CHUNK == LO_MOD \div 2 - 1
Times == 0..ACLINT_MTIMECMP_DISARMED

(* The weights of the bits of a time. *)
Pow2[i \in 0..BITS] == IF i = 0 THEN 1 ELSE 2 * Pow2[i - 1]

ASSUME WordAssumption == LO_MOD \in Nat /\ LO_MOD >= 4 /\ HI_MOD \in Nat \ {0}
ASSUME WidthAssumption == BITS \in Nat /\ Pow2[BITS] = LO_MOD * HI_MOD
ASSUME TimeAssumption == MAX_TIME \in Times /\ Ticks \subseteq Times
ASSUME GapAssumption == MAX_GAP \in 1..ACLINT_DELAY_CHUNK
(* t, hz and d are words and a time has two, so that the dividend fits.     *)
ASSUME WaitAssumption ==
  /\ Waits \subseteq [t : Nat, hz : Nat \ {0}, d : Nat \ {0}]
  /\ \A w \in Waits : w.t * w.hz + w.d - 1 < LO_MOD * HI_MOD

VARIABLES
  now,   \* MTIME
  snap,  \* the high half latched by the last MTIME_LO load of anybody
  cmp,   \* MTIMECMP of this hart
  due,   \* the moment a deadline was asked for: the previous one and the last
  cpu,   \* the call being made, its next access, its arguments and locals
  busy   \* the locals of a delay, and the ticks since it last polled
vars == <<now, snap, cmp, due, cpu, busy>>

Hi(t) == t \div LO_MOD
Lo(t) == t % LO_MOD
Join(hi, lo) == hi * LO_MOD + lo
Least(a, b) == IF a < b THEN a ELSE b

----------------------------------------------------------------------------
(* Helpers of the calls.                                                    *)

(* BUG: the sum wraps round to a time long past. *)
Bug_deadline_wraps(t, ticks) == (t + ticks) % (LO_MOD * HI_MOD)
Deadline(t, ticks) ==
  LET sum == (t + ticks) % (LO_MOD * HI_MOD)
  IN IF sum < t THEN ACLINT_MTIMECMP_DISARMED ELSE sum

Bit(n, i) == (n \div Pow2[i]) % 2

(* n / d by shift-subtract from the top bit down: the quotient and the      *)
(* remainder after each step.                                               *)
Division(n, d) ==
  LET after[k \in 0..BITS] ==
        IF k = 0 THEN [q |-> 0, r |-> 0]
        ELSE LET p == after[k - 1]
                 r == 2 * p.r + Bit(n, BITS - k)
             IN IF r >= d THEN [q |-> p.q + Pow2[BITS - k], r |-> r - d]
                ELSE [q |-> p.q, r |-> r]
  IN after

(* (t * hz) / d rounded up. *)
ticks_ceil(t, hz, d) == Division((t * hz + (d - 1)) % Pow2[BITS], d)[BITS].q
TicksOf(w) == ticks_ceil(w.t, w.hz, w.d)

(* BUG: the period the wait starts in is counted as a whole one. *)
Bug_no_extra_tick(ticks) == ticks
(* One tick more: the wait starts anywhere inside the current period. *)
Left(ticks) == IF ticks = LO_MOD * HI_MOD - 1 THEN ticks ELSE ticks + 1

(* BUG: a chunk as long as the word allows. *)
Bug_longest_chunk(left) == Least(left, LO_MOD - 1)
Chunk(left) == Least(left, ACLINT_DELAY_CHUNK)

----------------------------------------------------------------------------
Entered(call, pc, from, arg, ret) ==
  [call |-> call, pc |-> pc, from |-> from, arg |-> arg, ret |-> ret,
   hi |-> 0, lo |-> 0, at |-> 0]
NotBusy == [wait |-> [t |-> 0, hz |-> 1, d |-> 1], t0 |-> 0, left |-> 0, gap |-> 0]

Enter(call, wait) ==
  /\ cpu.pc = "done" /\ cpu' = call
  /\ busy' = wait
  /\ UNCHANGED <<now, snap, cmp, due>>

aclint_mtime_read == Enter(Entered("read", "hi", now, 0, 0), NotBusy)
aclint_timer_set_rel(ticks) == Enter(Entered("set_rel", "hi", now, ticks, 0), NotBusy)
aclint_timer_disable ==
  Enter(Entered("disable", "cover", 0, 0, ACLINT_MTIMECMP_DISARMED), NotBusy)
(* aclint_timer_get comes first, its two loads of a deadline nobody moves. *)
aclint_timer_expired == Enter(Entered("expired", "hi", now, cmp, 0), NotBusy)
aclint_delay_ticks(w) ==
  Enter(Entered("delay", IF TicksOf(w) = 0 THEN "done" ELSE "t0", now, 0, 0),
        [NotBusy EXCEPT !.wait = w])

(* An MTIME_LO load latches the high half for the next MTIME_HI load. *)
Latch == snap' = Hi(now)
OtherLoad == Latch /\ UNCHANGED <<now, cmp, due, cpu, busy>>

LoadHi ==
  /\ cpu.pc = "hi"
  /\ cpu' = [cpu EXCEPT !.pc = "lo", !.hi = snap]
  /\ UNCHANGED <<now, snap, cmp, due, busy>>

LoadLo ==
  /\ cpu.pc = "lo" /\ Latch
  /\ cpu' = [cpu EXCEPT !.pc = "hi2", !.lo = Lo(now), !.at = now]
  /\ UNCHANGED <<now, cmp, due, busy>>

(* What the caller of aclint_mtime_read makes of the time it returns. *)
Answer(t) ==
  CASE cpu.call = "read" -> t
    [] cpu.call = "set_rel" -> Deadline(t, cpu.arg)
    [] cpu.call = "expired" -> IF t >= cpu.arg THEN 1 ELSE 0
Return ==
  cpu' = [cpu EXCEPT !.ret = Answer(Join(snap, cpu.lo)),
                     !.pc = IF cpu.call = "set_rel" THEN "cover" ELSE "done"]

(* BUG: the second high half is taken without the comparison. *)
Bug_no_retry == cpu.pc = "hi2" /\ Return /\ UNCHANGED <<now, snap, cmp, due, busy>>
LoadHi2 ==
  /\ cpu.pc = "hi2"
  /\ IF snap = cpu.hi THEN Return ELSE cpu' = [cpu EXCEPT !.pc = "hi"]
  /\ UNCHANGED <<now, snap, cmp, due, busy>>

(* The moment asked for; a sum that overflows is never reached. *)
Asked ==
  IF cpu.call = "disable" THEN ACLINT_MTIMECMP_DISARMED
  ELSE Least(cpu.from + cpu.arg, ACLINT_MTIMECMP_DISARMED)

StoreCover ==
  /\ cpu.pc = "cover"
  /\ cmp' = Join(Hi(cmp), LO_MOD - 1)
  /\ due' = [old |-> due.new, new |-> Asked]
  /\ cpu' = [cpu EXCEPT !.pc = "high"]
  /\ UNCHANGED <<now, snap, busy>>

(* aclint_timer_disable is done: the low half it wants is the covering one. *)
StoreHigh ==
  /\ cpu.pc = "high"
  /\ cmp' = Join(Hi(cpu.ret), Lo(cmp))
  /\ cpu' = [cpu EXCEPT !.pc = IF cpu.call = "disable" THEN "done" ELSE "low"]
  /\ due' = IF cpu.call = "disable" THEN [old |-> due.new, new |-> due.new] ELSE due
  /\ UNCHANGED <<now, snap, busy>>

StoreLow ==
  /\ cpu.pc = "low"
  /\ cmp' = Join(Hi(cmp), Lo(cpu.ret))
  /\ due' = [old |-> due.new, new |-> due.new]
  /\ cpu' = [cpu EXCEPT !.pc = "done"]
  /\ UNCHANGED <<now, snap, busy>>

LoadT0 ==
  /\ cpu.pc = "t0" /\ Latch
  /\ cpu' = [cpu EXCEPT !.pc = "poll"]
  /\ busy' = [busy EXCEPT !.t0 = Lo(now), !.left = Left(TicksOf(busy.wait)), !.gap = 0]
  /\ UNCHANGED <<now, cmp, due>>

Poll ==
  LET chunk == Chunk(busy.left) IN
  /\ cpu.pc = "poll" /\ Latch
  /\ IF (Lo(now) - busy.t0) % LO_MOD < chunk
     THEN busy' = [busy EXCEPT !.gap = 0] /\ UNCHANGED cpu
     ELSE /\ busy' = [busy EXCEPT !.t0 = (@ + chunk) % LO_MOD, !.left = @ - chunk, !.gap = 0]
          /\ cpu' = [cpu EXCEPT !.pc = IF busy.left = chunk THEN "done" ELSE "poll"]
  /\ UNCHANGED <<now, cmp, due>>

----------------------------------------------------------------------------
Waiting == cpu.pc \in {"t0", "poll"}

(* A period of MTIME ends.  A busy wait polls again within MAX_GAP of them. *)
Tick ==
  /\ now < MAX_TIME /\ now' = now + 1
  /\ Waiting => busy.gap < MAX_GAP
  /\ busy' = IF Waiting THEN [busy EXCEPT !.gap = @ + 1] ELSE busy
  /\ UNCHANGED <<snap, cmp, due, cpu>>

Init ==
  /\ now = 0 /\ snap = 0
  /\ cmp = ACLINT_MTIMECMP_DISARMED
  /\ due = [old |-> ACLINT_MTIMECMP_DISARMED, new |-> ACLINT_MTIMECMP_DISARMED]
  /\ cpu = Entered("none", "done", 0, 0, 0) /\ busy = NotBusy

Call ==
  \/ aclint_mtime_read \/ aclint_timer_expired \/ aclint_timer_disable
  \/ \E ticks \in Ticks : aclint_timer_set_rel(ticks)
  \/ \E w \in Waits : aclint_delay_ticks(w)
Access ==
  \/ LoadHi \/ LoadLo \/ LoadHi2 \/ StoreCover \/ StoreHigh \/ StoreLow
  \/ LoadT0 \/ Poll
Next == Tick \/ OtherLoad \/ Call \/ Access
Spec == Init /\ [][Next]_vars

----------------------------------------------------------------------------
MTIP == now >= cmp

(* A time read while others move the shared snapshot is the time of one     *)
(* instant within the call, its last MTIME_LO load, and not two halves of   *)
(* different ones; aclint_timer_expired answers MTIP at that instant.       *)
AnswerOfOneInstant ==
  /\ cpu.call = "read" /\ cpu.pc = "done" => cpu.ret = cpu.at /\ cpu.at \in cpu.from..now
  /\ cpu.call = "expired" /\ cpu.pc = "done" => ((cpu.ret = 1) <=> (cpu.at >= cmp))

(* A relative deadline raises MTIP no earlier than that many ticks after    *)
(* the call, or never when the sum overflows, and not while it is moved     *)
(* either, unless the previous deadline was reached.                        *)
NoEarlyAlarm == MTIP => now >= Least(due.old, due.new)

(* A delay lasts at least the time asked for in whole MTIME periods, the    *)
(* one it started in not counted (but of UINT64_MAX ticks, which have no    *)
(* successor): rounding, chunks and wraps of the low word never cut it      *)
(* short.                                                                   *)
Started(ticks) == IF ticks = LO_MOD * HI_MOD - 1 THEN 0 ELSE 1
DelayNeverShort ==
  cpu.call = "delay" /\ cpu.pc = "done" /\ busy.wait.t > 0 =>
    (now - cpu.from - Started(TicksOf(busy.wait))) * busy.wait.d >= busy.wait.t * busy.wait.hz

(* Nor does a delay miss its end when the low word wraps: at most one gap   *)
(* before its first load, one at its end and one at its last full chunk.    *)
DelayEndsOnTime == Waiting => now <= cpu.from + TicksOf(busy.wait) + 1 + 3 * MAX_GAP
============================================================================
