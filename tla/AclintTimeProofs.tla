-------------------------- MODULE AclintTimeProofs --------------------------
(***************************************************************************)
(* The time read among others that move the shared snapshot is the time of  *)
(* one instant, a relative deadline raises no early interrupt, and a delay  *)
(* is neither too short nor misses its end, for any width of the halves,    *)
(* any arguments and any traffic.                                           *)
(***************************************************************************)
EXTENDS AclintTime, WellFoundedInduction, TLAPS

(* The two halves of a time: each in its range, and together the time.      *)
LEMMA Halves ==
  ASSUME NEW t \in Nat
  PROVE  Hi(t) \in Nat /\ Lo(t) \in 0..LO_MOD - 1 /\ Join(Hi(t), Lo(t)) = t
  BY WordAssumption, SMTT(30) DEF Hi, Lo, Join

(* Joining two halves loses neither. *)
LEMMA Joined ==
  ASSUME NEW h \in Nat, NEW l \in 0..LO_MOD - 1
  PROVE  Join(h, l) \in Nat /\ Hi(Join(h, l)) = h /\ Lo(Join(h, l)) = l
<1> DEFINE t == Join(h, l)
<1>1. h * LO_MOD \in Nat /\ t \in Nat
  BY WordAssumption, SMTT(30) DEF Join
<1>2. Hi(t) \in Nat /\ Lo(t) \in 0..LO_MOD - 1 /\ Hi(t) * LO_MOD + Lo(t) = h * LO_MOD + l
  BY <1>1, Halves DEF Join
<1>3. Hi(t) = h
  <2>1. (Hi(t) - h) * LO_MOD = l - Lo(t)
    BY <1>1, <1>2, WordAssumption, SMTT(30)
  <2>2. -LO_MOD < l - Lo(t) /\ l - Lo(t) < LO_MOD
    BY <1>2, WordAssumption
  <2>3. CASE Hi(t) - h >= 1
    <3>1. (Hi(t) - h) * LO_MOD >= LO_MOD
      BY <2>3, <1>2, WordAssumption, SMTT(30)
    <3>2. QED
      BY <3>1, <2>1, <2>2, <1>2, WordAssumption
  <2>4. CASE Hi(t) - h <= -1
    <3>1. (Hi(t) - h) * LO_MOD <= -LO_MOD
      BY <2>4, <1>2, WordAssumption, SMTT(30)
    <3>2. QED
      BY <3>1, <2>1, <2>2, <1>2, WordAssumption
  <2>5. QED
    BY <2>3, <2>4, <1>2
<1>4. QED
  BY <1>1, <1>2, <1>3, WordAssumption

(* The high half of a later time is no smaller. *)
LEMMA LaterHigh ==
  ASSUME NEW a \in Nat, NEW b \in Nat, a <= b
  PROVE  Hi(a) <= Hi(b)
<1>1. Hi(a) \in Nat /\ Lo(a) \in 0..LO_MOD - 1 /\ Hi(a) * LO_MOD + Lo(a) = a
  BY Halves DEF Join
<1>2. Hi(b) \in Nat /\ Lo(b) \in 0..LO_MOD - 1 /\ Hi(b) * LO_MOD + Lo(b) = b
  BY Halves DEF Join
<1>3. SUFFICES ASSUME Hi(a) >= Hi(b) + 1 PROVE FALSE
  BY <1>1, <1>2
<1>4. Hi(a) * LO_MOD >= Hi(b) * LO_MOD + LO_MOD
  <2>1. (Hi(a) - Hi(b)) * LO_MOD >= LO_MOD
    BY <1>1, <1>2, <1>3, WordAssumption, SMTT(30)
  <2>2. QED
    BY <2>1, <1>1, <1>2, WordAssumption, SMTT(30)
<1>5. Hi(a) * LO_MOD \in Int /\ Hi(b) * LO_MOD \in Int
  BY <1>1, <1>2, WordAssumption
<1>6. QED
  BY <1>1, <1>2, <1>4, <1>5, WordAssumption

(* Covering the low half never makes a deadline earlier. *)
LEMMA CoverIsLater ==
  ASSUME NEW t \in Nat, NEW h \in Nat, h = Hi(t)
  PROVE  Join(h, LO_MOD - 1) >= t /\ Join(h, LO_MOD - 1) \in Nat
<1>1. Lo(t) \in 0..LO_MOD - 1 /\ Join(Hi(t), Lo(t)) = t
  BY Halves
<1>2. h * LO_MOD \in Nat
  BY WordAssumption, SMTT(30)
<1>3. QED
  BY <1>1, <1>2, WordAssumption DEF Join

(* The range of MTIME, and its last value as two halves. *)
LEMMA LastTime ==
  /\ ACLINT_MTIMECMP_DISARMED \in Nat
  /\ ACLINT_MTIMECMP_DISARMED = Join(HI_MOD - 1, LO_MOD - 1)
  /\ LO_MOD * HI_MOD = ACLINT_MTIMECMP_DISARMED + 1
  /\ LO_MOD - 1 \in 0..LO_MOD - 1
<1>1. LO_MOD * HI_MOD \in Nat /\ LO_MOD * HI_MOD >= 1
  BY WordAssumption, SMTT(30)
<1>2. (HI_MOD - 1) * LO_MOD = LO_MOD * HI_MOD - LO_MOD
  BY WordAssumption, SMTT(30)
<1>3. QED
  BY <1>1, <1>2, WordAssumption DEF ACLINT_MTIMECMP_DISARMED, Join

----------------------------------------------------------------------------
Cpu == [call : {"none", "read", "set_rel", "disable", "expired", "delay"},
        pc : {"done", "hi", "lo", "hi2", "cover", "high", "low", "t0", "poll"},
        from : Nat, arg : Nat, ret : Nat, hi : Nat, lo : Nat, at : Nat]
TypeInv ==
  /\ now \in Times /\ snap \in Nat /\ cmp \in Nat
  /\ due \in [old : Nat, new : Nat]
  /\ cpu \in Cpu

Reading == {"read", "set_rel", "expired"}

(* The snapshot trails MTIME, and a read's first high half the snapshot;    *)
(* between the low half and the second high half the instant lies between   *)
(* the two.                                                                 *)
ReadInv ==
  /\ snap <= Hi(now)
  /\ cpu.pc \in {"hi", "lo", "hi2"} => cpu.call \in Reading /\ cpu.from <= now
  /\ cpu.pc = "lo" => cpu.hi <= snap
  /\ cpu.pc = "hi2" =>
       /\ cpu.lo = Lo(cpu.at) /\ cpu.hi <= Hi(cpu.at) /\ Hi(cpu.at) <= snap
       /\ cpu.from <= cpu.at /\ cpu.at <= now
  /\ cpu.call = "expired" => cpu.arg = cmp
  /\ cpu.pc \in {"cover", "high", "low"} => cpu.call \in {"set_rel", "disable"}
  /\ cpu.pc \in {"t0", "poll"} => cpu.call = "delay"

(* The comparand is no earlier than what was asked for: than the last       *)
(* deadline, or while it is stored, than the one before.                    *)
AlarmInv ==
  /\ due.old <= ACLINT_MTIMECMP_DISARMED /\ due.new <= ACLINT_MTIMECMP_DISARMED
  /\ cpu.call = "set_rel" => cpu.arg \in Times
  /\ cpu.call = "disable" => cpu.ret = ACLINT_MTIMECMP_DISARMED
  /\ cpu.pc \notin {"high", "low"} => cmp >= due.new /\ due.old = due.new
  /\ cpu.pc = "cover" => cpu.ret >= Asked
  /\ cpu.pc \in {"high", "low"} => cpu.ret >= due.new
  /\ cpu.pc = "high" => cmp >= due.old /\ Lo(cmp) = LO_MOD - 1
  /\ cpu.pc = "high" /\ cpu.call = "disable" => due.new = ACLINT_MTIMECMP_DISARMED
  /\ cpu.pc = "low" => cpu.call = "set_rel" /\ cmp >= due.new /\ Hi(cmp) = Hi(cpu.ret)

IInv == TypeInv /\ ReadInv /\ AlarmInv /\ AnswerOfOneInstant

(* What a product of halves needs from arithmetic, once. *)
LEMMA JoinNat ==
  ASSUME NEW h \in Nat, NEW l \in Nat
  PROVE  Join(h, l) \in Nat
<1>1. h * LO_MOD \in Nat
  BY WordAssumption, SMTT(30)
<1>2. QED
  BY <1>1 DEF Join

(* The sum of a time and a delay is never before either, unless disarmed.   *)
LEMMA DeadlineIsLater ==
  ASSUME NEW t \in Times, NEW ticks \in Times
  PROVE  /\ Deadline(t, ticks) \in Nat
         /\ Deadline(t, ticks) >= Least(t + ticks, ACLINT_MTIMECMP_DISARMED)
<1> DEFINE size == ACLINT_MTIMECMP_DISARMED + 1
<1>1. LO_MOD * HI_MOD = size /\ size \in Nat /\ size >= 1 /\ ACLINT_MTIMECMP_DISARMED = size - 1
  BY LastTime
<1>2. t \in 0..size - 1 /\ ticks \in 0..size - 1
  BY <1>1 DEF Times
<1>3. Deadline(t, ticks) = IF (t + ticks) % size < t THEN size - 1 ELSE (t + ticks) % size
  BY <1>1 DEF Deadline
<1> HIDE DEF size
<1>4. CASE t + ticks < size
  <2>1. (t + ticks) % size = t + ticks
    BY <1>1, <1>2, <1>4, SMTT(30)
  <2>2. QED
    BY <1>1, <1>2, <1>3, <2>1 DEF Least
<1>5. CASE t + ticks >= size
  <2>1. (t + ticks) % size = t + ticks - size
    BY <1>1, <1>2, <1>5, SMTT(30)
  <2>2. QED
    BY <1>1, <1>2, <1>3, <1>5, <2>1 DEF Least
<1>6. QED
  BY <1>1, <1>2, <1>4, <1>5

(* What a read returns is the time of its last MTIME_LO load. *)
LEMMA ReturnedTime ==
  ASSUME TypeInv, ReadInv, cpu.pc = "hi2", snap = cpu.hi
  PROVE  Join(snap, cpu.lo) = cpu.at
<1>1. cpu.at \in Nat /\ cpu.hi \in Nat /\ snap \in Nat
  BY DEF TypeInv, Cpu
<1>2. cpu.lo = Lo(cpu.at) /\ cpu.hi <= Hi(cpu.at) /\ Hi(cpu.at) <= snap
  BY DEF ReadInv
<1>3. Hi(cpu.at) \in Nat /\ Join(Hi(cpu.at), Lo(cpu.at)) = cpu.at
  BY <1>1, Halves
<1>4. snap = Hi(cpu.at)
  BY <1>1, <1>2, <1>3
<1>5. QED
  BY <1>2, <1>3, <1>4

----------------------------------------------------------------------------
LEMMA InitIInv == Init => IInv
<1> SUFFICES ASSUME Init PROVE IInv
  OBVIOUS
<1>1. ACLINT_MTIMECMP_DISARMED \in Nat
  BY LastTime
<1>2. Hi(0) \in Nat
  BY Halves
<1>3. cpu = [call |-> "none", pc |-> "done", from |-> 0, arg |-> 0, ret |-> 0,
             hi |-> 0, lo |-> 0, at |-> 0]
  BY DEF Init, Entered
<1>4. now = 0 /\ snap = 0 /\ cmp = ACLINT_MTIMECMP_DISARMED
      /\ due = [old |-> ACLINT_MTIMECMP_DISARMED, new |-> ACLINT_MTIMECMP_DISARMED]
  BY DEF Init
<1>5. TypeInv
  BY <1>1, <1>3, <1>4 DEF TypeInv, Cpu, Times
<1>6. ReadInv /\ AnswerOfOneInstant
  BY <1>2, <1>3, <1>4 DEF ReadInv, AnswerOfOneInstant, Reading
<1>7. AlarmInv
  BY <1>1, <1>3, <1>4 DEF AlarmInv
<1>8. QED
  BY <1>5, <1>6, <1>7 DEF IInv

LEMMA TypeStep ==
  ASSUME TypeInv, ReadInv, Next
  PROVE  TypeInv'
<1> now \in Times /\ now \in Nat /\ snap \in Nat /\ cmp \in Nat
    /\ due \in [old : Nat, new : Nat] /\ cpu \in Cpu
  BY DEF TypeInv, Times
<1>1. Hi(now) \in Nat /\ Lo(now) \in Nat /\ Hi(cmp) \in Nat /\ Lo(cmp) \in Nat
  BY Halves
<1>2. ACLINT_MTIMECMP_DISARMED \in Nat /\ LO_MOD - 1 \in Nat
  BY LastTime
<1>3. cpu.ret \in Nat /\ cpu.from \in Nat /\ cpu.arg \in Nat /\ cpu.lo \in Nat
  BY DEF Cpu
<1>4. CASE Tick
  <2>1. now' = now + 1 /\ now < MAX_TIME /\ MAX_TIME \in Times
    BY <1>4, TimeAssumption DEF Tick
  <2>2. now' \in Times
    BY <2>1, <1>2 DEF Times
  <2>3. QED
    BY <1>4, <2>2 DEF Tick, TypeInv
<1>5. CASE OtherLoad
  BY <1>5, <1>1 DEF OtherLoad, Latch, TypeInv
<1>6. CASE Call
  <2>1. UNCHANGED <<now, snap, cmp, due>>
    BY <1>6 DEF Call, Enter, aclint_mtime_read, aclint_timer_expired, aclint_timer_disable,
                aclint_timer_set_rel, aclint_delay_ticks
  <2>2. \A t \in Ticks : t \in Nat
    BY TimeAssumption DEF Times
  <2>3. cpu' \in Cpu
    BY <1>2, <1>6, <2>2
       DEF Call, Enter, aclint_mtime_read, aclint_timer_expired, aclint_timer_disable,
           aclint_timer_set_rel, aclint_delay_ticks, Entered, Cpu
  <2>4. QED
    BY <2>1, <2>3 DEF TypeInv
<1>7. CASE LoadHi
  BY <1>7 DEF LoadHi, TypeInv, Cpu
<1>8. CASE LoadLo
  BY <1>8, <1>1 DEF LoadLo, Latch, TypeInv, Cpu
<1>9. CASE LoadHi2
  <2>1. CASE snap = cpu.hi
    <3>1. Join(snap, cpu.lo) = cpu.at
      BY <2>1, <1>9, ReturnedTime DEF LoadHi2
    <3>2. cpu.call \in Reading /\ cpu.at \in Nat
      BY <1>9 DEF LoadHi2, ReadInv, Cpu
    <3>3. Answer(cpu.at) \in Nat
      <4>1. (cpu.at + cpu.arg) % (LO_MOD * HI_MOD) \in Nat
        BY <1>3, <3>2, LastTime, <1>2
      <4>2. Deadline(cpu.at, cpu.arg) \in Nat
        BY <4>1, <1>2 DEF Deadline
      <4>3. QED
        BY <3>2, <4>2 DEF Answer, Reading
    <3>4. Return /\ UNCHANGED <<now, snap, cmp, due>>
      BY <1>9, <2>1 DEF LoadHi2
    <3>5. cpu' \in Cpu
      BY <3>1, <3>3, <3>4 DEF Return, Cpu
    <3>6. QED
      BY <3>4, <3>5 DEF TypeInv
  <2>2. CASE snap # cpu.hi
    BY <1>9, <2>2 DEF LoadHi2, TypeInv, Cpu
  <2>3. QED
    BY <2>1, <2>2
<1>10. CASE StoreCover
  <2>1. Asked \in Nat
    BY <1>2, <1>3 DEF Asked, Least
  <2>2. cmp' \in Nat
    BY <1>10, <1>1, <1>2, JoinNat DEF StoreCover
  <2>3. cpu' \in Cpu
    BY <1>10 DEF StoreCover, Cpu
  <2>4. QED
    BY <1>10, <2>1, <2>2, <2>3 DEF StoreCover, TypeInv
<1>11. CASE StoreHigh
  <2>1. cmp' \in Nat
    BY <1>11, <1>1, <1>3, Halves, JoinNat DEF StoreHigh
  <2>2. cpu' \in Cpu
    BY <1>11 DEF StoreHigh, Cpu
  <2>3. QED
    BY <1>11, <2>1, <2>2 DEF StoreHigh, TypeInv
<1>12. CASE StoreLow
  <2>1. Lo(cpu.ret) \in Nat
    BY <1>3, Halves
  <2>2. cmp' \in Nat
    BY <1>12, <1>1, <2>1, JoinNat DEF StoreLow
  <2>3. cpu' \in Cpu
    BY <1>12 DEF StoreLow, Cpu
  <2>4. QED
    BY <1>12, <2>2, <2>3 DEF StoreLow, TypeInv
<1>13. CASE LoadT0
  BY <1>13, <1>1 DEF LoadT0, Latch, TypeInv, Cpu
<1>14. CASE Poll
  BY <1>14, <1>1 DEF Poll, Latch, TypeInv, Cpu
<1>15. QED
  BY <1>4, <1>5, <1>6, <1>7, <1>8, <1>9, <1>10, <1>11, <1>12, <1>13, <1>14 DEF Next, Access

LEMMA ReadStep ==
  ASSUME TypeInv, ReadInv, Next
  PROVE  ReadInv'
<1> now \in Nat /\ snap \in Nat /\ cmp \in Nat /\ cpu \in Cpu
  BY DEF TypeInv, Times
<1>1. Hi(now) \in Nat /\ Lo(now) \in Nat
  BY Halves
<1>2. cpu.from \in Nat /\ cpu.at \in Nat /\ cpu.hi \in Nat /\ Hi(cpu.at) \in Nat
  BY Halves DEF Cpu
<1>4. CASE Tick
  <2>1. now' = now + 1 /\ UNCHANGED <<snap, cmp, cpu>>
    BY <1>4 DEF Tick
  <2>2. Hi(now) <= Hi(now') /\ Hi(now') \in Nat
    BY <2>1, LaterHigh, Halves
  <2>3. QED
    BY <1>1, <1>2, <2>1, <2>2 DEF ReadInv
<1>5. CASE OtherLoad
  BY <1>5, <1>1, <1>2 DEF OtherLoad, Latch, ReadInv
<1>6. CASE Call
  BY <1>6, <1>1
     DEF Call, Enter, aclint_mtime_read, aclint_timer_expired, aclint_timer_disable,
         aclint_timer_set_rel, aclint_delay_ticks, Entered, ReadInv, Reading
<1>7. CASE LoadHi
  BY <1>7 DEF LoadHi, ReadInv, Cpu
<1>8. CASE LoadLo
  BY <1>8, <1>1, <1>2 DEF LoadLo, Latch, ReadInv, Cpu
<1>9. CASE LoadHi2
  <2>1. CASE snap = cpu.hi
    BY <1>9, <2>1 DEF LoadHi2, Return, ReadInv, Reading, Cpu
  <2>2. CASE snap # cpu.hi
    BY <1>9, <2>2 DEF LoadHi2, ReadInv, Cpu
  <2>3. QED
    BY <2>1, <2>2
<1>10. CASE StoreCover
  BY <1>10 DEF StoreCover, ReadInv, Cpu
<1>11. CASE StoreHigh
  BY <1>11 DEF StoreHigh, ReadInv, Cpu
<1>12. CASE StoreLow
  BY <1>12 DEF StoreLow, ReadInv, Cpu
<1>13. CASE LoadT0
  BY <1>13, <1>1 DEF LoadT0, Latch, ReadInv, Cpu
<1>14. CASE Poll
  BY <1>14, <1>1 DEF Poll, Latch, ReadInv, Cpu
<1>15. QED
  BY <1>4, <1>5, <1>6, <1>7, <1>8, <1>9, <1>10, <1>11, <1>12, <1>13, <1>14 DEF Next, Access

LEMMA AnswerStep ==
  ASSUME TypeInv, ReadInv, AnswerOfOneInstant, Next
  PROVE  AnswerOfOneInstant'
<1> now \in Nat /\ snap \in Nat /\ cmp \in Nat /\ cpu \in Cpu
  BY DEF TypeInv, Times
<1>1. cpu.from \in Nat /\ cpu.at \in Nat
  BY DEF Cpu
<1>2. CASE Tick
  BY <1>1, <1>2 DEF Tick, AnswerOfOneInstant
<1>3. CASE OtherLoad
  BY <1>3 DEF OtherLoad, AnswerOfOneInstant
<1>4. CASE Call
  BY <1>4
     DEF Call, Enter, aclint_mtime_read, aclint_timer_expired, aclint_timer_disable,
         aclint_timer_set_rel, aclint_delay_ticks, Entered, AnswerOfOneInstant
<1>5. CASE LoadHi2
  <2>1. CASE snap = cpu.hi
    <3>1. Join(snap, cpu.lo) = cpu.at
      BY <2>1, <1>5, ReturnedTime DEF LoadHi2
    <3>2. cpu' = [cpu EXCEPT !.ret = Answer(cpu.at),
                             !.pc = IF cpu.call = "set_rel" THEN "cover" ELSE "done"]
      BY <1>5, <2>1, <3>1 DEF LoadHi2, Return
    <3>3. UNCHANGED <<now, cmp>> /\ cpu.from <= cpu.at /\ cpu.at <= now
      BY <1>5 DEF LoadHi2, ReadInv
    <3>4. cpu.call = "read" => Answer(cpu.at) = cpu.at
      BY DEF Answer
    <3>5. cpu.call = "expired" => ((Answer(cpu.at) = 1) <=> (cpu.at >= cmp))
      BY DEF Answer, ReadInv
    <3>6. QED
      BY <1>1, <3>2, <3>3, <3>4, <3>5 DEF AnswerOfOneInstant, Cpu
  <2>2. CASE snap # cpu.hi
    BY <1>5, <2>2 DEF LoadHi2, AnswerOfOneInstant, Cpu
  <2>3. QED
    BY <2>1, <2>2
<1>6. CASE StoreCover \/ StoreHigh \/ StoreLow
  BY <1>6 DEF StoreCover, StoreHigh, StoreLow, ReadInv, AnswerOfOneInstant, Cpu
<1>7. CASE LoadHi \/ LoadLo
  BY <1>7 DEF LoadHi, LoadLo, AnswerOfOneInstant, Cpu
<1>8. CASE LoadT0
  BY <1>8 DEF LoadT0, ReadInv, AnswerOfOneInstant, Cpu
<1>9. CASE Poll
  BY <1>9 DEF Poll, ReadInv, AnswerOfOneInstant, Cpu
<1>10. QED
  BY <1>2, <1>3, <1>4, <1>5, <1>6, <1>7, <1>8, <1>9 DEF Next, Access

LEMMA AlarmStep ==
  ASSUME TypeInv, ReadInv, AlarmInv, Next
  PROVE  AlarmInv'
<1> DEFINE last == ACLINT_MTIMECMP_DISARMED
<1> now \in Times /\ now \in Nat /\ snap \in Nat /\ cmp \in Nat /\ cpu \in Cpu
    /\ due \in [old : Nat, new : Nat]
  BY DEF TypeInv, Times
<1>1. last \in Nat /\ last = Join(HI_MOD - 1, LO_MOD - 1) /\ LO_MOD - 1 \in 0..LO_MOD - 1
  BY LastTime
<1>2. cpu.from \in Nat /\ cpu.arg \in Nat /\ cpu.ret \in Nat /\ cpu.at \in Nat
  BY DEF Cpu
<1>3. due.old \in Nat /\ due.new \in Nat
  OBVIOUS
<1>h. Hi(cmp) \in Nat /\ Hi(cpu.ret) \in Nat /\ Lo(cpu.ret) \in 0..LO_MOD - 1
  BY <1>2, Halves
<1>4. CASE Tick \/ OtherLoad
  <2>1. UNCHANGED <<cmp, due, cpu>>
    BY <1>4 DEF Tick, OtherLoad
  <2>2. Asked' = Asked
    BY <2>1 DEF Asked
  <2>3. QED
    BY <2>1, <2>2 DEF AlarmInv
<1>6. CASE Call
  <2>1. UNCHANGED <<cmp, due>> /\ cpu.pc = "done"
    BY <1>6 DEF Call, Enter, aclint_mtime_read, aclint_timer_expired, aclint_timer_disable,
                aclint_timer_set_rel, aclint_delay_ticks
  <2>2. /\ cpu'.pc \in {"hi", "cover", "t0", "done"}
        /\ cpu'.call = "set_rel" => cpu'.arg \in Times
        /\ cpu'.call = "disable" => cpu'.ret = last
        /\ cpu'.pc = "cover" => cpu'.call = "disable"
    BY <1>6, TimeAssumption
       DEF Call, Enter, aclint_mtime_read, aclint_timer_expired, aclint_timer_disable,
           aclint_timer_set_rel, aclint_delay_ticks, Entered
  <2>3. cpu'.pc = "cover" => cpu'.ret >= Asked'
    BY <2>2, <1>1 DEF Asked
  <2>4. QED
    BY <2>1, <2>2, <2>3 DEF AlarmInv
<1>7. CASE LoadHi \/ LoadLo \/ LoadT0 \/ Poll
  <2>1. /\ UNCHANGED <<cmp, due>>
        /\ cpu'.pc \in {"lo", "hi2", "poll", "done"} /\ cpu.pc \notin {"high", "low"}
        /\ cpu'.call = cpu.call /\ cpu'.arg = cpu.arg /\ cpu'.ret = cpu.ret
    BY <1>7 DEF LoadHi, LoadLo, LoadT0, Poll, Cpu
  <2>2. QED
    BY <2>1 DEF AlarmInv
<1>9. CASE LoadHi2
  <2>1. CASE snap = cpu.hi
    <3>1. Join(snap, cpu.lo) = cpu.at /\ cpu.pc = "hi2"
      BY <2>1, <1>9, ReturnedTime DEF LoadHi2
    <3>2. cpu' = [cpu EXCEPT !.ret = Answer(cpu.at),
                             !.pc = IF cpu.call = "set_rel" THEN "cover" ELSE "done"]
          /\ UNCHANGED <<cmp, due>>
      BY <1>9, <2>1, <3>1 DEF LoadHi2, Return
    <3>3. cpu.from <= cpu.at /\ cpu.at <= now /\ cpu.call \in Reading
      BY <3>1 DEF ReadInv
    <3>4. cpu.at \in Times
      BY <3>3, <1>2, <1>1 DEF Times
    <3>5. CASE cpu.call = "set_rel"
      <4>1. cpu.arg \in Times
        BY <3>5 DEF AlarmInv
      <4>2. Deadline(cpu.at, cpu.arg) \in Nat
            /\ Deadline(cpu.at, cpu.arg) >= Least(cpu.at + cpu.arg, last)
        BY <3>4, <4>1, DeadlineIsLater
      <4>3. Answer(cpu.at) = Deadline(cpu.at, cpu.arg)
        BY <3>5 DEF Answer
      <4>4. cpu'.ret = Answer(cpu.at) /\ cpu'.call = "set_rel" /\ cpu'.pc = "cover"
            /\ cpu'.from = cpu.from /\ cpu'.arg = cpu.arg
        BY <3>2, <3>5 DEF Cpu
      <4>5. Asked' = Least(cpu.from + cpu.arg, last)
        BY <4>4 DEF Asked
      <4>6. Least(cpu.at + cpu.arg, last) >= Least(cpu.from + cpu.arg, last)
        BY <3>3, <1>1, <1>2 DEF Least
      <4>7. Least(cpu.at + cpu.arg, last) \in Nat /\ Least(cpu.from + cpu.arg, last) \in Nat
        BY <1>1, <1>2 DEF Least
      <4>8. cpu'.ret >= Asked'
        BY <4>2, <4>3, <4>4, <4>5, <4>6, <4>7
      <4>9. QED
        BY <3>1, <3>2, <4>1, <4>4, <4>8 DEF AlarmInv
    <3>6. CASE cpu.call # "set_rel"
      <4>1. cpu'.pc = "done" /\ cpu'.call = cpu.call /\ cpu.call # "disable"
        BY <3>2, <3>3, <3>6 DEF Cpu, Reading
      <4>2. QED
        BY <3>1, <3>2, <3>6, <4>1 DEF AlarmInv
    <3>7. QED
      BY <3>5, <3>6
  <2>2. CASE snap # cpu.hi
    BY <1>9, <2>2 DEF LoadHi2, AlarmInv, Cpu
  <2>3. QED
    BY <2>1, <2>2
<1>10. CASE StoreCover
  <2>1. /\ cpu.pc = "cover" /\ cpu' = [cpu EXCEPT !.pc = "high"]
        /\ due' = [old |-> due.new, new |-> Asked] /\ cmp' = Join(Hi(cmp), LO_MOD - 1)
    BY <1>10 DEF StoreCover
  <2>2. cmp >= due.new /\ due.old = due.new /\ cpu.ret >= Asked /\ due.new <= last
    BY <2>1 DEF AlarmInv
  <2>3. Asked \in Nat /\ Asked <= last
    BY <1>1, <1>2 DEF Asked, Least
  <2>4. cmp' >= cmp /\ cmp' \in Nat /\ Lo(cmp') = LO_MOD - 1
    BY <2>1, <1>1, <1>h, CoverIsLater, Joined
  <2>5. cpu'.pc = "high" /\ cpu'.call = cpu.call /\ cpu'.ret = cpu.ret /\ cpu'.arg = cpu.arg
    BY <2>1 DEF Cpu
  <2>6. cpu.call = "disable" => Asked = last
    BY DEF Asked
  <2>7. cmp' >= due'.old /\ due'.old = due.new /\ due'.new = Asked
    BY <2>1, <2>2, <2>4, <1>3
  <2>8. (cpu.call = "set_rel" => cpu.arg \in Times) /\ (cpu.call = "disable" => cpu.ret = last)
    BY DEF AlarmInv
  <2>9. QED
    BY <2>2, <2>3, <2>4, <2>5, <2>6, <2>7, <2>8 DEF AlarmInv
<1>11. CASE StoreHigh
  <2>1. /\ cpu.pc = "high" /\ cmp' = Join(Hi(cpu.ret), Lo(cmp))
        /\ cpu' = [cpu EXCEPT !.pc = IF cpu.call = "disable" THEN "done" ELSE "low"]
        /\ due' = IF cpu.call = "disable" THEN [old |-> due.new, new |-> due.new] ELSE due
    BY <1>11 DEF StoreHigh
  <2>2. /\ cpu.call \in {"set_rel", "disable"} /\ cpu.ret >= due.new /\ Lo(cmp) = LO_MOD - 1
        /\ due.old <= last /\ due.new <= last
        /\ (cpu.call = "set_rel" => cpu.arg \in Times)
        /\ (cpu.call = "disable" => cpu.ret = last /\ due.new = last)
    BY <2>1 DEF AlarmInv, ReadInv
  <2>3. cmp' >= cpu.ret /\ cmp' \in Nat /\ Hi(cmp') = Hi(cpu.ret)
    BY <2>1, <2>2, <1>1, <1>2, <1>h, CoverIsLater, Joined
  <2>4. cmp' >= due.new
    BY <2>2, <2>3, <1>2, <1>3
  <2>5. cpu'.call = cpu.call /\ cpu'.ret = cpu.ret /\ cpu'.arg = cpu.arg
        /\ cpu'.pc = IF cpu.call = "disable" THEN "done" ELSE "low"
    BY <2>1 DEF Cpu
  <2>6. CASE cpu.call = "disable"
    BY <2>1, <2>2, <2>4, <2>5, <2>6 DEF AlarmInv
  <2>7. CASE cpu.call = "set_rel"
    BY <2>1, <2>2, <2>3, <2>4, <2>5, <2>7 DEF AlarmInv
  <2>8. QED
    BY <2>2, <2>6, <2>7
<1>12. CASE StoreLow
  <2>1. /\ cpu.pc = "low" /\ cmp' = Join(Hi(cmp), Lo(cpu.ret))
        /\ cpu' = [cpu EXCEPT !.pc = "done"] /\ due' = [old |-> due.new, new |-> due.new]
    BY <1>12 DEF StoreLow
  <2>2. /\ cpu.call = "set_rel" /\ cpu.arg \in Times /\ cpu.ret >= due.new
        /\ due.new <= last /\ Hi(cmp) = Hi(cpu.ret)
    BY <2>1 DEF AlarmInv
  <2>3. cmp' = cpu.ret
    BY <2>1, <2>2, <1>2, Halves
  <2>4. cpu'.call = "set_rel" /\ cpu'.arg = cpu.arg /\ cpu'.pc = "done"
    BY <2>1, <2>2 DEF Cpu
  <2>5. QED
    BY <2>1, <2>2, <2>3, <2>4 DEF AlarmInv
<1>15. QED
  BY <1>4, <1>6, <1>7, <1>9, <1>10, <1>11, <1>12 DEF Next, Access

----------------------------------------------------------------------------
(* The inductive invariant of reads and alarms holds.                       *)
THEOREM TimeInvariant == Spec => []IInv
<1>1. IInv /\ [Next]_vars => IInv'
  <2> SUFFICES ASSUME IInv, [Next]_vars PROVE IInv'
    OBVIOUS
  <2>1. CASE Next
    BY <2>1, TypeStep, ReadStep, AlarmStep, AnswerStep DEF IInv
  <2>2. CASE UNCHANGED vars
    BY <2>2 DEF vars, IInv, TypeInv, ReadInv, AlarmInv, AnswerOfOneInstant, Asked
  <2>3. QED
    BY <2>1, <2>2
<1>2. QED
  BY <1>1, InitIInv, PTL DEF Spec

(* aclint_mtime_read and aclint_timer_expired are right from any context:   *)
(* for any widths and any loads of others in between, the answer is of one  *)
(* instant of the call.                                                     *)
THEOREM ReadIsOfOneInstant == Spec => []AnswerOfOneInstant
  BY TimeInvariant, PTL DEF IInv

(* aclint_timer_set_rel and aclint_timer_disable raise MTIP no earlier than *)
(* asked for, also while the stores are made and when the sum overflows.    *)
THEOREM AlarmNeverEarly == Spec => []NoEarlyAlarm
<1>1. IInv => NoEarlyAlarm
  <2> SUFFICES ASSUME IInv PROVE NoEarlyAlarm
    OBVIOUS
  <2>1. now \in Nat /\ cmp \in Nat /\ due.old \in Nat /\ due.new \in Nat
    BY DEF IInv, TypeInv, Times
  <2>2. cmp >= due.old \/ cmp >= due.new
    BY DEF IInv, AlarmInv
  <2>3. QED
    BY <2>1, <2>2 DEF NoEarlyAlarm, MTIP, Least
<1>2. QED
  BY <1>1, TimeInvariant, PTL

----------------------------------------------------------------------------
(* Induction over the naturals, with a set in place of a predicate.         *)
LEMMA LeastElement ==
  ASSUME NEW S \in SUBSET Nat, S # {}
  PROVE  \E n \in S : \A m \in S : n <= m
<1> DEFINE R == OpToRel(<, Nat)
<1>1. \A x, y \in Nat : x < y => <<x, y>> \in R
  BY DEF OpToRel
<1>2. PICK x \in S : \A y \in S : ~ (<<y, x>> \in R)
  BY NatLessThanWellFounded, WFMin
<1> HIDE DEF R
<1>3. ASSUME NEW y \in S PROVE x <= y
  <2>1. ~ (y < x)
    BY <1>1, <1>2
  <2>2. QED
    BY <2>1
<1>4. QED
  BY <1>3

LEMMA SetInduction ==
  ASSUME NEW S, 0 \in S, \A n \in Nat : n \in S => n + 1 \in S
  PROVE  \A n \in Nat : n \in S
<1> SUFFICES ASSUME Nat \ S # {} PROVE FALSE
  OBVIOUS
<1>1. PICK n \in Nat \ S : \A m \in Nat \ S : n <= m
  BY LeastElement
<1>2. n # 0
  OBVIOUS
<1>3. n - 1 \in Nat /\ n - 1 \in S
  BY <1>1, <1>2
<1>4. QED
  BY <1>1, <1>3

(* The recursive definitions define what they say: an approximation of n    *)
(* steps extends to one of n + 1.                                           *)
LEMMA Pow2Def == Pow2 = [i \in 0..BITS |-> IF i = 0 THEN 1 ELSE 2 * Pow2[i - 1]]
<1> DEFINE Body(h, n) == [i \in 0..n |-> IF i = 0 THEN 1 ELSE 2 * h[i - 1]]
           Exists(n) == \E h : h = Body(h, n)
           S == {n \in Nat : Exists(n)}
<1>1. Exists(0)
  <2> DEFINE h == [i \in 0..0 |-> 1]
  <2>1. h = Body(h, 0)
    OBVIOUS
  <2>2. QED
    BY <2>1
<1>2. ASSUME NEW n \in Nat, Exists(n) PROVE Exists(n + 1)
  <2>1. PICK h : h = Body(h, n)
    BY <1>2
  <2> DEFINE g == [i \in 0..n + 1 |-> IF i <= n THEN h[i] ELSE 2 * h[n]]
  <2>2. ASSUME NEW i \in 0..n + 1 PROVE g[i] = IF i = 0 THEN 1 ELSE 2 * g[i - 1]
    <3>1. CASE i = n + 1
      <4>1. i # 0 /\ i - 1 = n /\ g[i] = 2 * h[n] /\ g[n] = h[n]
        BY <3>1
      <4>2. QED
        BY <4>1
    <3>2. CASE i \in 0..n
      <4>1. g[i] = h[i] /\ (i # 0 => g[i - 1] = h[i - 1])
        BY <3>2
      <4>2. h[i] = IF i = 0 THEN 1 ELSE 2 * h[i - 1]
        BY <2>1, <3>2
      <4>3. QED
        BY <4>1, <4>2
    <3>3. QED
      BY <3>1, <3>2
  <2> HIDE DEF g
  <2>3. g = Body(g, n + 1)
    <3>1. g = [i \in 0..n + 1 |-> g[i]]
      BY DEF g
    <3>2. QED
      BY <2>2, <3>1
  <2>4. QED
    BY <2>3, Zenon
<1>3. Exists(BITS)
  <2> HIDE DEF Exists
  <2>1. 0 \in S /\ \A n \in Nat : n \in S => n + 1 \in S
    BY <1>1, <1>2
  <2>2. \A n \in Nat : n \in S
    BY <2>1, SetInduction
  <2>3. QED
    BY <2>2, WidthAssumption
<1>4. QED
  BY <1>3 DEF Pow2

LEMMA Weights ==
  /\ Pow2[0] = 1 /\ Pow2[BITS] = LO_MOD * HI_MOD
  /\ \A i \in 0..BITS : Pow2[i] \in Nat \ {0}
  /\ \A i \in 0..BITS - 1 : Pow2[i + 1] = 2 * Pow2[i]
<1>1. \A i \in 0..BITS : Pow2[i] = IF i = 0 THEN 1 ELSE 2 * Pow2[i - 1]
  BY Pow2Def, Zenon
<1>2. Pow2[0] = 1
  BY <1>1, WidthAssumption
<1>3. \A i \in 0..BITS - 1 : Pow2[i + 1] = 2 * Pow2[i]
  <2> SUFFICES ASSUME NEW i \in 0..BITS - 1 PROVE Pow2[i + 1] = 2 * Pow2[i]
    OBVIOUS
  <2>1. i + 1 \in 0..BITS /\ i + 1 # 0 /\ (i + 1) - 1 = i
    BY WidthAssumption
  <2>2. QED
    BY <1>1, <2>1
<1> DEFINE S == {i \in Nat : i <= BITS => Pow2[i] \in Nat \ {0}}
<1>4. 0 \in S
  BY <1>2
<1>5. ASSUME NEW n \in Nat, n \in S PROVE n + 1 \in S
  <2>1. n + 1 <= BITS => n \in 0..BITS - 1 /\ Pow2[n] \in Nat \ {0}
    BY <1>5, WidthAssumption
  <2>2. n + 1 <= BITS => Pow2[n + 1] = 2 * Pow2[n]
    BY <1>3, <2>1
  <2>3. QED
    BY <2>1, <2>2
<1> HIDE DEF S
<1>6. \A n \in Nat : n \in S
  BY <1>4, <1>5, SetInduction
<1>7. \A i \in 0..BITS : Pow2[i] \in Nat \ {0}
  BY <1>6, WidthAssumption DEF S
<1>8. QED
  BY <1>2, <1>3, <1>7, WidthAssumption

LEMMA DivisionDef ==
  ASSUME NEW n, NEW d
  PROVE  LET next(k, p) == LET r == 2 * p.r + Bit(n, BITS - k)
                           IN IF r >= d THEN [q |-> p.q + Pow2[BITS - k], r |-> r - d]
                              ELSE [q |-> p.q, r |-> r]
         IN  Division(n, d) = [k \in 0..BITS |-> IF k = 0 THEN [q |-> 0, r |-> 0]
                                                 ELSE next(k, Division(n, d)[k - 1])]
<1> DEFINE next(k, p) == LET r == 2 * p.r + Bit(n, BITS - k)
                         IN IF r >= d THEN [q |-> p.q + Pow2[BITS - k], r |-> r - d]
                            ELSE [q |-> p.q, r |-> r]
           zero == [q |-> 0, r |-> 0]
           Body(h, m) == [k \in 0..m |-> IF k = 0 THEN zero ELSE next(k, h[k - 1])]
           Exists(m) == \E h : h = Body(h, m)
           S == {m \in Nat : Exists(m)}
<1>1. Exists(BITS) => Division(n, d) = Body(Division(n, d), BITS)
  BY DEF Division
<1> HIDE DEF next, zero
<1>2. Exists(0)
  <2> DEFINE h == [k \in 0..0 |-> zero]
  <2>1. h = Body(h, 0)
    OBVIOUS
  <2>2. QED
    BY <2>1
<1>3. ASSUME NEW m \in Nat, Exists(m) PROVE Exists(m + 1)
  <2>1. PICK h : h = Body(h, m)
    BY <1>3
  <2> DEFINE g == [k \in 0..m + 1 |-> IF k <= m THEN h[k] ELSE next(k, h[m])]
  <2>2. ASSUME NEW k \in 0..m + 1 PROVE g[k] = IF k = 0 THEN zero ELSE next(k, g[k - 1])
    <3>1. CASE k = m + 1
      <4>1. k # 0 /\ k - 1 = m /\ g[k] = next(k, h[m]) /\ g[m] = h[m]
        BY <3>1
      <4>2. QED
        BY <4>1
    <3>2. CASE k \in 0..m
      <4>1. g[k] = h[k] /\ (k # 0 => g[k - 1] = h[k - 1])
        BY <3>2
      <4>2. h[k] = IF k = 0 THEN zero ELSE next(k, h[k - 1])
        BY <2>1, <3>2
      <4>3. QED
        BY <4>1, <4>2
    <3>3. QED
      BY <3>1, <3>2
  <2> HIDE DEF g
  <2>3. g = Body(g, m + 1)
    <3>1. g = [k \in 0..m + 1 |-> g[k]]
      BY DEF g
    <3>2. QED
      BY <2>2, <3>1
  <2>4. QED
    BY <2>3, Zenon
<1>4. Exists(BITS)
  <2> HIDE DEF Exists
  <2>1. 0 \in S /\ \A m \in Nat : m \in S => m + 1 \in S
    BY <1>2, <1>3
  <2>2. \A m \in Nat : m \in S
    BY <2>1, SetInduction
  <2>3. QED
    BY <2>2, WidthAssumption
<1>5. QED
  BY <1>1, <1>4 DEF next, zero

(* Adding the next lower bit to a number's tail.                            *)
LEMMA LowBits ==
  ASSUME NEW n \in Nat, NEW w \in Nat \ {0}
  PROVE  /\ n % w \in 0..w - 1 /\ (n \div w) % 2 \in {0, 1}
         /\ (n % (2 * w)) = ((n \div w) % 2) * w + (n % w)
<1> DEFINE a == n \div w
           b == n % w
           c == a \div 2
           e == a % 2
<1>1. a \in Nat /\ b \in 0..w - 1 /\ n = w * a + b
  BY SMTT(30)
<1>2. c \in Nat /\ e \in {0, 1} /\ a = 2 * c + e
  BY <1>1
<1> HIDE DEF a, b, c, e
<1>3. w * a = (2 * w) * c + e * w
  BY <1>1, <1>2, SMTT(30)
<1>4. e * w + b \in 0..2 * w - 1
  <2>1. CASE e = 0
    BY <2>1, <1>1
  <2>2. CASE e = 1
    BY <2>2, <1>1
  <2>3. QED
    BY <1>2, <2>1, <2>2
<1> DEFINE u == 2 * w
           t == e * w + b
           k == u * c
<1>5. n = u * c + t /\ t \in 0..u - 1 /\ u \in Nat \ {0} /\ k \in Nat
  BY <1>1, <1>2, <1>3, <1>4, SMTT(30)
<1> HIDE DEF u, t, k
<1>6. n % u = t
  BY <1>2, <1>5, SMTT(30)
<1>7. QED
  BY <1>1, <1>2, <1>6 DEF a, b, e, u, t

(* After k steps the quotient and remainder so far account for all of n but *)
(* the bits not yet shifted in.                                             *)
LEMMA DivisionStep ==
  ASSUME NEW n \in Nat, n < Pow2[BITS], NEW d \in Nat \ {0}
  PROVE  \A k \in 0..BITS :
           LET s == Division(n, d)[k]
           IN  /\ s.q \in Nat /\ s.r \in 0..d - 1
               /\ n = s.q * d + s.r * Pow2[BITS - k] + (n % Pow2[BITS - k])
<1> DEFINE s(k) == Division(n, d)[k]
           Good(k) == /\ s(k).q \in Nat /\ s(k).r \in 0..d - 1
                      /\ n = s(k).q * d + s(k).r * Pow2[BITS - k] + (n % Pow2[BITS - k])
           S == {k \in Nat : k <= BITS => Good(k)}
<1>1. \A k \in 0..BITS :
        s(k) = IF k = 0 THEN [q |-> 0, r |-> 0]
               ELSE LET r == 2 * s(k - 1).r + Bit(n, BITS - k)
                    IN IF r >= d THEN [q |-> s(k - 1).q + Pow2[BITS - k], r |-> r - d]
                       ELSE [q |-> s(k - 1).q, r |-> r]
  <2>1. Division(n, d) = [k \in 0..BITS |->
          IF k = 0 THEN [q |-> 0, r |-> 0]
          ELSE LET p == Division(n, d)[k - 1]
                   r == 2 * p.r + Bit(n, BITS - k)
               IN IF r >= d THEN [q |-> p.q + Pow2[BITS - k], r |-> r - d]
                  ELSE [q |-> p.q, r |-> r]]
    BY DivisionDef
  <2> DEFINE f == Division(n, d)
  <2> HIDE DEF f
  <2>2. QED
    BY <2>1 DEF f
<1> HIDE DEF s
<1>2. Good(0)
  <2>1. s(0) = [q |-> 0, r |-> 0]
    BY <1>1, WidthAssumption
  <2>2. Pow2[BITS] \in Nat \ {0} /\ BITS - 0 = BITS
    BY Weights, WidthAssumption
  <2>3. n % Pow2[BITS] = n
    BY <2>2, SMTT(30)
  <2>4. QED
    BY <2>1, <2>2, <2>3
<1>3. ASSUME NEW k \in Nat, k + 1 <= BITS, Good(k) PROVE Good(k + 1)
  <2> DEFINE w == Pow2[BITS - (k + 1)]
             bit == Bit(n, BITS - (k + 1))
             q == s(k).q
             r == s(k).r
             rr == 2 * r + bit
  <2>1. w \in Nat \ {0} /\ Pow2[BITS - k] = 2 * w
    <3> DEFINE j == BITS - (k + 1)
    <3>1. j \in 0..BITS - 1 /\ j + 1 = BITS - k
      BY <1>3, WidthAssumption
    <3> HIDE DEF j
    <3>2. Pow2[j] \in Nat \ {0} /\ Pow2[j + 1] = 2 * Pow2[j]
      BY <3>1, Weights, WidthAssumption
    <3>3. QED
      BY <3>1, <3>2 DEF j
  <2>2. /\ n % w \in 0..w - 1 /\ bit \in {0, 1}
        /\ n % Pow2[BITS - k] = bit * w + (n % w)
    BY <2>1, LowBits DEF Bit
  <2>3. q \in Nat /\ r \in 0..d - 1 /\ n = q * d + r * (2 * w) + (bit * w + (n % w))
    BY <1>3, <2>1, <2>2
  <2>4. s(k + 1) = IF rr >= d THEN [q |-> q + w, r |-> rr - d] ELSE [q |-> q, r |-> rr]
    <3>1. k + 1 \in 0..BITS /\ k + 1 # 0 /\ (k + 1) - 1 = k
      BY <1>3, WidthAssumption
    <3>2. QED
      BY <1>1, <3>1
  <2> DEFINE low == n % w
  <2> HIDE DEF w, bit, q, r, low
  <2>5. n = q * d + rr * w + low
    <3>1. r * (2 * w) + bit * w = rr * w
      BY <2>1, <2>2, <2>3, SMTT(30)
    <3>2. q * d \in Nat /\ r * (2 * w) \in Nat /\ bit * w \in Nat /\ low \in Nat
      BY <2>1, <2>2, <2>3, SMTT(30) DEF low
    <3>3. QED
      BY <2>3, <3>1, <3>2 DEF low
  <2>6. rr \in 0..2 * d - 1
    BY <2>2, <2>3
  <2>7. CASE rr >= d
    <3>1. (q + w) * d + (rr - d) * w = q * d + rr * w
      BY <2>1, <2>3, <2>6, SMTT(30)
    <3>2. s(k + 1).q = q + w /\ s(k + 1).r = rr - d
      BY <2>4, <2>7
    <3>3. q + w \in Nat /\ rr - d \in 0..d - 1
      BY <2>1, <2>3, <2>6, <2>7
    <3>4. n = (q + w) * d + (rr - d) * w + low
      BY <2>5, <3>1
    <3>5. QED
      BY <3>2, <3>3, <3>4 DEF w, low
  <2>8. CASE ~(rr >= d)
    <3>1. s(k + 1).q = q /\ s(k + 1).r = rr
      BY <2>4, <2>8
    <3>2. rr \in 0..d - 1
      BY <2>6, <2>8
    <3>3. QED
      BY <2>3, <2>5, <3>1, <3>2 DEF w, low
  <2>9. QED
    BY <2>7, <2>8
<1>4. \A k \in Nat : k \in S
  <2> HIDE DEF Good
  <2>1. 0 \in S
    BY <1>2
  <2>2. ASSUME NEW k \in Nat, k \in S PROVE k + 1 \in S
    BY <1>3, <2>2, WidthAssumption
  <2> HIDE DEF S
  <2>3. QED
    BY <2>1, <2>2, SetInduction
<1>5. QED
  BY <1>4, WidthAssumption DEF s

(* The ticks of a wait are its time in MTIME periods, rounded up.           *)
THEOREM TicksRoundedUp ==
  ASSUME NEW wait \in Waits
  PROVE  /\ TicksOf(wait) \in Nat
         /\ TicksOf(wait) * wait.d >= wait.t * wait.hz
         /\ (TicksOf(wait) - 1) * wait.d < wait.t * wait.hz
<1> DEFINE m == wait.t * wait.hz
           d == wait.d
           n == m + (d - 1)
           s == Division(n, d)[BITS]
<1>1. m \in Nat /\ d \in Nat \ {0} /\ n \in Nat /\ n < Pow2[BITS]
  <2>1. wait.t \in Nat /\ wait.hz \in Nat /\ wait.d \in Nat \ {0}
    BY WaitAssumption
  <2>2. m \in Nat
    BY <2>1, SMTT(30)
  <2>3. m + d - 1 < LO_MOD * HI_MOD
    BY WaitAssumption
  <2>4. QED
    BY <2>1, <2>2, <2>3, Weights
<1>2. Pow2[BITS] \in Nat \ {0} /\ Pow2[0] = 1 /\ BITS \in 0..BITS /\ BITS - BITS = 0
  BY Weights, WidthAssumption
<1>3. TicksOf(wait) = s.q
  <2>1. n % Pow2[BITS] = n
    BY <1>1, <1>2, SMTT(30)
  <2>2. QED
    BY <2>1 DEF TicksOf, ticks_ceil
<1>4. s.q \in Nat /\ s.r \in 0..d - 1 /\ n = s.q * d + s.r * Pow2[0] + (n % Pow2[0])
  <2> HIDE DEF n, d
  <2>1. \A k \in 0..BITS :
          /\ Division(n, d)[k].q \in Nat /\ Division(n, d)[k].r \in 0..d - 1
          /\ n = Division(n, d)[k].q * d + Division(n, d)[k].r * Pow2[BITS - k]
                  + (n % Pow2[BITS - k])
    BY <1>1, DivisionStep
  <2>2. Pow2[BITS - BITS] = Pow2[0]
    BY <1>2
  <2>3. QED
    BY <1>2, <2>1, <2>2
<1>5. n % 1 = 0 /\ s.r * 1 = s.r
  BY <1>1, <1>4
<1>6. n = s.q * d + s.r
  <2>1. s.q * d \in Nat
    BY <1>1, <1>4, SMTT(30)
  <2>2. QED
    BY <1>2, <1>4, <1>5, <2>1
<1> HIDE DEF m, s
<1>7. s.q * d \in Nat /\ (s.q - 1) * d = s.q * d - d
  BY <1>1, <1>4, SMTT(30)
<1>8. QED
  BY <1>1, <1>3, <1>4, <1>6, <1>7 DEF m

----------------------------------------------------------------------------
(* The low half of a sum needs only the low half of a term. *)
LEMMA LowOfSum ==
  ASSUME NEW a \in Nat, NEW c \in Nat
  PROVE  (Lo(a) + c) % LO_MOD = Lo(a + c)
<1> DEFINE x == Lo(a) + c
<1>1. Hi(a) \in Nat /\ Lo(a) \in 0..LO_MOD - 1 /\ a = Hi(a) * LO_MOD + Lo(a)
  BY Halves DEF Join
<1>2. x \in Nat
  BY <1>1
<1> HIDE DEF x
<1>3. Hi(x) \in Nat /\ Lo(x) \in 0..LO_MOD - 1 /\ x = Hi(x) * LO_MOD + Lo(x)
  BY <1>2, Halves DEF Join
<1>4. a + c = Join(Hi(a) + Hi(x), Lo(x))
  <2>1. (Hi(a) + Hi(x)) * LO_MOD = Hi(a) * LO_MOD + Hi(x) * LO_MOD
    BY <1>1, <1>3, WordAssumption, SMTT(30)
  <2>2. Hi(a) * LO_MOD \in Int /\ Hi(x) * LO_MOD \in Int
    BY <1>1, <1>3, WordAssumption
  <2>3. a + c = Hi(a) * LO_MOD + x
    BY <1>1, <2>2 DEF x
  <2>4. QED
    BY <1>3, <2>1, <2>2, <2>3 DEF Join
<1>5. Lo(a + c) = Lo(x)
  BY <1>1, <1>3, <1>4, Joined
<1>6. QED
  BY <1>5 DEF x, Lo

(* Low halves subtract to the difference of the times, a word apart at most. *)
LEMMA LowDifference ==
  ASSUME NEW a \in Nat, NEW b \in Nat, a <= b, b - a < LO_MOD
  PROVE  (Lo(b) - Lo(a)) % LO_MOD = b - a
<1> DEFINE e == b - a
           l == Lo(a)
<1>1. l \in 0..LO_MOD - 1 /\ e \in 0..LO_MOD - 1 /\ e \in Nat
  BY Halves, WordAssumption
<1>2. Lo(b) = (l + e) % LO_MOD
  <2>1. a + e = b
    OBVIOUS
  <2>2. QED
    BY <1>1, <2>1, LowOfSum
<1> HIDE DEF e, l
<1>3. CASE l + e < LO_MOD
  <2>1. (l + e) % LO_MOD = l + e /\ e % LO_MOD = e
    BY <1>1, <1>3, WordAssumption, SMTT(30)
  <2>2. Lo(b) - l = e
    BY <1>1, <1>2, <2>1
  <2>3. QED
    BY <2>1, <2>2 DEF e, l
<1>4. CASE l + e >= LO_MOD
  <2>1. (l + e) % LO_MOD = l + e - LO_MOD /\ (e - LO_MOD) % LO_MOD = e
    BY <1>1, <1>4, WordAssumption, SMTT(30)
  <2>2. Lo(b) - l = e - LO_MOD
    BY <1>1, <1>2, <2>1, WordAssumption
  <2>3. QED
    BY <2>1, <2>2 DEF e, l
<1>5. QED
  BY <1>1, <1>3, <1>4, WordAssumption

Most(a, b) == IF a > b THEN a ELSE b

(* The last poll, and the moment up to which a delay has counted, if it     *)
(* counts from s.                                                           *)
Polled == now - busy.gap
Behind(s) == s + Left(TicksOf(busy.wait)) - busy.left

(* The counted moments are never ahead of the polls, and behind them by     *)
(* less than a chunk or a gap, so that low halves can be compared.          *)
DelayInv ==
  /\ busy \in [wait : Waits \cup {NotBusy.wait}, t0 : Nat, left : Nat, gap : Nat]
  /\ Waiting => busy.wait \in Waits /\ TicksOf(busy.wait) # 0 /\ busy.gap \in 0..MAX_GAP
  /\ cpu.pc = "t0" => Polled = cpu.from
  /\ cpu.pc = "poll" =>
       /\ busy.left \in 1..Left(TicksOf(busy.wait))
       /\ \E s \in cpu.from..cpu.from + MAX_GAP :
            /\ busy.t0 = Lo(Behind(s))
            /\ Polled \in Behind(s)..Behind(s) + Most(Chunk(busy.left), MAX_GAP) - 1
  /\ cpu.call = "delay" /\ cpu.pc = "done" =>
       /\ busy.wait \in Waits
       /\ TicksOf(busy.wait) # 0 => now >= cpu.from + Left(TicksOf(busy.wait))

LEMMA LeftOfTicks ==
  ASSUME NEW w \in Waits
  PROVE  /\ TicksOf(w) \in Nat /\ Left(TicksOf(w)) \in Nat
         /\ Left(TicksOf(w)) = TicksOf(w) + Started(TicksOf(w))
         /\ Started(TicksOf(w)) \in {0, 1}
<1>1. TicksOf(w) \in Nat
  BY TicksRoundedUp
<1>2. QED
  BY <1>1 DEF Left, Started

LEMMA Words ==
  /\ ACLINT_DELAY_CHUNK \in Nat /\ ACLINT_DELAY_CHUNK >= 1
  /\ 2 * ACLINT_DELAY_CHUNK < LO_MOD
  /\ MAX_GAP \in Nat /\ 1 <= MAX_GAP /\ MAX_GAP <= ACLINT_DELAY_CHUNK
<1>1. LO_MOD \div 2 \in Nat /\ 2 * (LO_MOD \div 2) <= LO_MOD /\ LO_MOD \div 2 >= 2
  BY WordAssumption
<1>2. QED
  BY <1>1, GapAssumption, WordAssumption DEF ACLINT_DELAY_CHUNK

LEMMA PollStep ==
  ASSUME TypeInv, DelayInv, Poll
  PROVE  DelayInv'
<1> DEFINE chunk == Chunk(busy.left)
           T == TicksOf(busy.wait)
<1>1. /\ now \in Nat /\ cpu \in Cpu /\ cpu.from \in Nat /\ cpu.pc = "poll" /\ now' = now
      /\ busy \in [wait : Waits \cup {NotBusy.wait}, t0 : Nat, left : Nat, gap : Nat]
  BY DEF TypeInv, Times, DelayInv, Poll, Cpu
<1>2. busy.wait \in Waits /\ T # 0 /\ busy.gap \in 0..MAX_GAP /\ busy.left \in 1..Left(T)
  BY <1>1 DEF DelayInv, Waiting
<1>3. T \in Nat /\ Left(T) \in Nat
  BY <1>2, LeftOfTicks
<1>4. PICK s \in cpu.from..cpu.from + MAX_GAP :
        /\ busy.t0 = Lo(Behind(s))
        /\ Polled \in Behind(s)..Behind(s) + Most(chunk, MAX_GAP) - 1
  BY <1>1 DEF DelayInv
<1> DEFINE b == Behind(s)
<1>5. /\ b = s + Left(T) - busy.left /\ b \in Nat /\ s \in Nat /\ s >= cpu.from
      /\ busy.left \in Nat /\ busy.gap \in Nat /\ b + busy.left = s + Left(T)
  BY <1>1, <1>2, <1>3, <1>4, Words DEF Behind
<1>6. /\ chunk \in 1..ACLINT_DELAY_CHUNK /\ chunk <= busy.left
      /\ busy.left # chunk => chunk = ACLINT_DELAY_CHUNK
  BY <1>2, <1>5, Words DEF Chunk, Least
<1>7. /\ b <= now /\ now < b + Most(chunk, MAX_GAP) + MAX_GAP
      /\ now - b < LO_MOD
  <2>1. Polled = now - busy.gap /\ busy.gap <= MAX_GAP
    BY <1>2 DEF Polled
  <2>2. Polled >= b /\ Polled <= b + Most(chunk, MAX_GAP) - 1
    BY <1>4
  <2>3. Most(chunk, MAX_GAP) \in 1..ACLINT_DELAY_CHUNK
    BY <1>6, Words DEF Most
  <2> HIDE DEF b, chunk
  <2>4. QED
    BY <2>1, <2>2, <2>3, <1>1, <1>5, Words, WordAssumption
<1>8. (Lo(now) - busy.t0) % LO_MOD = now - b
  BY <1>1, <1>4, <1>5, <1>7, LowDifference
<1>9. now' - 0 = now /\ cpu'.from = cpu.from /\ cpu'.call = cpu.call
  BY <1>1 DEF Poll, Cpu
<1>10. CASE now - b < chunk
  <2>1. busy' = [busy EXCEPT !.gap = 0] /\ cpu' = cpu
    BY <1>8, <1>10 DEF Poll
  <2>2. busy'.gap = 0 /\ busy'.wait = busy.wait /\ busy'.left = busy.left /\ busy'.t0 = busy.t0
    BY <1>1, <2>1
  <2>3. busy' \in [wait : Waits \cup {NotBusy.wait}, t0 : Nat, left : Nat, gap : Nat]
    BY <1>1, <2>1
  <2>4. Behind(s)' = b /\ Polled' = now
    BY <1>1, <2>2 DEF Behind, Polled
  <2>5. now \in b..b + Most(chunk, MAX_GAP) - 1
    BY <1>1, <1>5, <1>6, <1>7, <1>10, Words DEF Most
  <2>6. \E r \in cpu'.from..cpu'.from + MAX_GAP :
            /\ busy'.t0 = Lo(Behind(r)')
            /\ Polled' \in Behind(r)'..Behind(r)' + Most(Chunk(busy'.left), MAX_GAP) - 1
    BY <1>4, <1>9, <2>2, <2>4, <2>5
  <2>7. QED
    BY <1>1, <1>2, <2>1, <2>2, <2>3, <2>6, Words DEF DelayInv, Waiting
<1>11. CASE ~(now - b < chunk)
  <2>1. /\ busy' = [busy EXCEPT !.t0 = (@ + chunk) % LO_MOD, !.left = @ - chunk, !.gap = 0]
        /\ cpu' = [cpu EXCEPT !.pc = IF busy.left = chunk THEN "done" ELSE "poll"]
    BY <1>8, <1>11 DEF Poll
  <2>2. /\ busy'.gap = 0 /\ busy'.wait = busy.wait /\ busy'.left = busy.left - chunk
        /\ busy'.t0 = (busy.t0 + chunk) % LO_MOD
    BY <1>1, <2>1
  <2>3. (busy.t0 + chunk) % LO_MOD = Lo(b + chunk) /\ Lo(b + chunk) \in Nat
    <3>1. busy.t0 = Lo(b) /\ chunk \in Nat /\ b \in Nat /\ b + chunk \in Nat
      BY <1>4, <1>5, <1>6, Words
    <3> HIDE DEF b, chunk
    <3>2. Lo(b + chunk) \in 0..LO_MOD - 1
      BY <3>1, Halves
    <3>3. (Lo(b) + chunk) % LO_MOD = Lo(b + chunk)
      BY <3>1, LowOfSum
    <3>4. QED
      BY <3>1, <3>2, <3>3
  <2>4. busy' \in [wait : Waits \cup {NotBusy.wait}, t0 : Nat, left : Nat, gap : Nat]
    <3>1. busy.left - chunk \in Nat
      BY <1>5, <1>6, Words
    <3> HIDE DEF b, chunk
    <3>2. QED
      BY <1>1, <2>1, <2>3, <3>1
  <2>5. CASE busy.left = chunk
    <3>1. cpu'.pc = "done"
      BY <1>1, <2>1, <2>5 DEF Cpu
    <3>2. now >= cpu.from + Left(T)
      BY <1>1, <1>3, <1>5, <1>11, <2>5
    <3>3. QED
      BY <1>1, <1>2, <1>9, <2>2, <2>4, <3>1, <3>2 DEF DelayInv, Waiting
  <2>6. CASE busy.left # chunk
    <3>1. cpu'.pc = "poll" /\ chunk = ACLINT_DELAY_CHUNK
      BY <1>1, <1>6, <2>1, <2>6 DEF Cpu
    <3>2. busy'.left \in 1..Left(T)
      BY <1>2, <1>3, <1>5, <1>6, <2>2, <2>6, Words
    <3>3. Behind(s)' = b + chunk /\ Polled' = now
      BY <1>1, <1>3, <1>5, <1>6, <2>2, Words DEF Behind, Polled
    <3>4. Most(chunk, MAX_GAP) = chunk
      BY <3>1, Words DEF Most
    <3>5. Most(Chunk(busy'.left), MAX_GAP) \in Nat /\ Most(Chunk(busy'.left), MAX_GAP) >= MAX_GAP
      BY <3>2, <1>3, Words DEF Most, Chunk, Least
    <3>6. now \in b + chunk..(b + chunk) + Most(Chunk(busy'.left), MAX_GAP) - 1
      BY <1>1, <1>5, <1>6, <1>7, <1>11, <3>4, <3>5, Words
    <3>7. \E r \in cpu'.from..cpu'.from + MAX_GAP :
            /\ busy'.t0 = Lo(Behind(r)')
            /\ Polled' \in Behind(r)'..Behind(r)' + Most(Chunk(busy'.left), MAX_GAP) - 1
      BY <1>4, <1>9, <2>2, <2>3, <3>3, <3>6
    <3>8. QED
      BY <1>1, <1>2, <2>2, <2>4, <3>1, <3>2, <3>7, Words DEF DelayInv, Waiting
  <2>7. QED
    BY <2>5, <2>6
<1>12. QED
  BY <1>10, <1>11

LEMMA DelayStep ==
  ASSUME TypeInv, ReadInv, DelayInv, Next
  PROVE  DelayInv'
<1> DEFINE Busy == [wait : Waits \cup {NotBusy.wait}, t0 : Nat, left : Nat, gap : Nat]
<1> now \in Nat /\ cpu \in Cpu /\ cpu.from \in Nat /\ busy \in Busy
  BY DEF TypeInv, Times, DelayInv, Cpu
<1>1. CASE Tick
  <2>1. now' = now + 1 /\ cpu' = cpu
        /\ (Waiting => busy.gap < MAX_GAP /\ busy' = [busy EXCEPT !.gap = @ + 1])
        /\ (~Waiting => busy' = busy)
    BY <1>1 DEF Tick
  <2>2. CASE Waiting
    <3>1. /\ busy'.gap = busy.gap + 1 /\ busy'.wait = busy.wait /\ busy'.left = busy.left
          /\ busy'.t0 = busy.t0 /\ busy' \in Busy
      BY <2>1, <2>2
    <3>2. Polled' = Polled /\ \A s : Behind(s)' = Behind(s)
      BY <2>1, <3>1 DEF Polled, Behind
    <3>3. busy'.gap \in 0..MAX_GAP /\ cpu.pc # "done"
      BY <2>1, <2>2, <3>1, Words DEF Waiting
    <3>4. cpu.pc = "poll" =>
            \E s \in cpu.from..cpu.from + MAX_GAP :
              /\ busy'.t0 = Lo(Behind(s)')
              /\ Polled' \in Behind(s)'..Behind(s)' + Most(Chunk(busy'.left), MAX_GAP) - 1
      BY <3>1, <3>2 DEF DelayInv
    <3>5. QED
      BY <2>1, <2>2, <3>1, <3>2, <3>3, <3>4 DEF DelayInv, Waiting
  <2>3. CASE ~Waiting
    <3>1. cpu.pc # "t0" /\ cpu.pc # "poll"
      BY <2>3 DEF Waiting
    <3>2. cpu.call = "delay" /\ cpu.pc = "done" => busy.wait \in Waits
      BY DEF DelayInv
    <3>3. cpu.call = "delay" /\ cpu.pc = "done" => Left(TicksOf(busy.wait)) \in Nat
      BY <3>2, LeftOfTicks
    <3>4. QED
      BY <2>1, <2>3, <3>1, <3>2, <3>3 DEF DelayInv, Waiting
  <2>4. QED
    BY <2>2, <2>3
<1>2. CASE OtherLoad
  BY <1>2 DEF OtherLoad, DelayInv, Waiting, Polled, Behind
<1>3. CASE Call
  <2>1. CASE \E w \in Waits : aclint_delay_ticks(w)
    <3>1. PICK w \in Waits : aclint_delay_ticks(w)
      BY <2>1
    <3>2. /\ cpu' = Entered("delay", IF TicksOf(w) = 0 THEN "done" ELSE "t0", now, 0, 0)
          /\ busy' = [NotBusy EXCEPT !.wait = w] /\ now' = now
      BY <3>1 DEF aclint_delay_ticks, Enter
    <3>3. /\ busy'.gap = 0 /\ busy'.wait = w /\ busy' \in Busy
      BY <3>2 DEF NotBusy
    <3>4. /\ cpu'.from = now /\ cpu'.call = "delay"
          /\ cpu'.pc = IF TicksOf(w) = 0 THEN "done" ELSE "t0"
      BY <3>2 DEF Entered
    <3>5. Polled' = now
      BY <3>2, <3>3 DEF Polled
    <3>6. QED
      BY <3>3, <3>4, <3>5, Words DEF DelayInv, Waiting
  <2>2. CASE ~(\E w \in Waits : aclint_delay_ticks(w))
    <3>1. cpu'.call # "delay" /\ cpu'.pc \notin {"t0", "poll"} /\ busy' = NotBusy
      BY <1>3, <2>2 DEF Call, Enter, aclint_mtime_read, aclint_timer_expired,
         aclint_timer_disable, aclint_timer_set_rel, Entered
    <3>2. NotBusy \in Busy
      BY DEF NotBusy
    <3>3. QED
      BY <3>1, <3>2 DEF DelayInv, Waiting
  <2>3. QED
    BY <2>1, <2>2
<1>4. CASE LoadHi \/ LoadLo \/ LoadHi2 \/ StoreCover \/ StoreHigh \/ StoreLow
  <2>1. busy' = busy /\ now' = now /\ cpu.call # "delay" /\ cpu'.call = cpu.call
    BY <1>4 DEF LoadHi, LoadLo, LoadHi2, Return, StoreCover, StoreHigh, StoreLow,
                ReadInv, Reading, Cpu
  <2>2. cpu'.pc \notin {"t0", "poll"}
    BY <1>4 DEF LoadHi, LoadLo, LoadHi2, Return, StoreCover, StoreHigh, StoreLow, Cpu
  <2>3. QED
    BY <2>1, <2>2 DEF DelayInv, Waiting
<1>5. CASE LoadT0
  <2> DEFINE T == TicksOf(busy.wait)
  <2>1. /\ cpu.pc = "t0" /\ now' = now /\ cpu' = [cpu EXCEPT !.pc = "poll"]
        /\ busy' = [busy EXCEPT !.t0 = Lo(now), !.left = Left(T), !.gap = 0]
    BY <1>5 DEF LoadT0
  <2>2. busy.wait \in Waits /\ T # 0 /\ busy.gap \in 0..MAX_GAP /\ now - busy.gap = cpu.from
    BY <2>1 DEF DelayInv, Waiting, Polled
  <2>3. T \in Nat /\ Left(T) \in Nat /\ Left(T) >= 1 /\ Lo(now) \in Nat
    BY <2>2, LeftOfTicks, Halves
  <2>4. /\ busy'.gap = 0 /\ busy'.wait = busy.wait /\ busy'.left = Left(T)
        /\ busy'.t0 = Lo(now) /\ busy' \in Busy
    BY <2>1, <2>3
  <2>5. Behind(now)' = now /\ Polled' = now
    BY <2>1, <2>3, <2>4 DEF Behind, Polled
  <2>6. Most(Chunk(Left(T)), MAX_GAP) \in Nat /\ Most(Chunk(Left(T)), MAX_GAP) >= 1
    BY <2>3, Words DEF Most, Chunk, Least
  <2>7. now \in cpu.from..cpu.from + MAX_GAP /\ busy'.left \in 1..Left(T)
    BY <2>2, <2>3, <2>4, Words
  <2>8. now \in now..now + Most(Chunk(busy'.left), MAX_GAP) - 1
    BY <2>4, <2>6
  <2>9. cpu'.pc = "poll" /\ cpu'.from = cpu.from /\ now = now'
    BY <2>1 DEF Cpu
  <2>10. \E s \in cpu'.from..cpu'.from + MAX_GAP :
            /\ busy'.t0 = Lo(Behind(s)')
            /\ Polled' \in Behind(s)'..Behind(s)' + Most(Chunk(busy'.left), MAX_GAP) - 1
    <3>1. \E s \in cpu.from..cpu.from + MAX_GAP : s = now
      BY <2>7
    <3>2. PICK s \in cpu.from..cpu.from + MAX_GAP : s = now
      BY <3>1
    <3>3. Behind(s)' = now
      BY <2>4, <3>2, <2>3, <2>9 DEF Behind
    <3>4. QED
      BY <2>4, <2>5, <2>8, <2>9, <3>2, <3>3
  <2>11. QED
    BY <2>2, <2>4, <2>7, <2>9, <2>10, Words DEF DelayInv, Waiting
<1>6. CASE Poll
  BY <1>6, PollStep
<1>7. QED
  BY <1>1, <1>2, <1>3, <1>4, <1>5, <1>6 DEF Next, Access

(* The inductive invariant of delays holds, given that of reads and alarms. *)
THEOREM DelayInvariant == Spec => []DelayInv
<1>1. Init => DelayInv
  <2> SUFFICES ASSUME Init PROVE DelayInv
    OBVIOUS
  <2>1. cpu.pc = "done" /\ cpu.call = "none" /\ busy = NotBusy
    BY DEF Init, Entered
  <2>2. NotBusy \in [wait : Waits \cup {NotBusy.wait}, t0 : Nat, left : Nat, gap : Nat]
    BY DEF NotBusy
  <2>3. QED
    BY <2>1, <2>2 DEF DelayInv, Waiting
<1>2. IInv /\ DelayInv /\ [Next]_vars => DelayInv'
  <2> SUFFICES ASSUME IInv, DelayInv, [Next]_vars PROVE DelayInv'
    OBVIOUS
  <2>1. CASE Next
    BY <2>1, DelayStep DEF IInv
  <2>2. CASE UNCHANGED vars
    BY <2>2 DEF vars, DelayInv, Waiting, Polled, Behind
  <2>3. QED
    BY <2>1, <2>2
<1>3. QED
  BY <1>1, <1>2, TimeInvariant, PTL DEF Spec

(* aclint_delay_ticks, _us and _ms never return early: for any widths, any  *)
(* delay and rate whose product fits, any polling and any loads of others,  *)
(* the whole periods after the one the call fell in cover the time asked    *)
(* for.                                                                     *)
THEOREM DelaysNeverShort == Spec => []DelayNeverShort
<1>1. IInv /\ DelayInv => DelayNeverShort
  <2> SUFFICES ASSUME IInv, DelayInv, cpu.call = "delay", cpu.pc = "done", busy.wait.t > 0
               PROVE  (now - cpu.from - Started(TicksOf(busy.wait))) * busy.wait.d
                        >= busy.wait.t * busy.wait.hz
    BY DEF DelayNeverShort
  <2> DEFINE w == busy.wait
             T == TicksOf(w)
             m == w.t * w.hz
             span == now - cpu.from - Started(T)
  <2>1. now \in Nat /\ cpu.from \in Nat /\ w \in Waits
        /\ (T # 0 => now >= cpu.from + Left(T))
    BY DEF IInv, TypeInv, Times, Cpu, DelayInv
  <2>2. w.t \in Nat /\ w.t >= 1 /\ w.hz \in Nat \ {0} /\ w.d \in Nat \ {0}
    BY <2>1, WaitAssumption
  <2>3. T \in Nat /\ Left(T) = T + Started(T) /\ Started(T) \in {0, 1} /\ T * w.d >= m
    BY <2>1, LeftOfTicks, TicksRoundedUp
  <2>4. m \in Nat /\ m >= 1
    BY <2>2, SMTT(30)
  <2> HIDE DEF w, T, m
  <2>5. T # 0
    <3>1. T = 0 => T * w.d = 0
      BY <2>2
    <3>2. QED
      BY <2>3, <2>4, <3>1
  <2>6. span \in Nat /\ span >= T
    BY <2>1, <2>3, <2>5
  <2> HIDE DEF span
  <2>7. span * w.d >= T * w.d /\ span * w.d \in Nat /\ T * w.d \in Nat
    BY <2>2, <2>3, <2>6, SMTT(30)
  <2>8. span * w.d >= m
    BY <2>3, <2>4, <2>7
  <2>9. QED
    BY <2>8 DEF span, w, T, m
<1>2. QED
  BY <1>1, TimeInvariant, DelayInvariant, PTL

(* Nor does a delay run on past its end when the low word wraps between two *)
(* polls: it ends within three gaps, for any gap up to a chunk.             *)
THEOREM DelaysEndOnTime == Spec => []DelayEndsOnTime
<1>1. IInv /\ DelayInv => DelayEndsOnTime
  <2> SUFFICES ASSUME IInv, DelayInv, Waiting
               PROVE  now <= cpu.from + TicksOf(busy.wait) + 1 + 3 * MAX_GAP
    BY DEF DelayEndsOnTime
  <2> DEFINE T == TicksOf(busy.wait)
  <2>1. /\ now \in Nat /\ cpu.from \in Nat /\ busy.wait \in Waits /\ busy.gap \in 0..MAX_GAP
        /\ busy.left \in Nat
    BY DEF IInv, TypeInv, Times, Cpu, DelayInv
  <2>2. T \in Nat /\ Left(T) \in Nat /\ Left(T) <= T + 1
    BY <2>1, LeftOfTicks
  <2>3. CASE cpu.pc = "t0"
    BY <2>1, <2>2, <2>3, Words DEF DelayInv, Polled
  <2>4. CASE cpu.pc = "poll"
    <3>1. PICK s \in cpu.from..cpu.from + MAX_GAP :
            Polled \in Behind(s)..Behind(s) + Most(Chunk(busy.left), MAX_GAP) - 1
      BY <2>4 DEF DelayInv
    <3>2. busy.left \in 1..Left(T)
      BY <2>4 DEF DelayInv
    <3>3. Most(Chunk(busy.left), MAX_GAP) <= busy.left + MAX_GAP
          /\ Most(Chunk(busy.left), MAX_GAP) \in Nat
      BY <2>1, Words DEF Most, Chunk, Least
    <3>4. Behind(s) = s + Left(T) - busy.left /\ Polled = now - busy.gap
      BY DEF Behind, Polled
    <3> HIDE DEF T
    <3>5. now - busy.gap <= s + Left(T) - busy.left + (busy.left + MAX_GAP) - 1
      BY <2>1, <2>2, <3>1, <3>3, <3>4, Words
    <3>6. QED
      BY <2>1, <2>2, <3>1, <3>5, Words DEF T
  <2>5. QED
    BY <2>3, <2>4 DEF Waiting
<1>2. QED
  BY <1>1, TimeInvariant, DelayInvariant, PTL
============================================================================
