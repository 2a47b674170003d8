----------------------------- MODULE Core_proofs -----------------------------
(***************************************************************************)
(* Theorems about Core, for every program, every set of breakpoints, every *)
(* quantum and every width of addresses and of the timer's count.          *)
(***************************************************************************)
EXTENDS Core, Tick_proofs

-----------------------------------------------------------------------------
(* The member functions of Cpu yield states of the core, and spend no       *)
(* cycles unless their name says so.                                        *)

SameBudget(c, d) == d.ran = c.ran /\ d.lim = c.lim /\ d.slept = c.slept

LEMMA AfterType == ASSUME NEW a \in Addr PROVE After(a) \in Addr
<1>1. a + 4 \in Nat
  BY CpuAssumption DEF Addr
<1>2. QED
  BY <1>1, ModRange, CpuAssumption DEF After, Addr

LEMMA ExceptionPcType ==
  ASSUME NEW c \in Cpus, NEW type \in Exceptions
  PROVE  ExceptionPc(c, type) \in Addr
<1>1. c.pc \in Addr /\ c.prev \in Addr /\ c.jtgt \in Addr
  BY DEF Cpus
<1>2. After(c.pc) \in Addr
  BY <1>1, AfterType
<1>3. QED
  BY <1>1, <1>2 DEF ExceptionPc

LEMMA EnteredIs ==
  ASSUME NEW c \in Cpus, NEW type \in Exceptions
  PROVE  /\ Entered(c, type) \in Cpus
         /\ SameBudget(c, Entered(c, type))
         /\ Entered(c, type).lag = c.lag
         /\ Entered(c, type).tick = c.tick
         /\ Entered(c, type).brk = c.brk
         /\ Entered(c, type).wp = c.wp
         /\ Entered(c, type).stop = c.stop
         /\ Entered(c, type).pc = c.pc
         /\ Entered(c, type).sr = HandlerStatus(c)
         /\ ~HandlerStatus(c).tee
<1>1. HandlerStatus(c) \in Statuses
  BY DEF HandlerStatus, Statuses, IsDelayInsn, Cpus
<1>2. ExceptionPc(c, type) \in Addr
  BY ExceptionPcType
<1>3. ~HandlerStatus(c).tee
  BY DEF HandlerStatus
<1>4. QED
  BY <1>1, <1>2, <1>3 DEF Entered, Cpus, SameBudget

LEMMA ExceptionIs ==
  ASSUME NEW c \in Cpus, NEW type \in Exceptions
  PROVE  /\ Exception(c, type) \in Cpus
         /\ SameBudget(c, Exception(c, type))
         /\ Exception(c, type).lag = c.lag
         /\ Exception(c, type).tick = c.tick
         /\ Exception(c, type).brk = c.brk
         /\ Exception(c, type).wp = c.wp
         /\ Exception(c, type).stop = c.stop
         /\ type \notin Interrupts => Exception(c, type).pc = c.pc
         /\ ~Masked(c, type) => ~Exception(c, type).sr.tee
         /\ Exception(c, type).sr.tee => c.sr.tee
<1> DEFINE e == Entered(c, type)
<1>1. /\ e \in Cpus
      /\ SameBudget(c, e) /\ e.lag = c.lag /\ e.tick = c.tick
      /\ e.brk = c.brk /\ e.wp = c.wp /\ e.stop = c.stop /\ e.pc = c.pc
      /\ ~e.sr.tee
  BY EnteredIs
<1>2. Vector[type] \in Addr
  BY CpuAssumption
<1>0. -2 \in JumpDistances /\ 0 \in JumpDistances
  BY DEF JumpDistances
<1>3. CASE Masked(c, type)
  BY <1>3 DEF Exception, SameBudget
<1>4. CASE ~Masked(c, type) /\ type \in Interrupts
  <2>1. Exception(c, type) = [e EXCEPT !.jd = -2, !.pc = Vector[type]]
    BY <1>4 DEF Exception
  <2>2. Exception(c, type) \in Cpus
    BY <1>0, <1>1, <1>2, <2>1 DEF Cpus
  <2>3. QED
    BY <1>1, <1>4, <2>1, <2>2 DEF SameBudget, Cpus
<1>5. CASE ~Masked(c, type) /\ type \notin Interrupts
  <2>1. Exception(c, type) = [e EXCEPT !.jd = 0, !.jtgt = Vector[type]]
    BY <1>5 DEF Exception
  <2>2. Exception(c, type) \in Cpus
    BY <1>0, <1>1, <1>2, <2>1 DEF Cpus
  <2>3. QED
    BY <1>1, <1>5, <2>1, <2>2 DEF SameBudget, Cpus
<1>6. QED
  BY <1>3, <1>4, <1>5

LEMMA ScheduleJumpIs ==
  ASSUME NEW c \in Cpus, NEW target \in Addr, NEW delay \in {0, 1}
  PROVE  /\ ScheduleJump(c, target, delay) \in Cpus
         /\ SameBudget(c, ScheduleJump(c, target, delay))
         /\ ScheduleJump(c, target, delay).tick = c.tick
         /\ ScheduleJump(c, target, delay).brk = c.brk
         /\ ScheduleJump(c, target, delay).wp = c.wp
         /\ ScheduleJump(c, target, delay).stop = c.stop
         /\ ScheduleJump(c, target, delay).pc = c.pc
         /\ ScheduleJump(c, target, delay).sr.tee => c.sr.tee
<1> DEFINE s == [c EXCEPT !.jtgt = target, !.jd = delay]
<1>0. delay \in JumpDistances
  BY DEF JumpDistances
<1>1. /\ s \in Cpus
      /\ SameBudget(c, s) /\ s.tick = c.tick /\ s.brk = c.brk /\ s.wp = c.wp
      /\ s.stop = c.stop /\ s.pc = c.pc /\ s.sr = c.sr
  BY <1>0 DEF Cpus, SameBudget
<1>2. ScheduleJump(c, target, delay) =
        IF Aligned(target) THEN s ELSE Exception(s, "INSN_ALIGNMENT")
  BY DEF ScheduleJump
<1>3. "INSN_ALIGNMENT" \in Exceptions \ Interrupts
  BY DEF Exceptions, Interrupts, Restarting
<1> HIDE DEF s
<1>4. CASE Aligned(target)
  BY <1>1, <1>2, <1>4
<1>5. CASE ~Aligned(target)
  BY <1>1, <1>2, <1>3, <1>5, ExceptionIs DEF SameBudget
<1>6. QED
  BY <1>4, <1>5

LEMMA NextPcIs ==
  ASSUME NEW c \in Cpus
  PROVE  /\ NextPc(c) \in Cpus
         /\ SameBudget(c, NextPc(c))
         /\ NextPc(c).tick = c.tick /\ NextPc(c).sr = c.sr
         /\ NextPc(c).brk = c.brk /\ NextPc(c).wp = c.wp /\ NextPc(c).stop = c.stop
         /\ NextPc(c).pc = IF c.jd = 0 THEN c.jtgt ELSE After(c.pc)
<1>1. c.jtgt \in Addr /\ After(c.pc) \in Addr
  BY AfterType DEF Cpus
<1>2. QED
  BY <1>1 DEF NextPc, Cpus, SameBudget

(* A tick that is pending, in a timer that runs, and not masked.            *)
Carried(c) == Enabled(c.tick) /\ c.tick.ip /\ c.sr.tee

LEMMA RaiseExternalIs ==
  ASSUME NEW c \in Cpus
  PROVE  /\ RaiseExternal(c) \in Cpus
         /\ SameBudget(c, RaiseExternal(c))
         /\ RaiseExternal(c).brk = c.brk
         /\ RaiseExternal(c).wp = c.wp
         /\ RaiseExternal(c).stop = c.stop
         /\ Carried(RaiseExternal(c)) => Carried(c)
<1>1. "EXTERNAL" \in Exceptions
  BY DEF Exceptions, Interrupts
<1>2. CASE Pending(c)
  BY <1>1, <1>2, ExceptionIs DEF RaiseExternal, Carried
<1>3. CASE ~Pending(c)
  BY <1>3 DEF RaiseExternal, SameBudget
<1>4. QED
  BY <1>2, <1>3

(* After update_timer() no unmasked tick is left pending.                   *)
LEMMA UpdateTimerIs ==
  ASSUME NEW c \in Cpus
  PROVE  /\ UpdateTimer(c) \in Cpus
         /\ SameBudget(c, UpdateTimer(c))
         /\ UpdateTimer(c).brk = c.brk
         /\ UpdateTimer(c).wp = c.wp
         /\ UpdateTimer(c).stop = c.stop
         /\ ~Carried(UpdateTimer(c))
<1> DEFINE t == IF Enabled(c.tick) THEN Update(c.tick, c.lag) ELSE c.tick
           u == [c EXCEPT !.lag = 0, !.tick = t]
<1>1. t \in Timers
  BY UpdateType DEF Cpus
<1> HIDE DEF t
<1>2. /\ u \in Cpus /\ SameBudget(c, u)
      /\ u.brk = c.brk /\ u.wp = c.wp /\ u.stop = c.stop
  BY <1>1 DEF Cpus, SameBudget
<1>3. UpdateTimer(c) =
        IF Enabled(u.tick) /\ u.tick.ip THEN Exception(u, "TICK_TIMER") ELSE u
  BY DEF UpdateTimer, t
<1>4. "TICK_TIMER" \in Exceptions
  BY DEF Exceptions, Interrupts
<1> HIDE DEF u
<1>5. CASE Enabled(u.tick) /\ u.tick.ip
  <2>1. UpdateTimer(c) = Exception(u, "TICK_TIMER")
    BY <1>3, <1>5
  <2>2. CASE Masked(u, "TICK_TIMER")
    <3>1. Exception(u, "TICK_TIMER") = u /\ ~u.sr.tee
      BY <2>2 DEF Exception, Masked
    <3>2. QED
      BY <1>2, <2>1, <3>1 DEF Carried
  <2>3. CASE ~Masked(u, "TICK_TIMER")
    BY <1>2, <1>4, <2>1, <2>3, ExceptionIs DEF Carried, SameBudget
  <2>4. QED
    BY <2>2, <2>3
<1>6. CASE ~(Enabled(u.tick) /\ u.tick.ip)
  BY <1>2, <1>3, <1>6 DEF Carried
<1>7. QED
  BY <1>5, <1>6

LEMMA SmallerIs ==
  ASSUME NEW a \in Nat, NEW b \in Nat
  PROVE  Smaller(a, b) \in Nat /\ Smaller(a, b) <= a /\ Smaller(a, b) <= b
BY DEF Smaller

LEMMA TickSkipType == ASSUME NEW c \in Cpus PROVE TickSkip(c) \in Nat
<1>1. c.tick \in Timers /\ c.tick.tp \in Nat
  BY DEF Cpus, Timers, Counts
<1>2. NextTick(c.tick) \in Nat
  BY <1>1, NextTickPositive
<1>3. QED
  BY <1>1, <1>2, SmallerIs DEF TickSkip

(* doze() advances m_cycles towards m_limit but not beyond, or both alike.  *)
LEMMA DozeIs ==
  ASSUME NEW c \in Cpus, NEW n \in Nat, c.ran <= c.lim, c.slept <= c.ran
  PROVE  /\ Doze(c, n) \in Cpus
         /\ c.ran <= Doze(c, n).ran /\ c.lim <= Doze(c, n).lim
         /\ Doze(c, n).ran <= Doze(c, n).lim
         /\ Doze(c, n).lim - Doze(c, n).ran <= c.lim - c.ran
         /\ Doze(c, n).slept <= Doze(c, n).ran
         /\ Doze(c, n).brk = c.brk
         /\ Doze(c, n).wp = c.wp
         /\ Doze(c, n).stop = c.stop
         /\ Carried(Doze(c, n)) => Carried(c)
<1>1. c.ran \in Nat /\ c.lim \in Nat /\ c.slept \in Nat /\ c.lag \in Nat
  BY DEF Cpus
<1>2. CASE ~c.doze \/ ~c.allowSleep
  <2>1. Doze(c, n) = c
    BY <1>2 DEF Doze
  <2>2. QED
    BY <1>1, <2>1
<1>3. CASE ~(~c.doze \/ ~c.allowSleep) /\ n > 0
  <2> DEFINE d == [c EXCEPT !.ran = @ + n, !.lag = @ + n, !.slept = @ + n,
                            !.lim = @ + n, !.doze = FALSE]
  <2>1. Doze(c, n) = d
    BY <1>3 DEF Doze, Elapse, Cpus
  <2>2. /\ d.ran = c.ran + n /\ d.lim = c.lim + n /\ d.slept = c.slept + n
        /\ d.brk = c.brk /\ d.wp = c.wp /\ d.stop = c.stop
        /\ d.tick = c.tick /\ d.sr = c.sr
    BY DEF Cpus
  <2>3. /\ c.ran + n \in Nat /\ c.lim + n \in Nat
        /\ c.slept + n \in Nat /\ c.lag + n \in Nat
    BY <1>1
  <2>4. d \in Cpus
    BY <2>3 DEF Cpus
  <2> HIDE DEF d
  <2>5. QED
    BY <1>1, <2>1, <2>2, <2>4 DEF Carried
<1>4. CASE ~(~c.doze \/ ~c.allowSleep) /\ ~(n > 0)
  <2> DEFINE left == c.lim - c.ran
             skip == IF WakesForTick(c) THEN Smaller(TickSkip(c), left) ELSE left
             d == [c EXCEPT !.ran = @ + skip, !.lag = @ + skip, !.slept = @ + skip]
  <2>1. left \in Nat
    BY <1>1
  <2>2. skip \in Nat /\ skip <= left
    <3>1. TickSkip(c) \in Nat
      BY TickSkipType
    <3>2. Smaller(TickSkip(c), left) \in Nat /\ Smaller(TickSkip(c), left) <= left
      BY <2>1, <3>1 DEF Smaller
    <3>3. QED
      BY <2>1, <3>2
  <2>3. Doze(c, n) = UpdateTimer(d)
    BY <1>4 DEF Doze, Elapse, Cpus
  <2> HIDE DEF skip
  <2>4. /\ d.ran = c.ran + skip /\ d.lim = c.lim /\ d.slept = c.slept + skip
        /\ d.brk = c.brk /\ d.wp = c.wp /\ d.stop = c.stop
    BY DEF Cpus
  <2>5. c.ran + skip \in Nat /\ c.slept + skip \in Nat /\ c.lag + skip \in Nat
    BY <1>1, <2>2
  <2>6. d \in Cpus
    BY <2>5 DEF Cpus
  <2> HIDE DEF d
  <2>7. /\ UpdateTimer(d) \in Cpus
        /\ UpdateTimer(d).ran = c.ran + skip
        /\ UpdateTimer(d).lim = c.lim
        /\ UpdateTimer(d).slept = c.slept + skip
        /\ UpdateTimer(d).brk = c.brk
        /\ UpdateTimer(d).wp = c.wp
        /\ UpdateTimer(d).stop = c.stop
        /\ ~Carried(UpdateTimer(d))
    BY <2>4, <2>6, UpdateTimerIs DEF SameBudget
  <2>8. QED
    BY <1>1, <2>2, <2>3, <2>7
<1>5. QED
  BY <1>2, <1>3, <1>4

LEMMA RfeIs ==
  ASSUME NEW c \in Cpus
  PROVE  /\ Rfe(c) \in Cpus
         /\ SameBudget(c, Rfe(c))
         /\ Rfe(c).brk
         /\ Rfe(c).stop = c.stop
<1> DEFINE target == IF c.sr.sm THEN c.epcr ELSE 0
           j == ScheduleJump(c, target, 0)
           k == IF j.sr.sm THEN [j EXCEPT !.sr = j.esr] ELSE j
<1>1. target \in Addr
  BY CpuAssumption DEF Cpus, Addr
<1>2. j \in Cpus /\ SameBudget(c, j) /\ j.stop = c.stop
  BY <1>1, ScheduleJumpIs
<1> HIDE DEF j
<1>3. k \in Cpus /\ SameBudget(c, k) /\ k.stop = c.stop
  BY <1>2 DEF Cpus, SameBudget
<1>4. Rfe(c) = Broken(k)
  BY DEF Rfe, j
<1> HIDE DEF k
<1>5. QED
  BY <1>3, <1>4 DEF Broken, Cpus, SameBudget

-----------------------------------------------------------------------------
(* The invariant.  The quantum bounds the mini-quantum; the mini-quantum    *)
(* ends before the next breakpoint in line, unless something has broken it; *)
(* and a tick left pending is masked.                                       *)

BudgetInv ==
  /\ BudgetSound
  /\ ctl = "inner" => room <= cpu.lim - cpu.ran

BreakInv ==
  ctl = "inner" /\ ~cpu.brk /\ ~cpu.wp =>
     \A b \in bps : room <= Distance(cpu.pc, b)

TickInv ==
  /\ TickNeverCarried
  /\ ctl = "inner" => ~cpu.stop

IInv == TypeOK /\ BudgetInv /\ BreakInv /\ TickInv

(* What advance() may rely on when an instruction has left the core in c.   *)
Outcome(c) ==
  /\ c \in Cpus
  /\ cpu.ran <= c.ran /\ cpu.lim <= c.lim /\ c.ran <= c.lim
  /\ c.lim - c.ran <= quantum /\ c.slept <= c.ran
  /\ (c.pc = cpu.pc /\ cpu.ran + 1 <= c.ran) \/ c.brk \/ c.wp \/ c.stop
  /\ (c.brk /\ ~c.stop) \/ ~Carried(c)

(* The core when an instruction is fetched.                                 *)
LEMMA FetchedIs ==
  ASSUME IInv, Executing
  PROVE  /\ C \in Cpus
         /\ C.ran = cpu.ran + 1 /\ C.lim = cpu.lim /\ C.slept = cpu.slept
         /\ C.lag = cpu.lag + 1
         /\ C.pc = cpu.pc /\ C.tick = cpu.tick /\ C.sr = cpu.sr
         /\ ~C.brk /\ ~C.wp /\ ~C.stop
         /\ ~Carried(C)
         /\ C.ran <= C.lim /\ C.slept <= C.ran /\ C.lim - C.ran <= quantum
<1>1. /\ cpu \in Cpus /\ room \in Nat /\ quantum \in Nat
      /\ room > 0 /\ room <= cpu.lim - cpu.ran
      /\ cpu.lim - cpu.ran <= quantum /\ cpu.slept <= cpu.ran
      /\ ~cpu.brk /\ ~cpu.wp /\ ~cpu.stop /\ ~Carried(cpu)
  BY DEF IInv, TypeOK, BudgetInv, BudgetSound, TickInv, TickNeverCarried, Executing,
         Carried
<1>2. /\ cpu.ran \in Nat /\ cpu.lag \in Nat /\ cpu.lim \in Nat
      /\ cpu.slept \in Nat /\ cpu.jd \in JumpDistances
  BY <1>1 DEF Cpus
<1> DEFINE j == IF cpu.jd = -2 THEN -2 ELSE cpu.jd - 1
<1>3. /\ cpu.ran + 1 \in Nat /\ cpu.lag + 1 \in Nat
      /\ j \in JumpDistances
  BY <1>2 DEF JumpDistances
<1> HIDE DEF j
<1>4. C = [cpu EXCEPT !.ran = @ + 1, !.lag = @ + 1, !.jd = j]
  BY <1>1 DEF C, Counted, Elapse, Cpus, j
<1>5. /\ C \in Cpus
      /\ C.ran = cpu.ran + 1 /\ C.lim = cpu.lim /\ C.slept = cpu.slept
      /\ C.lag = cpu.lag + 1
      /\ C.pc = cpu.pc /\ C.tick = cpu.tick /\ C.sr = cpu.sr
      /\ C.brk = cpu.brk /\ C.wp = cpu.wp /\ C.stop = cpu.stop
  BY <1>1, <1>3, <1>4 DEF Cpus
<1>6. C.ran <= C.lim /\ C.slept <= C.ran /\ C.lim - C.ran <= quantum
  BY <1>1, <1>2, <1>5
<1>7. QED
  BY <1>1, <1>5, <1>6 DEF Carried

(* An instruction that costs its one cycle and no more.                     *)
LEMMA OneCycle ==
  ASSUME IInv, Executing,
         NEW c \in Cpus, SameBudget(C, c), ~c.stop,
         c.pc = cpu.pc \/ c.brk, c.brk \/ ~Carried(c)
  PROVE  Outcome(c)
<1>1. cpu.ran \in Nat /\ cpu.lim \in Nat /\ quantum \in Nat
  BY DEF IInv, TypeOK, Cpus
<1>2. /\ c.ran = cpu.ran + 1 /\ c.lim = cpu.lim
      /\ c.ran <= c.lim /\ c.slept <= c.ran /\ c.lim - c.ran <= quantum
  BY FetchedIs DEF SameBudget
<1>3. QED
  BY <1>1, <1>2 DEF Outcome

LEMMA SyncException ==
  ASSUME IInv, Executing,
         NEW c \in Cpus, SameBudget(C, c), ~c.stop, c.pc = cpu.pc, ~Carried(c),
         NEW type \in Exceptions \ Interrupts
  PROVE  /\ Exception(c, type) \in Cpus
         /\ SameBudget(C, Exception(c, type))
         /\ ~Exception(c, type).stop
         /\ Exception(c, type).pc = cpu.pc
         /\ ~Carried(Exception(c, type))
         /\ Outcome(Exception(c, type))
<1>1. /\ Exception(c, type) \in Cpus
      /\ SameBudget(C, Exception(c, type))
      /\ ~Exception(c, type).stop
      /\ Exception(c, type).pc = cpu.pc
      /\ ~Carried(Exception(c, type))
  BY ExceptionIs DEF SameBudget, Carried
<1>2. QED
  BY <1>1, OneCycle

(* A register write breaks the quantum, whether it is allowed or refused.   *)
LEMMA RegisterWrite ==
  ASSUME IInv, Executing, NEW c \in Cpus, SameBudget(C, c), ~c.stop
  PROVE  Outcome(Broken(IF C.sr.sm THEN c ELSE C))
<1> DEFINE d == IF C.sr.sm THEN c ELSE C
<1>1. d \in Cpus /\ SameBudget(C, d) /\ ~d.stop
  BY FetchedIs DEF SameBudget
<1> HIDE DEF d
<1>2. Broken(d) \in Cpus /\ SameBudget(C, Broken(d)) /\ ~Broken(d).stop /\ Broken(d).brk
  BY <1>1 DEF Broken, Cpus, SameBudget
<1>3. Outcome(Broken(d))
  BY <1>2, OneCycle
<1>4. QED
  BY <1>3 DEF d

-----------------------------------------------------------------------------
(* Every instruction has such an outcome.                                   *)

Completed == \E c : Outcome(c) /\ Completes(c)

LEMMA AluOutcome == ASSUME IInv, Alu PROVE Executing /\ Completed
<1>1. Executing
  BY DEF Alu, Fetches
<1>2. Outcome(C)
  BY <1>1, FetchedIs, OneCycle DEF SameBudget
<1>3. QED
  BY <1>1, <1>2 DEF Alu, Completed

LEMMA JumpOutcome ==
  ASSUME IInv, NEW t \in JumpTargets, Jump(t) PROVE Executing /\ Completed
<1> DEFINE j == ScheduleJump(C, t, 1)
<1>1. Executing
  BY DEF Jump, Fetches
<1>2. t \in Addr
  BY CoreAssumption
<1>3. /\ j \in Cpus /\ SameBudget(C, j) /\ j.tick = C.tick /\ j.pc = C.pc
      /\ j.stop = C.stop /\ (j.sr.tee => C.sr.tee)
  BY <1>1, <1>2, FetchedIs, ScheduleJumpIs
<1> HIDE DEF j
<1>4. Outcome(j)
  BY <1>1, <1>3, FetchedIs, OneCycle DEF Carried
<1>5. QED
  BY <1>1, <1>4 DEF Jump, Completed, j

LEMMA LoadStoreOutcome ==
  ASSUME IInv, NEW a \in DataAddrs, NEW wr \in BOOLEAN, NEW f \in DataFaults(cpu),
         LoadStore(a, wr, f)
  PROVE  Executing /\ Completed
<1> DEFINE hit == a \in (IF wr THEN wpw ELSE wpr)
           w == [C EXCEPT !.wp = @ \/ hit]
           d == [C EXCEPT !.wp = @ \/ hit, !.ran = @ + AccessCycles,
                          !.lag = @ + AccessCycles, !.lim = @ + AccessCycles]
<1>1. Executing
  BY DEF LoadStore, Fetches
<1>2. /\ w \in Cpus /\ SameBudget(C, w) /\ w.stop = C.stop /\ w.pc = C.pc
      /\ w.tick = C.tick /\ w.sr = C.sr
  BY <1>1, FetchedIs DEF Cpus, SameBudget
<1>3. CASE f # "NONE"
  <2>1. f \in Exceptions \ Interrupts
    BY <1>3 DEF DataFaults, Exceptions, Interrupts, Restarting
  <2>2. ~w.stop /\ w.pc = cpu.pc /\ ~Carried(w)
    BY <1>1, <1>2, FetchedIs DEF Carried
  <2>3. Transact(C, hit, f) = Exception(w, f)
    BY <1>3 DEF Transact
  <2> HIDE DEF w
  <2>4. Outcome(Exception(w, f))
    BY <1>1, <1>2, <2>1, <2>2, SyncException
  <2>5. QED
    BY <1>1, <2>3, <2>4 DEF LoadStore, Completed
<1>4. CASE f = "NONE"
  <2>1. AccessCycles \in Nat
    BY CpuAssumption DEF AccessCycles, DirectCycles
  <2>2. Transact(C, hit, f) = d
    BY <1>1, <1>4, FetchedIs DEF Transact, Elapse, Cpus
  <2>3. C.ran \in Nat /\ C.lim \in Nat /\ C.slept \in Nat /\ C.lag \in Nat
    BY <1>1, FetchedIs DEF Cpus
  <2>4. /\ C.ran + AccessCycles \in Nat /\ C.lag + AccessCycles \in Nat
        /\ C.lim + AccessCycles \in Nat
    BY <2>1, <2>3
  <2>5. /\ d \in Cpus
        /\ d.ran = C.ran + AccessCycles /\ d.lim = C.lim + AccessCycles
        /\ d.slept = C.slept /\ d.pc = C.pc /\ d.tick = C.tick /\ d.sr = C.sr
        /\ d.stop = C.stop
    BY <1>1, <2>4, FetchedIs DEF Cpus
  <2>6. quantum \in Nat /\ cpu.ran \in Nat /\ cpu.lim \in Nat
    BY DEF IInv, TypeOK, Cpus
  <2> HIDE DEF d
  <2>7. /\ cpu.ran <= d.ran /\ cpu.lim <= d.lim /\ d.ran <= d.lim
        /\ d.lim - d.ran <= quantum /\ d.slept <= d.ran
        /\ d.pc = cpu.pc /\ cpu.ran + 1 <= d.ran
    BY <1>1, <2>1, <2>3, <2>5, <2>6, FetchedIs
  <2>8. ~Carried(d)
    BY <1>1, <2>5, FetchedIs DEF Carried
  <2>9. Outcome(d)
    BY <2>5, <2>7, <2>8 DEF Outcome
  <2>10. QED
    BY <1>1, <2>2, <2>9 DEF LoadStore, Completed
<1>5. QED
  BY <1>3, <1>4

LEMMA FaultOutcome ==
  ASSUME IInv, NEW f \in FetchFaults(cpu), FetchFault(f) PROVE Executing /\ Completed
<1>1. Executing
  BY DEF FetchFault, Fetches
<1>2. f \in Exceptions \ Interrupts
  BY DEF FetchFaults, Exceptions, Interrupts, Restarting
<1>3. Outcome(Exception(C, f))
  BY <1>1, <1>2, FetchedIs, SyncException DEF SameBudget
<1>4. QED
  BY <1>1, <1>3 DEF FetchFault, Completed

(* One or two exceptions raised by the same instruction.                    *)
LEMMA RaiseOutcome ==
  ASSUME IInv, Executing, NEW type \in Exceptions \ Interrupts, NEW n \in RaiseTimes
  PROVE  Outcome(Raise(C, type, n))
<1> DEFINE e == Exception(C, type)
<1>1. /\ e \in Cpus /\ SameBudget(C, e) /\ ~e.stop /\ e.pc = cpu.pc
      /\ ~Carried(e) /\ Outcome(e)
  BY FetchedIs, SyncException DEF SameBudget
<1>2. Raise(C, type, n) = IF n = 1 THEN e ELSE Exception(e, type)
  BY DEF Raise
<1> HIDE DEF e
<1>3. Outcome(Exception(e, type))
  BY <1>1, SyncException
<1>4. QED
  BY <1>1, <1>2, <1>3

LEMMA RangeOutcome ==
  ASSUME IInv, NEW n \in RaiseTimes, RangeError(n) PROVE Executing /\ Completed
<1>1. Executing
  BY DEF RangeError, Fetches
<1>2. "RANGE" \in Exceptions \ Interrupts
  BY DEF Exceptions, Interrupts, Restarting
<1>3. QED
  BY <1>1, <1>2, RaiseOutcome DEF RangeError, Completed

LEMMA FloatOutcome ==
  ASSUME IInv, NEW n \in RaiseTimes, FloatError(n) PROVE Executing /\ Completed
<1>1. Executing
  BY DEF FloatError, Fetches
<1>2. "FP" \in Exceptions \ Interrupts
  BY DEF Exceptions, Interrupts, Resuming
<1>3. QED
  BY <1>1, <1>2, RaiseOutcome DEF FloatError, Completed

LEMMA CallOutcome == ASSUME IInv, SystemCall \/ Trap PROVE Executing /\ Completed
<1>1. Executing
  BY DEF SystemCall, Trap, Fetches
<1>2. "SYSCALL" \in Exceptions \ Interrupts /\ "TRAP" \in Exceptions \ Interrupts
  BY DEF Exceptions, Interrupts, Resuming, Restarting
<1>3. Outcome(Exception(C, "SYSCALL")) /\ Outcome(Exception(C, "TRAP"))
  BY <1>1, <1>2, FetchedIs, SyncException DEF SameBudget
<1>4. QED
  BY <1>1, <1>3 DEF SystemCall, Trap, Completed

LEMMA RfeOutcome == ASSUME IInv, ReturnFromException PROVE Executing /\ Completed
<1>1. Executing
  BY DEF ReturnFromException, Fetches
<1>2. /\ Rfe(C) \in Cpus /\ SameBudget(C, Rfe(C)) /\ Rfe(C).brk /\ ~Rfe(C).stop
  BY <1>1, FetchedIs, RfeIs
<1>3. Outcome(Rfe(C))
  BY <1>1, <1>2, OneCycle
<1>4. QED
  BY <1>1, <1>3 DEF ReturnFromException, Completed

LEMMA SetSprOutcome ==
  ASSUME IInv, NEW op \in AllOps, NEW c \in Cpus, SetSpr(op, c),
         SameBudget(C, c), ~c.stop
  PROVE  Executing /\ Completed
<1>1. Executing
  BY DEF SetSpr, Fetches
<1>2. Outcome(Broken(IF C.sr.sm THEN c ELSE C))
  BY <1>1, RegisterWrite
<1>3. QED
  BY <1>1, <1>2 DEF SetSpr, Completed

LEMMA StatusWriteOutcome ==
  ASSUME IInv, NEW s \in StatusWrites, WriteSr(s) \/ WriteEsr(s)
  PROVE  Executing /\ Completed
<1>1. Executing
  BY DEF WriteSr, WriteEsr, SetSpr, Fetches
<1>2. s \in Statuses
  BY CoreAssumption
<1>3. /\ [C EXCEPT !.sr = s] \in Cpus /\ [C EXCEPT !.esr = s] \in Cpus
      /\ SameBudget(C, [C EXCEPT !.sr = s]) /\ SameBudget(C, [C EXCEPT !.esr = s])
      /\ ~[C EXCEPT !.sr = s].stop /\ ~[C EXCEPT !.esr = s].stop
  BY <1>1, <1>2, FetchedIs DEF Cpus, SameBudget
<1>4. QED
  BY <1>3, SetSprOutcome DEF WriteSr, WriteEsr, AllOps

LEMMA AddressWriteOutcome ==
  ASSUME IInv, NEW a \in Addr, WriteNpc(a) \/ WriteEpcr(a)
  PROVE  Executing /\ Completed
<1>1. Executing
  BY DEF WriteNpc, WriteEpcr, SetSpr, Fetches
<1>2. /\ [C EXCEPT !.pc = a] \in Cpus /\ [C EXCEPT !.epcr = a] \in Cpus
      /\ SameBudget(C, [C EXCEPT !.pc = a]) /\ SameBudget(C, [C EXCEPT !.epcr = a])
      /\ ~[C EXCEPT !.pc = a].stop /\ ~[C EXCEPT !.epcr = a].stop
  BY <1>1, FetchedIs DEF Cpus, SameBudget
<1>3. QED
  BY <1>2, SetSprOutcome DEF WriteNpc, WriteEpcr, AllOps

LEMMA PicWriteOutcome ==
  ASSUME IInv, NEW m \in SUBSET Lines, WritePicmr(m) \/ WritePicsr(m)
  PROVE  Executing /\ Completed
<1> DEFINE mr == m \cup NmiLines
           sr == IF PicLevel THEN C.picsr ELSE C.picsr \ m
<1>1. Executing
  BY DEF WritePicmr, WritePicsr, SetSpr, Fetches
<1>2. mr \in SUBSET Lines /\ sr \in SUBSET Lines
  BY <1>1, FetchedIs, CpuAssumption DEF Cpus
<1> HIDE DEF mr, sr
<1>3. /\ [C EXCEPT !.picmr = mr] \in Cpus /\ [C EXCEPT !.picsr = sr] \in Cpus
      /\ SameBudget(C, [C EXCEPT !.picmr = mr])
      /\ SameBudget(C, [C EXCEPT !.picsr = sr])
      /\ ~[C EXCEPT !.picmr = mr].stop /\ ~[C EXCEPT !.picsr = sr].stop
  BY <1>1, <1>2, FetchedIs DEF Cpus, SameBudget
<1>4. WritePicmr(m) => SetSpr("pic", [C EXCEPT !.picmr = mr])
  BY DEF WritePicmr, mr
<1>5. WritePicsr(m) => SetSpr("pic", [C EXCEPT !.picsr = sr])
  BY DEF WritePicsr, sr
<1>6. QED
  BY <1>3, <1>4, <1>5, SetSprOutcome DEF AllOps

LEMMA TimerWriteOutcome ==
  ASSUME IInv,
         \/ \E v \in TtmrWrites : WriteTtmr(v)
         \/ \E n \in TtcrWrites : WriteTtcr(n)
  PROVE  Executing /\ Completed
<1>1. Executing
  BY DEF WriteTtmr, WriteTtcr, SetSpr, Fetches
<1>2. C.tick \in Timers
  BY <1>1, FetchedIs DEF Cpus
<1>3. ASSUME NEW t \in Timers
      PROVE  /\ [C EXCEPT !.tick = t] \in Cpus
             /\ SameBudget(C, [C EXCEPT !.tick = t])
             /\ ~[C EXCEPT !.tick = t].stop
  BY <1>1, FetchedIs DEF Cpus, SameBudget
<1>4. CASE \E v \in TtmrWrites : WriteTtmr(v)
  <2>1. PICK v \in TtmrWrites : WriteTtmr(v)
    BY <1>4
  <2>2. SetTtmr(C.tick, v) \in Timers
    BY <1>2, CoreAssumption, SetTtmrIs
  <2>3. SetSpr("ttmr", [C EXCEPT !.tick = SetTtmr(C.tick, v)])
    BY <2>1 DEF WriteTtmr
  <2>4. QED
    BY <1>3, <2>2, <2>3, SetSprOutcome DEF AllOps
<1>5. CASE \E n \in TtcrWrites : WriteTtcr(n)
  <2>1. PICK n \in TtcrWrites : WriteTtcr(n)
    BY <1>5
  <2>2. SetTtcr(C.tick, n) \in Timers
    BY <1>2, CoreAssumption, SetTtcrIs
  <2>3. SetSpr("ttcr", [C EXCEPT !.tick = SetTtcr(C.tick, n)])
    BY <2>1 DEF WriteTtcr
  <2>4. QED
    BY <1>3, <2>2, <2>3, SetSprOutcome DEF AllOps
<1>6. QED
  BY <1>4, <1>5

LEMMA OtherWriteOutcome == ASSUME IInv, WriteOther PROVE Executing /\ Completed
<1>1. Executing
  BY DEF WriteOther, SetSpr, Fetches
<1>2. C \in Cpus /\ SameBudget(C, C) /\ ~C.stop
  BY <1>1, FetchedIs DEF SameBudget
<1>3. QED
  BY <1>2, SetSprOutcome DEF WriteOther, AllOps

(* The write to SPR_PMR that falls asleep at once.                          *)
LEMMA PmrOutcome ==
  ASSUME IInv, NEW on \in BOOLEAN, NEW n \in SleepTimes \cup {0}, WritePmr(on, n)
  PROVE  Executing /\ Completed
<1> DEFINE p == [C EXCEPT !.doze = on]
           d == Doze(p, n)
           e == IF C.sr.sm THEN d ELSE C
<1>1. Executing
  BY DEF WritePmr, SetSpr, Fetches
<1>2. /\ p \in Cpus /\ p.ran = C.ran /\ p.lim = C.lim /\ p.slept = C.slept
      /\ p.brk = C.brk /\ p.stop = C.stop
  BY <1>1, FetchedIs DEF Cpus
<1>3. n \in Nat
  BY CoreAssumption
<1> HIDE DEF p
<1>4. /\ d \in Cpus /\ C.ran <= d.ran /\ C.lim <= d.lim /\ d.ran <= d.lim
      /\ d.lim - d.ran <= C.lim - C.ran /\ d.slept <= d.ran /\ d.stop = C.stop
  BY <1>1, <1>2, <1>3, FetchedIs, DozeIs
<1> HIDE DEF d
<1>5. /\ e \in Cpus /\ C.ran <= e.ran /\ C.lim <= e.lim /\ e.ran <= e.lim
      /\ e.lim - e.ran <= C.lim - C.ran /\ e.slept <= e.ran /\ ~e.stop
  BY <1>1, <1>4, FetchedIs DEF Cpus
<1> HIDE DEF e
<1>6. /\ Broken(e) \in Cpus /\ Broken(e).brk /\ ~Broken(e).stop
      /\ Broken(e).ran = e.ran /\ Broken(e).lim = e.lim /\ Broken(e).slept = e.slept
  BY <1>5 DEF Broken, Cpus
<1>7. /\ cpu.ran \in Nat /\ quantum \in Nat /\ e.ran \in Nat /\ e.lim \in Nat
      /\ C.ran \in Nat /\ C.lim \in Nat
  BY <1>1, <1>5, FetchedIs DEF IInv, TypeOK, Cpus
<1>8. /\ cpu.ran <= e.ran /\ cpu.lim <= e.lim /\ e.lim - e.ran <= quantum
  BY <1>1, <1>5, <1>7, FetchedIs
<1>9. Outcome(Broken(e))
  BY <1>5, <1>6, <1>8 DEF Outcome
<1>10. QED
  BY <1>1, <1>9 DEF WritePmr, SetSpr, Completed, p, d, e

LEMMA ExitOutcome == ASSUME IInv, NopExit PROVE Executing /\ Completed
<1> DEFINE j == IF C.jd = -2 THEN -2 ELSE C.jd + 1
           d == [C EXCEPT !.stop = TRUE, !.ran = @ - 1, !.lag = @ - 1, !.jd = j]
<1>1. Executing
  BY DEF NopExit, Fetches
<1>2. Exit(C) = d
  BY <1>1, FetchedIs DEF Exit, Cpus
<1>3. /\ cpu.ran \in Nat /\ cpu.lag \in Nat /\ cpu.lim \in Nat /\ cpu.slept \in Nat
      /\ quantum \in Nat /\ C.jd \in JumpDistances
  BY <1>1, FetchedIs DEF IInv, TypeOK, Cpus
<1>4. j \in JumpDistances
  BY <1>3 DEF JumpDistances
<1>5. C.ran - 1 = cpu.ran /\ C.lag - 1 = cpu.lag
  BY <1>1, <1>3, FetchedIs
<1> HIDE DEF j
<1>6. /\ d \in Cpus /\ d.ran = cpu.ran /\ d.lim = cpu.lim /\ d.slept = cpu.slept
      /\ d.stop /\ d.tick = C.tick /\ d.sr = C.sr
  BY <1>1, <1>3, <1>4, <1>5, FetchedIs DEF Cpus
<1> HIDE DEF d
<1>7. Outcome(d)
  BY <1>1, <1>3, <1>6, FetchedIs
     DEF Outcome, Carried, IInv, BudgetInv, BudgetSound
<1>8. QED
  BY <1>1, <1>2, <1>7 DEF NopExit, Completed

LEMMA CntResetOutcome ==
  ASSUME IInv, NEW j \in JumpInsns, NopCntReset(j) PROVE Executing /\ Completed
<1> DEFINE d == CntReset(C, j)
<1>1. Executing
  BY DEF NopCntReset, Fetches
<1>2. j \in JumpDistances
  BY CoreAssumption DEF JumpDistances
<1>3. d \in Cpus /\ SameBudget(C, d) /\ d.brk /\ ~d.stop
  BY <1>1, <1>2, FetchedIs DEF CntReset, Cpus, SameBudget
<1> HIDE DEF d
<1>4. Outcome(d)
  BY <1>1, <1>3, OneCycle
<1>5. QED
  BY <1>1, <1>4 DEF NopCntReset, Completed, d

LEMMA ExecuteOutcome == ASSUME IInv, Execute PROVE Executing /\ Completed
<1>1. NpcWrites \subseteq Addr /\ EpcrWrites \subseteq Addr
  BY CoreAssumption
<1>2. QED
  BY <1>1, AluOutcome, JumpOutcome, LoadStoreOutcome, FaultOutcome, RangeOutcome,
     FloatOutcome, CallOutcome, RfeOutcome, StatusWriteOutcome, AddressWriteOutcome,
     PicWriteOutcome, TimerWriteOutcome, OtherWriteOutcome, PmrOutcome, ExitOutcome,
     CntResetOutcome DEF Execute

-----------------------------------------------------------------------------
(* The distance to a breakpoint                                             *)

LEMMA ModDifference ==
  ASSUME NEW m \in Nat \ {0}, NEW x \in (1 - m) .. (m - 1)
  PROVE  x % m = IF x >= 0 THEN x ELSE x + m
OBVIOUS

LEMMA DistanceIs ==
  ASSUME NEW pc \in Addr, NEW b \in Addr
  PROVE  /\ (b - pc) % AddrMod = IF b >= pc THEN b - pc ELSE b - pc + AddrMod
         /\ Distance(pc, b) \in Nat
         /\ pc = b => Distance(pc, b) = 0
<1>1. /\ AddrMod \in Nat \ {0} /\ b - pc \in (1 - AddrMod) .. (AddrMod - 1)
      /\ b \in Nat /\ pc \in Nat
  BY CpuAssumption DEF Addr
<1>2. (b - pc) % AddrMod = IF b - pc >= 0 THEN b - pc ELSE b - pc + AddrMod
  BY <1>1, ModDifference
<1>3. (b - pc) % AddrMod = IF b >= pc THEN b - pc ELSE b - pc + AddrMod
  BY <1>1, <1>2
<1>4. (b - pc) % AddrMod \in Nat
  BY <1>1, <1>3
<1>5. QED
  BY <1>1, <1>3, <1>4 DEF Distance

LEMMA DistanceInLine ==
  ASSUME NEW pc \in Addr, NEW b \in Addr, Distance(pc, b) > 0
  PROVE  Distance(After(pc), b) = Distance(pc, b) - 1
<1> DEFINE d == (b - pc) % AddrMod
           e == (b - After(pc)) % AddrMod
<1>1. /\ AddrMod \in Nat \ {0} /\ AddrMod >= 4
      /\ b \in 0 .. (AddrMod - 1) /\ pc \in 0 .. (AddrMod - 1)
      /\ After(pc) \in Addr
  BY CpuAssumption, AfterType DEF Addr, Aligned
<1>2. After(pc) = IF pc + 4 < AddrMod THEN pc + 4 ELSE pc + 4 - AddrMod
  <2>1. CASE pc + 4 < AddrMod
    <3>1. pc + 4 \in 0 .. (AddrMod - 1)
      BY <1>1, <2>1
    <3>2. (pc + 4) % AddrMod = pc + 4
      BY <1>1, <3>1, ModSmall
    <3>3. QED
      BY <2>1, <3>2 DEF After
  <2>2. CASE ~(pc + 4 < AddrMod)
    <3> DEFINE x == pc + 4
    <3>1. x \in AddrMod .. (2 * AddrMod - 1)
      BY <1>1, <2>2
    <3>2. After(pc) = x % AddrMod
      BY DEF After
    <3> HIDE DEF x
    <3>3. x % AddrMod = x - AddrMod
      BY <1>1, <3>1, ModWrapped
    <3>4. After(pc) = x - AddrMod
      BY <3>2, <3>3
    <3>5. QED
      BY <1>1, <2>2, <3>4 DEF x
  <2>3. QED
    BY <2>1, <2>2
<1>3. d = IF b >= pc THEN b - pc ELSE b - pc + AddrMod
  BY DistanceIs
<1>4. e = IF b >= After(pc) THEN b - After(pc) ELSE b - After(pc) + AddrMod
  BY <1>1, DistanceIs
<1>5. Distance(pc, b) = d \div 4 /\ Distance(After(pc), b) = e \div 4
  BY DEF Distance
<1>6. d \in Nat
  BY <1>1, <1>3
<1> HIDE DEF d, e
<1>7. d >= 4
  BY <1>5, <1>6
<1>8. e = d - 4
  BY <1>1, <1>2, <1>3, <1>4, <1>7
<1>9. QED
  BY <1>5, <1>6, <1>7, <1>8

-----------------------------------------------------------------------------
(* The steps of advance() preserve the invariant.                           *)

(* The end of an instruction: budget, breakpoints and pending ticks.        *)
LEMMA CompletesIInv ==
  ASSUME IInv, Executing, NEW c, Outcome(c), Completes(c)
  PROVE  IInv'
<1> DEFINE spent == c.ran - cpu.ran
           rest == IF spent < room THEN room - spent ELSE 0
           d == NextPc(c)
<1>1. /\ cpu \in Cpus /\ room \in Nat /\ quantum \in Nat /\ result \in Results
      /\ bps \subseteq BreakAddrs /\ wpr \subseteq WatchAddrs /\ wpw \subseteq WatchAddrs
      /\ room > 0 /\ room <= cpu.lim - cpu.ran
      /\ \A b \in bps : room <= Distance(cpu.pc, b)
  BY DEF IInv, TypeOK, BudgetInv, BreakInv, Executing
<1>2. /\ c \in Cpus
      /\ cpu.ran <= c.ran /\ cpu.lim <= c.lim /\ c.ran <= c.lim
      /\ c.lim - c.ran <= quantum /\ c.slept <= c.ran
  BY DEF Outcome
<1>3. /\ cpu.ran \in Nat /\ cpu.lim \in Nat /\ c.ran \in Nat /\ c.lim \in Nat
      /\ cpu.pc \in Addr /\ c.pc \in Addr /\ c.jtgt \in Addr
      /\ c.stop \in BOOLEAN
  BY <1>1, <1>2 DEF Cpus
<1>4. /\ d \in Cpus /\ d.ran = c.ran /\ d.lim = c.lim /\ d.slept = c.slept
      /\ d.tick = c.tick /\ d.sr = c.sr
      /\ d.brk = c.brk /\ d.wp = c.wp /\ d.stop = c.stop
      /\ d.pc = IF c.jd = 0 THEN c.jtgt ELSE After(c.pc)
  BY <1>2, NextPcIs DEF SameBudget
<1>6. rest \in Nat /\ rest <= c.lim - c.ran
  BY <1>1, <1>2, <1>3
<1> HIDE DEF d
<1>7. /\ cpu' = d
      /\ room' \in Minima({rest} \cup (IF c.jd = 0 THEN NextBreakpoints(c.jtgt) ELSE {}))
      /\ ctl' = IF c.stop THEN "idle" ELSE "inner"
      /\ result' = IF c.stop THEN "EXIT" ELSE result
      /\ quantum' = quantum /\ bps' = bps /\ wpr' = wpr /\ wpw' = wpw
  BY DEF Completes, host, d
<1>8. bps \subseteq Addr
  BY <1>1, CoreAssumption
<1>9. \A b \in bps : Distance(c.jtgt, b) \in Nat
  BY <1>3, <1>8, DistanceIs
<1> HIDE DEF rest
<1>10. /\ room' \in Nat /\ room' <= rest
       /\ c.jd = 0 => \A b \in bps : room' <= Distance(c.jtgt, b)
  <2>1. rest \in {rest} \cup (IF c.jd = 0 THEN NextBreakpoints(c.jtgt) ELSE {})
    OBVIOUS
  <2>2. room' <= rest
    BY <1>7, <2>1 DEF Minima
  <2>3. room' \in Nat
    BY <1>6, <1>7, <1>9 DEF Minima, NextBreakpoints
  <2>4. c.jd = 0 => \A b \in bps : room' <= Distance(c.jtgt, b)
    BY <1>7 DEF Minima, NextBreakpoints
  <2>5. QED
    BY <2>2, <2>3, <2>4
<1>11. TypeOK'
  BY <1>1, <1>4, <1>7, <1>10 DEF TypeOK, Results
<1>12. BudgetInv'
  <2>1. room' <= d.lim - d.ran
    BY <1>3, <1>4, <1>6, <1>10
  <2>2. QED
    BY <1>2, <1>4, <1>7, <2>1 DEF BudgetInv, BudgetSound
<1>13. BreakInv'
  <2> SUFFICES ASSUME ctl' = "inner", ~d.brk, ~d.wp, NEW b \in bps
               PROVE  room' <= Distance(d.pc, b)
    BY <1>7 DEF BreakInv
  <2>1. c.pc = cpu.pc /\ cpu.ran + 1 <= c.ran
    BY <1>4, <1>7 DEF Outcome
  <2>2. CASE c.jd = 0
    BY <1>4, <1>10, <2>2
  <2>3. CASE c.jd # 0
    <3>1. d.pc = After(cpu.pc)
      BY <1>4, <2>1, <2>3
    <3>2. b \in Addr /\ room <= Distance(cpu.pc, b) /\ Distance(cpu.pc, b) \in Nat
      BY <1>1, <1>3, <1>8, DistanceIs
    <3>3. Distance(After(cpu.pc), b) = Distance(cpu.pc, b) - 1
      BY <1>1, <1>3, <3>2, DistanceInLine
    <3>4. rest <= room - 1
      BY <1>1, <1>3, <2>1 DEF rest
    <3>5. QED
      BY <1>1, <1>6, <1>10, <3>1, <3>2, <3>3, <3>4
  <2>4. QED
    BY <2>2, <2>3
<1>14. TickInv'
  <2>1. ctl' = "inner" => ~d.stop
    BY <1>4, <1>7
  <2>2. ASSUME ctl' # "inner" \/ ~d.brk
        PROVE  ~Carried(d)
    <3>1. Carried(d) = Carried(c)
      BY <1>4 DEF Carried
    <3>2. c.stop \/ ~c.brk
      BY <1>4, <1>7, <2>2
    <3>3. QED
      BY <3>1, <3>2 DEF Outcome
  <2>3. QED
    BY <1>7, <2>1, <2>2 DEF TickInv, TickNeverCarried, Executing, Carried
<1>15. QED
  BY <1>11, <1>12, <1>13, <1>14 DEF IInv

LEMMA ExecuteIInv == ASSUME IInv, Execute PROVE IInv'
<1>1. Executing /\ Completed
  BY ExecuteOutcome
<1>2. PICK c : Outcome(c) /\ Completes(c)
  BY <1>1 DEF Completed
<1>3. QED
  BY <1>1, <1>2, CompletesIInv

LEMMA AdvanceIInv ==
  ASSUME IInv, NEW q \in Quanta, NEW allow \in AllowSleep,
         NEW n \in SleepTimes \cup {0}, Advance(q, allow, n)
  PROVE  IInv'
<1> DEFINE s == [cpu EXCEPT !.ran = 0, !.lim = q, !.slept = 0, !.allowSleep = allow]
           e == RaiseExternal(s)
           d == Doze(e, n)
<1>1. q \in Nat /\ allow \in BOOLEAN /\ n \in Nat
  BY CoreAssumption
<1>2. cpu \in Cpus /\ ctl = "idle" /\ ~Carried(cpu)
  BY DEF IInv, TypeOK, TickInv, TickNeverCarried, Advance, Carried
<1>3. /\ s \in Cpus /\ s.ran = 0 /\ s.lim = q /\ s.slept = 0
      /\ s.tick = cpu.tick /\ s.sr = cpu.sr
  BY <1>1, <1>2 DEF Cpus
<1> HIDE DEF s
<1>4. ~Carried(s)
  BY <1>2, <1>3 DEF Carried
<1>5. /\ e \in Cpus /\ e.ran = 0 /\ e.lim = q /\ e.slept = 0 /\ ~Carried(e)
  BY <1>3, <1>4, RaiseExternalIs DEF SameBudget
<1>6. e = Entry(q, allow)
  BY DEF Entry, s
<1> HIDE DEF e
<1>7. /\ d \in Cpus /\ d.ran <= d.lim /\ d.lim - d.ran <= q /\ d.slept <= d.ran
      /\ ~Carried(d)
  BY <1>1, <1>5, DozeIs
<1>8. /\ cpu' = d /\ ctl' = "outer" /\ quantum' = q
      /\ UNCHANGED <<room, result, bps, wpr, wpw>>
  BY <1>6 DEF Advance, host
<1> HIDE DEF d
<1>9. TypeOK'
  BY <1>1, <1>7, <1>8 DEF IInv, TypeOK
<1>10. BudgetInv' /\ BreakInv'
  BY <1>7, <1>8 DEF BudgetInv, BudgetSound, BreakInv
<1>11. TickInv'
  BY <1>7, <1>8 DEF TickInv, TickNeverCarried, Carried
<1>12. QED
  BY <1>9, <1>10, <1>11 DEF IInv

LEMMA BeginMiniIInv == ASSUME IInv, BeginMini PROVE IInv'
<1> DEFINE d == [cpu EXCEPT !.wp = FALSE, !.stop = FALSE, !.brk = FALSE]
           tick == IF Enabled(cpu.tick) THEN {NextTick(cpu.tick)} ELSE {}
<1>1. /\ cpu \in Cpus /\ cpu.tick \in Timers /\ quantum \in Nat
      /\ cpu.ran \in Nat /\ cpu.lim \in Nat /\ cpu.pc \in Addr /\ ~Carried(cpu)
      /\ cpu.ran < cpu.lim /\ bps \subseteq Addr
      /\ cpu.lim - cpu.ran <= quantum /\ cpu.slept <= cpu.ran
  BY CoreAssumption DEF IInv, TypeOK, Cpus, BudgetInv, BudgetSound, TickInv,
                        TickNeverCarried, Carried, BeginMini
<1>2. /\ d \in Cpus /\ d.ran = cpu.ran /\ d.lim = cpu.lim /\ d.slept = cpu.slept
      /\ d.tick = cpu.tick /\ d.sr = cpu.sr /\ d.pc = cpu.pc /\ ~d.stop
  BY <1>1 DEF Cpus
<1>3. tick \subseteq Nat
  BY <1>1, NextTickPositive
<1> HIDE DEF d, tick
<1>4. /\ cpu' = d /\ ctl' = "inner"
      /\ room' \in Minima({cpu.lim - cpu.ran} \cup NextBreakpoints(cpu.pc) \cup tick)
      /\ UNCHANGED <<quantum, result, bps, wpr, wpw>>
  BY DEF BeginMini, host, d, tick
<1>5. \A b \in bps : Distance(cpu.pc, b) \in Nat
  BY <1>1, DistanceIs
<1>6. /\ room' \in Nat /\ room' <= cpu.lim - cpu.ran
      /\ \A b \in bps : room' <= Distance(cpu.pc, b)
  <2>1. cpu.lim - cpu.ran \in Nat
    BY <1>1
  <2>2. \A b \in bps : Distance(cpu.pc, b) \in NextBreakpoints(cpu.pc)
    BY DEF NextBreakpoints
  <2>3. NextBreakpoints(cpu.pc) \subseteq Nat
    BY <1>5 DEF NextBreakpoints
  <2>4. QED
    BY <1>3, <1>4, <2>1, <2>2, <2>3 DEF Minima
<1>7. TypeOK'
  BY <1>2, <1>4, <1>6 DEF IInv, TypeOK
<1>8. BudgetInv' /\ BreakInv'
  BY <1>1, <1>2, <1>4, <1>6 DEF BudgetInv, BudgetSound, BreakInv
<1>9. TickInv'
  BY <1>1, <1>2, <1>4 DEF TickInv, TickNeverCarried, Carried
<1>10. QED
  BY <1>7, <1>8, <1>9 DEF IInv

LEMMA EndMiniIInv == ASSUME IInv, EndMini PROVE IInv'
<1> DEFINE u == UpdateTimer(cpu)
           d == RaiseExternal(u)
<1>1. cpu \in Cpus
  BY DEF IInv, TypeOK
<1>2. u \in Cpus /\ SameBudget(cpu, u) /\ ~Carried(u)
  BY <1>1, UpdateTimerIs
<1>3. d \in Cpus /\ SameBudget(u, d) /\ ~Carried(d)
  BY <1>2, RaiseExternalIs
<1>4. /\ cpu' = d /\ ctl' \in {"idle", "outer"}
      /\ result' \in {result, "BREAKPOINT", "WATCHPOINT"}
      /\ UNCHANGED <<room, quantum, bps, wpr, wpw>>
  BY DEF EndMini, host
<1> HIDE DEF u, d
<1>5. TypeOK'
  BY <1>3, <1>4 DEF IInv, TypeOK, Results
<1>6. BudgetInv' /\ BreakInv'
  BY <1>2, <1>3, <1>4 DEF IInv, BudgetInv, BudgetSound, BreakInv, SameBudget
<1>7. TickInv'
  BY <1>3, <1>4 DEF TickInv, TickNeverCarried, Carried
<1>8. QED
  BY <1>5, <1>6, <1>7 DEF IInv

LEMMA ReturnIInv == ASSUME IInv, Return PROVE IInv'
BY DEF Return, IInv, TypeOK, Results, BudgetInv, BudgetSound, BreakInv, TickInv,
       TickNeverCarried, Executing, host

(* The debugger acts between two calls, when BreakInv asks for nothing.     *)
LEMMA DebuggerIInv == ASSUME IInv, Debugger PROVE IInv'
<1>1. /\ ctl = "idle"
      /\ UNCHANGED <<cpu, ctl, room, quantum, result>>
      /\ bps' \subseteq BreakAddrs /\ wpr' \subseteq WatchAddrs /\ wpw' \subseteq WatchAddrs
  BY DEF Debugger, InsertBreakpoint, RemoveBreakpoint, InsertWatchpoint,
         RemoveWatchpoint, IInv, TypeOK
<1>2. QED
  BY <1>1 DEF IInv, TypeOK, BudgetInv, BudgetSound, BreakInv, TickInv,
              TickNeverCarried, Executing

LEMMA InterruptIInv ==
  ASSUME IInv, NEW id \in Lines, NEW set \in BOOLEAN, Interrupt(id, set)
  PROVE  IInv'
<1> DEFINE lines == IF set THEN cpu.picsr \cup {id}
                    ELSE IF PicLevel THEN cpu.picsr \ {id} ELSE cpu.picsr
           d == [cpu EXCEPT !.picsr = lines]
<1>1. cpu \in Cpus /\ lines \in SUBSET Lines
  BY DEF IInv, TypeOK, Cpus
<1>2. SetLine(cpu, id, set) = d
  BY <1>1 DEF SetLine, Cpus
<1> HIDE DEF lines
<1>3. /\ d \in Cpus /\ SameBudget(cpu, d)
      /\ d.brk = cpu.brk /\ d.wp = cpu.wp /\ d.stop = cpu.stop
      /\ d.pc = cpu.pc /\ d.tick = cpu.tick /\ d.sr = cpu.sr
  BY <1>1 DEF Cpus, SameBudget
<1> HIDE DEF d
<1>4. cpu' = d /\ UNCHANGED <<ctl, room, quantum, result, bps, wpr, wpw>>
  BY <1>2 DEF Interrupt, host
<1>5. TypeOK'
  BY <1>3, <1>4 DEF IInv, TypeOK
<1>6. BudgetInv' /\ BreakInv'
  BY <1>3, <1>4 DEF IInv, BudgetInv, BudgetSound, BreakInv, SameBudget
<1>7. TickInv'
  BY <1>3, <1>4 DEF IInv, TickInv, TickNeverCarried, Executing
<1>8. QED
  BY <1>5, <1>6, <1>7 DEF IInv

LEMMA InitIInv == Init => IInv
<1> SUFFICES ASSUME Init PROVE IInv
  OBVIOUS
<1>1. /\ 0 \in Addr /\ ResetPc \in Addr /\ 0 \in Counts
      /\ NmiLines \in SUBSET Lines /\ 0 \in JumpDistances
  BY CpuAssumption, CountModAssumption DEF Addr, Counts, JumpDistances
<1>2. TimerInit \in Timers
  BY <1>1 DEF TimerInit, Timers, Modes
<1>3. NoStatus \in Statuses /\ [NoStatus EXCEPT !.sm = TRUE] \in Statuses
  BY DEF NoStatus, Statuses
<1>4. cpu \in Cpus
  BY <1>1, <1>2, <1>3 DEF Init, CpuInit, Cpus
<1>5. TypeOK
  BY <1>4 DEF Init, TypeOK, Results
<1>6. BudgetInv /\ BreakInv
  BY DEF Init, CpuInit, BudgetInv, BudgetSound, BreakInv
<1>7. TickInv
  BY DEF Init, CpuInit, TickInv, TickNeverCarried, Executing, TimerInit, Enabled
<1>8. QED
  BY <1>5, <1>6, <1>7 DEF IInv

LEMMA NextIInv == IInv /\ [Next]_vars => IInv'
<1> SUFFICES ASSUME IInv, [Next]_vars PROVE IInv'
  OBVIOUS
<1>1. CASE Call
  BY <1>1, AdvanceIInv DEF Call
<1>2. CASE Running
  BY <1>2, BeginMiniIInv, ExecuteIInv, EndMiniIInv, ReturnIInv DEF Running
<1>3. CASE Debugger
  BY <1>3, DebuggerIInv
<1>4. CASE \E id \in Lines, set \in BOOLEAN : Interrupt(id, set)
  BY <1>4, InterruptIInv
<1>5. CASE UNCHANGED vars
  BY <1>5 DEF vars, IInv, TypeOK, BudgetInv, BudgetSound, BreakInv, TickInv,
              TickNeverCarried, Executing
<1>6. QED
  BY <1>1, <1>2, <1>3, <1>4, <1>5 DEF Next

-----------------------------------------------------------------------------

(* The four parts of the invariant hold in every reachable state.           *)
THEOREM InvariantHolds == Spec => []IInv
BY InitIInv, NextIInv, PTL DEF Spec

(* Type correctness of the core and of the loop that drives it.             *)
THEOREM TypeCorrect == Spec => []TypeOK
<1>1. IInv => TypeOK
  BY DEF IInv
<1>2. QED
  BY InvariantHolds, <1>1, PTL

(* or1k.cpp:24-27, 224-230, 716: memory cycles and sleep are credited to    *)
(* m_limit, m_cycles never passes it, and what step() adds to the budget    *)
(* does not wrap around.                                                    *)
THEOREM BudgetSoundHolds == Spec => []BudgetSound
<1>1. IInv => BudgetSound
  BY DEF IInv, BudgetInv
<1>2. QED
  BY InvariantHolds, <1>1, PTL

(* or1k.cpp:44, 75-78, 470-487: no instruction at a breakpoint is executed  *)
(* before the breakpoint has been reported, wherever breakpoints are and    *)
(* however the program counter gets there.                                  *)
THEOREM BreakpointNeverSkippedHolds == Spec => []BreakpointNeverSkipped
<1>1. IInv => BreakpointNeverSkipped
  <2> SUFFICES ASSUME IInv, Executing, cpu.pc \in bps PROVE FALSE
    BY DEF BreakpointNeverSkipped
  <2>1. cpu.pc \in Addr /\ room \in Nat /\ room > 0 /\ room <= Distance(cpu.pc, cpu.pc)
    BY DEF IInv, TypeOK, Cpus, BreakInv, Executing
  <2>2. Distance(cpu.pc, cpu.pc) = 0
    BY <2>1, DistanceIs
  <2>3. QED
    BY <2>1, <2>2
<1>2. QED
  BY InvariantHolds, <1>1, PTL

(* or1k.cpp:92-95, 439-446: an enabled tick that is pending is taken before *)
(* the next mini-quantum begins and before advance() returns.               *)
THEOREM TickNeverCarriedHolds == Spec => []TickNeverCarried
<1>1. IInv => TickNeverCarried
  BY DEF IInv, TickInv
<1>2. QED
  BY InvariantHolds, <1>1, PTL

-----------------------------------------------------------------------------
(***************************************************************************)
(* The program sees the order of execution of Arch, if it is disciplined:   *)
(* it does not write SPR_NPC, SPR_PMR or the counters and does not end      *)
(* (l.nop 0x1), an arithmetic instruction raises once, it keeps jumps, l.rfe *)
(* and what raises a resuming exception out of delay slots, and writes no   *)
(* misaligned address to EPCR.                                              *)
(***************************************************************************)

Disciplined ==
  /\ Ops \cap {"npc", "pmr", "exit", "cnt_reset"} = {}
  /\ SlotOps \cap {"jump", "rfe", "sys", "fp"} = {}
  /\ RaiseTimes \subseteq {1}
  /\ \A a \in EpcrWrites : Aligned(a)

(* No jump is left over but the one whose slot is next, nobody sleeps, and  *)
(* every address that the core may go to is that of an instruction.         *)
FlowOf(c) ==
  /\ c.jd \in {-2, -1, 0, 1} /\ ~c.doze
  /\ Aligned(c.pc) /\ Aligned(c.prev) /\ Aligned(c.jtgt) /\ Aligned(c.epcr)

(* What decides the flow of the program is the same in two states.          *)
SameFlow(c, d) ==
  /\ d.pc = c.pc /\ d.prev = c.prev /\ d.jtgt = c.jtgt /\ d.jd = c.jd
  /\ d.sr = c.sr /\ d.esr = c.esr /\ d.epcr = c.epcr /\ d.doze = c.doze

LEMMA AfterAligned ==
  ASSUME NEW a \in Addr, Aligned(a)
  PROVE  After(a) \in Addr /\ Aligned(After(a))
<1>1. AddrMod \in Nat \ {0} /\ AddrMod % 4 = 0 /\ a \in Nat /\ a < AddrMod /\ a % 4 = 0
  BY CpuAssumption DEF Addr, Aligned
<1>2. a + 4 <= AddrMod
  BY <1>1
<1>3. After(a) = IF a + 4 = AddrMod THEN 0 ELSE a + 4
  <2>1. CASE a + 4 = AddrMod
    BY <1>1, <2>1 DEF After
  <2>2. CASE a + 4 < AddrMod
    BY <1>1, <2>2 DEF After
  <2> QED
    BY <1>1, <1>2, <2>1, <2>2
<1>4. QED
  BY <1>1, <1>3, AfterType DEF Aligned

LEMMA VectorAligned ==
  ASSUME NEW type \in Exceptions
  PROVE  Vector[type] \in Addr /\ Aligned(Vector[type])
BY CpuAssumption

(* The core when the instruction is fetched: the jump that waits becomes    *)
(* due.                                                                     *)
LEMMA FetchedFlow ==
  ASSUME IInv, FlowOf(cpu), Executing
  PROVE  /\ C \in Cpus
         /\ C.pc = cpu.pc /\ C.prev = cpu.prev /\ C.jtgt = cpu.jtgt
         /\ C.sr = cpu.sr /\ C.esr = cpu.esr /\ C.epcr = cpu.epcr /\ ~C.doze
         /\ C.jd = IF cpu.jd = 1 THEN 0 ELSE IF cpu.jd = 0 THEN -1 ELSE -2
<1>1. C \in Cpus /\ cpu \in Cpus
  BY FetchedIs DEF IInv, TypeOK
<1>2. /\ C.pc = cpu.pc /\ C.prev = cpu.prev /\ C.jtgt = cpu.jtgt
      /\ C.sr = cpu.sr /\ C.esr = cpu.esr /\ C.epcr = cpu.epcr /\ C.doze = cpu.doze
      /\ C.jd = IF cpu.jd = -2 THEN -2 ELSE cpu.jd - 1
  BY <1>1 DEF C, Counted, Elapse, Cpus
<1>3. QED
  BY <1>1, <1>2 DEF FlowOf

LEMMA NextPcFlow ==
  ASSUME NEW c \in Cpus
  PROVE  /\ NextPc(c) \in Cpus
         /\ NextPc(c).pc = IF c.jd = 0 THEN c.jtgt ELSE After(c.pc)
         /\ NextPc(c).prev = c.pc /\ NextPc(c).jtgt = c.jtgt /\ NextPc(c).jd = c.jd
         /\ NextPc(c).sr = c.sr /\ NextPc(c).esr = c.esr /\ NextPc(c).epcr = c.epcr
         /\ NextPc(c).doze = c.doze
<1>1. NextPc(c) \in Cpus /\ NextPc(c).pc = IF c.jd = 0 THEN c.jtgt ELSE After(c.pc)
  BY NextPcIs
<1>2. NextPc(c).prev = c.pc /\ NextPc(c).jtgt = c.jtgt /\ NextPc(c).jd = c.jd
  BY DEF NextPc, Cpus
<1>3. /\ NextPc(c).sr = c.sr /\ NextPc(c).esr = c.esr /\ NextPc(c).epcr = c.epcr
      /\ NextPc(c).doze = c.doze
  BY DEF NextPc, Cpus
<1>4. QED
  BY <1>1, <1>2, <1>3

LEMMA SynchronousFlow ==
  ASSUME NEW c \in Cpus, NEW type \in Exceptions \ Interrupts
  PROVE  LET e == Exception(c, type)
         IN  /\ e \in Cpus
             /\ e.pc = c.pc /\ e.prev = c.prev /\ e.jtgt = Vector[type] /\ e.jd = 0
             /\ e.sr = HandlerStatus(c) /\ e.esr = c.sr /\ e.epcr = ExceptionPc(c, type)
             /\ ~e.doze
<1>1. ~Masked(c, type)
  BY DEF Masked, Interrupts
<1>2. Exception(c, type) = [Entered(c, type) EXCEPT !.jd = 0, !.jtgt = Vector[type]]
  BY <1>1 DEF Exception
<1>3. Entered(c, type) \in Cpus
  BY EnteredIs
<1>4. /\ Entered(c, type).pc = c.pc /\ Entered(c, type).prev = c.prev
      /\ Entered(c, type).sr = HandlerStatus(c) /\ Entered(c, type).esr = c.sr
      /\ Entered(c, type).epcr = ExceptionPc(c, type) /\ ~Entered(c, type).doze
  BY DEF Entered, Cpus
<1>5. QED
  BY <1>2, <1>3, <1>4, ExceptionIs DEF Cpus

LEMMA InterruptFlow ==
  ASSUME NEW c \in Cpus, NEW type \in Interrupts
  PROVE  LET e == Exception(c, type)
         IN  /\ e \in Cpus
             /\ Masked(c, type) => e = c
             /\ ~Masked(c, type) =>
                  /\ e.pc = Vector[type] /\ e.prev = c.prev /\ e.jtgt = c.jtgt /\ e.jd = -2
                  /\ e.sr = HandlerStatus(c) /\ e.esr = c.sr /\ e.epcr = ExceptionPc(c, type)
                  /\ ~e.doze
<1>1. type \in Exceptions
  BY DEF Exceptions
<1>2. ASSUME ~Masked(c, type)
      PROVE  Exception(c, type) = [Entered(c, type) EXCEPT !.jd = -2, !.pc = Vector[type]]
  BY <1>2 DEF Exception
<1>3. Entered(c, type) \in Cpus
  BY <1>1, EnteredIs
<1>4. /\ Entered(c, type).prev = c.prev /\ Entered(c, type).jtgt = c.jtgt
      /\ Entered(c, type).sr = HandlerStatus(c) /\ Entered(c, type).esr = c.sr
      /\ Entered(c, type).epcr = ExceptionPc(c, type) /\ ~Entered(c, type).doze
  BY DEF Entered, Cpus
<1>5. Masked(c, type) => Exception(c, type) = c
  BY DEF Exception
<1>6. QED
  BY <1>1, <1>2, <1>3, <1>4, <1>5, ExceptionIs DEF Cpus

Flow == FlowOf(cpu)

(* An instruction that neither jumps nor raises: both addresses move on.    *)
LEMMA SpentMoves ==
  ASSUME IInv, Flow, Executing,
         NEW c \in Cpus, c.pc = C.pc, c.prev = C.prev, c.jtgt = C.jtgt, c.jd = C.jd,
         ~c.doze, Aligned(c.epcr), cpu' = NextPc(c)
  PROVE  /\ Program!Moves /\ Flow'
         /\ cpu'.sr = c.sr /\ cpu'.esr = c.esr /\ cpu'.epcr = c.epcr
<1>1. /\ c.pc = cpu.pc /\ c.jtgt = cpu.jtgt
      /\ c.jd = IF cpu.jd = 1 THEN 0 ELSE IF cpu.jd = 0 THEN -1 ELSE -2
  BY FetchedFlow DEF Flow
<1>2. /\ cpu \in Cpus /\ cpu.pc \in Addr /\ cpu.jtgt \in Addr
      /\ cpu.jd \in {-2, -1, 0, 1} /\ Aligned(cpu.pc) /\ Aligned(cpu.jtgt)
  BY DEF IInv, TypeOK, Flow, FlowOf, Cpus
<1>3. After(cpu.pc) \in Addr /\ Aligned(After(cpu.pc))
  BY <1>2, AfterAligned
<1>4. /\ cpu'.pc = IF cpu.jd = 1 THEN cpu.jtgt ELSE After(cpu.pc)
      /\ cpu'.prev = cpu.pc /\ cpu'.jtgt = cpu.jtgt
      /\ cpu'.jd = c.jd /\ cpu'.jd \in {0, -1, -2}
      /\ cpu'.sr = c.sr /\ cpu'.esr = c.esr /\ cpu'.epcr = c.epcr /\ ~cpu'.doze
  BY <1>1, <1>2, NextPcFlow
<1>5. Flow'
  BY <1>2, <1>3, <1>4 DEF Flow, FlowOf
<1>6. Program!Moves
  BY <1>2, <1>4 DEF Program!Moves, Program!Following, Program!NoBranch, InSlot, After
<1>7. QED
  BY <1>4, <1>5, <1>6

(* A synchronous exception: the pipeline is emptied, the handler is next.   *)
LEMMA RaisedHandles ==
  ASSUME IInv, Flow, Executing,
         NEW c \in Cpus, c.pc = C.pc, c.prev = C.prev, c.sr = C.sr,
         NEW type \in Exceptions \ Interrupts,
         Aligned(ExceptionPc(c, type)), cpu' = NextPc(Exception(c, type))
  PROVE  Program!Handles(type) /\ Flow' /\ cpu'.epcr = ExceptionPc(c, type)
<1> DEFINE e == Exception(c, type)
<1>1. /\ e \in Cpus
      /\ e.pc = c.pc /\ e.prev = c.prev /\ e.jtgt = Vector[type] /\ e.jd = 0
      /\ e.sr = HandlerStatus(c) /\ e.esr = c.sr /\ e.epcr = ExceptionPc(c, type)
      /\ ~e.doze
  BY SynchronousFlow
<1> HIDE DEF e
<1>2. /\ cpu'.pc = Vector[type] /\ cpu'.prev = c.pc /\ cpu'.jtgt = Vector[type]
      /\ cpu'.jd = 0 /\ cpu'.sr = HandlerStatus(c) /\ cpu'.esr = c.sr
      /\ cpu'.epcr = ExceptionPc(c, type) /\ ~cpu'.doze
  BY <1>1, NextPcFlow DEF e
<1>3. c.pc = cpu.pc /\ c.sr = cpu.sr /\ Aligned(cpu.pc) /\ cpu \in Cpus
  BY FetchedFlow DEF Flow, FlowOf, IInv, TypeOK
<1>4. Flow'
  BY <1>2, <1>3, VectorAligned DEF Flow, FlowOf
<1>5. Program!Goes(Vector[type])
  BY <1>2 DEF Program!Goes, Program!Following, Program!NoBranch, InSlot, After
<1>6. /\ Level(cpu.sr)' = [sm |-> TRUE, tee |-> FALSE, iee |-> FALSE, dme |-> FALSE,
                           ime |-> FALSE]
      /\ Level(cpu.esr)' = Level(cpu.sr)
  BY <1>2, <1>3 DEF Level, HandlerStatus
<1>7. QED
  BY <1>2, <1>4, <1>5, <1>6 DEF Program!Handles

(* A fault repeats the instruction, or the jump whose slot it is in.        *)
LEMMA FaultIsFault ==
  ASSUME IInv, Flow, Executing,
         NEW c \in Cpus, c.pc = C.pc, c.prev = C.prev, c.sr = C.sr,
         (c.jd = 0) <=> InSlot,
         NEW type \in Restarting, cpu' = NextPc(Exception(c, type))
  PROVE  Program!Faults /\ Flow'
<1>1. type \in Exceptions \ Interrupts /\ type \notin Interrupts \cup Resuming
  BY DEF Exceptions, Interrupts, Resuming, Restarting
<1>2. c.pc = cpu.pc /\ c.prev = cpu.prev /\ Aligned(cpu.pc) /\ Aligned(cpu.prev)
  BY FetchedFlow DEF Flow, FlowOf
<1>3. ExceptionPc(c, type) = IF InSlot THEN cpu.prev ELSE cpu.pc
  BY <1>1, <1>2 DEF ExceptionPc, IsDelayInsn
<1>4. Aligned(ExceptionPc(c, type))
  BY <1>2, <1>3
<1>5. Program!Handles(type) /\ Flow' /\ cpu'.epcr = ExceptionPc(c, type)
  BY <1>1, <1>4, RaisedHandles
<1>6. Program!Resumption = IF InSlot THEN cpu.prev ELSE cpu.pc
  <2>1. cpu.prev # -1
    BY DEF IInv, TypeOK, Cpus, Addr
  <2>2. QED
    BY <2>1 DEF Program!Resumption, Program!NoBranch
<1>7. QED
  BY <1>3, <1>5, <1>6 DEF Program!Faults

(* Out of delay slots what raises a resuming exception is not repeated.     *)
LEMMA CallIsCall ==
  ASSUME IInv, Flow, Executing, ~InSlot,
         NEW type \in Resuming, cpu' = NextPc(Exception(C, type))
  PROVE  Program!Calls /\ Flow'
<1>1. type \in Exceptions \ Interrupts /\ type \notin Interrupts
  BY DEF Exceptions, Interrupts, Resuming
<1>2. /\ C \in Cpus /\ C.pc = cpu.pc /\ C.jd # 1
      /\ cpu.pc \in Addr /\ Aligned(cpu.pc)
  BY FetchedFlow DEF Flow, FlowOf, IInv, TypeOK, Cpus
<1>3. ExceptionPc(C, type) = After(cpu.pc)
  BY <1>1, <1>2 DEF ExceptionPc, IsJumpInsn
<1>4. Aligned(ExceptionPc(C, type))
  BY <1>2, <1>3, AfterAligned
<1>5. Program!Handles(type) /\ Flow' /\ cpu'.epcr = ExceptionPc(C, type)
  BY <1>1, <1>2, <1>4, RaisedHandles
<1>6. QED
  BY <1>3, <1>5 DEF Program!Calls

-----------------------------------------------------------------------------
(* What each instruction is to the program.                                 *)

Seen == Program!ArchNext /\ Flow'

(* A jump is due when the instruction fetched is in its slot.               *)
LEMMA SlotFetched == ASSUME IInv, Flow, Executing PROVE (C.jd = 0) <=> InSlot
<1>1. C.jd = IF cpu.jd = 1 THEN 0 ELSE IF cpu.jd = 0 THEN -1 ELSE -2
  BY FetchedFlow DEF Flow
<1>2. CASE InSlot
  BY <1>1, <1>2 DEF InSlot
<1>3. CASE ~InSlot
  BY <1>1, <1>3 DEF InSlot
<1>4. QED
  BY <1>2, <1>3

LEMMA AluSeen == ASSUME Disciplined, IInv, Flow, Alu PROVE Seen
<1>1. Executing /\ cpu' = NextPc(C)
  BY DEF Alu, Fetches, Completes
<1>2. /\ C \in Cpus /\ C.sr = cpu.sr /\ C.esr = cpu.esr /\ C.epcr = cpu.epcr
      /\ ~C.doze /\ Aligned(C.epcr)
  BY <1>1, FetchedFlow DEF Flow, FlowOf
<1>3. /\ Program!Moves /\ Flow'
      /\ cpu'.sr = cpu.sr /\ cpu'.esr = cpu.esr /\ cpu'.epcr = cpu.epcr
  BY <1>1, <1>2, SpentMoves
<1>4. QED
  BY <1>3 DEF Seen, Program!ArchNext, Program!Instruction, Level

LEMMA JumpSeen ==
  ASSUME Disciplined, IInv, Flow, NEW t \in JumpTargets, Jump(t) PROVE Seen
<1> DEFINE s == [C EXCEPT !.jtgt = t, !.jd = 1]
<1>1. Executing /\ cpu' = NextPc(ScheduleJump(C, t, 1)) /\ ~InSlot
  BY DEF Jump, Fetches, Completes, Disciplined, InSlot
<1>2. t \in Addr
  BY CoreAssumption
<1>3. /\ C \in Cpus /\ C.pc = cpu.pc /\ C.prev = cpu.prev /\ ~C.doze
      /\ C.sr = cpu.sr /\ C.esr = cpu.esr /\ C.epcr = cpu.epcr
      /\ cpu \in Cpus /\ cpu.pc \in Addr /\ Aligned(cpu.pc) /\ Aligned(cpu.epcr)
  BY <1>1, FetchedFlow DEF Flow, FlowOf, IInv, TypeOK, Cpus
<1>4. /\ s \in Cpus /\ s.pc = cpu.pc /\ s.prev = cpu.prev /\ s.sr = cpu.sr
      /\ s.esr = cpu.esr /\ s.epcr = cpu.epcr
      /\ s.jtgt = t /\ s.jd = 1 /\ ~s.doze
  <2>1. 1 \in JumpDistances
    BY DEF JumpDistances
  <2>2. QED
    BY <1>2, <1>3, <2>1 DEF Cpus
<1>5. ScheduleJump(C, t, 1) = IF Aligned(t) THEN s ELSE Exception(s, "INSN_ALIGNMENT")
  BY DEF ScheduleJump
<1> HIDE DEF s
<1>6. CASE Aligned(t)
  <2>1. /\ cpu'.pc = After(cpu.pc) /\ cpu'.prev = cpu.pc /\ cpu'.jtgt = t /\ cpu'.jd = 1
        /\ cpu'.sr = cpu.sr /\ cpu'.esr = cpu.esr /\ cpu'.epcr = cpu.epcr /\ ~cpu'.doze
    BY <1>1, <1>4, <1>5, <1>6, NextPcFlow
  <2>2. Flow'
    BY <1>3, <1>6, <2>1, AfterAligned DEF Flow, FlowOf
  <2>3. Program!DelayedJump
    BY <1>1, <1>2, <2>1
       DEF Program!DelayedJump, Program!NoBranch, Program!Addresses, InSlot, Level, Addr
  <2>4. QED
    BY <2>2, <2>3 DEF Seen, Program!ArchNext
<1>7. CASE ~Aligned(t)
  <2>1. "INSN_ALIGNMENT" \in Restarting
    BY DEF Restarting
  <2>2. Program!Faults /\ Flow'
    BY <1>1, <1>3, <1>4, <1>5, <1>7, <2>1, FaultIsFault
  <2>3. QED
    BY <2>2 DEF Seen, Program!ArchNext
<1>8. QED
  BY <1>6, <1>7

LEMMA LoadStoreSeen ==
  ASSUME Disciplined, IInv, Flow, NEW a \in DataAddrs, NEW wr \in BOOLEAN,
         NEW f \in DataFaults(cpu), LoadStore(a, wr, f)
  PROVE  Seen
<1> DEFINE hit == a \in (IF wr THEN wpw ELSE wpr)
           w == [C EXCEPT !.wp = @ \/ hit]
           d == [C EXCEPT !.wp = @ \/ hit, !.ran = @ + AccessCycles,
                          !.lag = @ + AccessCycles, !.lim = @ + AccessCycles]
<1>1. Executing /\ cpu' = NextPc(Transact(C, hit, f))
  BY DEF LoadStore, Fetches, Completes
<1>2. /\ C \in Cpus /\ C.pc = cpu.pc /\ C.prev = cpu.prev /\ C.jtgt = cpu.jtgt
      /\ C.sr = cpu.sr /\ C.esr = cpu.esr /\ C.epcr = cpu.epcr
      /\ ~C.doze /\ Aligned(C.epcr)
      /\ C.jd = IF cpu.jd = 1 THEN 0 ELSE IF cpu.jd = 0 THEN -1 ELSE -2
  BY <1>1, FetchedFlow DEF Flow, FlowOf
<1>3. CASE f # "NONE"
  <2>1. f \in Restarting
    BY <1>3 DEF DataFaults, Restarting
  <2>2. /\ w \in Cpus /\ w.pc = C.pc /\ w.prev = C.prev /\ w.sr = C.sr
        /\ w.jd = C.jd
    BY <1>2 DEF Cpus
  <2>3. (w.jd = 0) <=> InSlot
    BY <1>1, <2>2, SlotFetched
  <2>4. Transact(C, hit, f) = Exception(w, f)
    BY <1>3 DEF Transact
  <2> HIDE DEF w
  <2>5. Program!Faults /\ Flow'
    BY <1>1, <2>1, <2>2, <2>3, <2>4, FaultIsFault
  <2>6. QED
    BY <2>5 DEF Seen, Program!ArchNext
<1>4. CASE f = "NONE"
  <2>1. AccessCycles \in Nat
    BY CpuAssumption DEF AccessCycles, DirectCycles
  <2>2. Transact(C, hit, f) = d
    BY <1>2, <1>4 DEF Transact, Elapse, Cpus
  <2>3. C.ran \in Nat /\ C.lim \in Nat /\ C.lag \in Nat
    BY <1>2 DEF Cpus
  <2>4. /\ C.ran + AccessCycles \in Nat /\ C.lag + AccessCycles \in Nat
        /\ C.lim + AccessCycles \in Nat
    BY <2>1, <2>3
  <2>5. /\ d \in Cpus /\ d.pc = C.pc /\ d.prev = C.prev /\ d.jtgt = C.jtgt /\ d.jd = C.jd
        /\ d.sr = C.sr /\ d.esr = C.esr /\ d.epcr = C.epcr /\ ~d.doze
    BY <1>2, <2>4 DEF Cpus
  <2> HIDE DEF d
  <2>6. /\ Program!Moves /\ Flow'
        /\ cpu'.sr = cpu.sr /\ cpu'.esr = cpu.esr /\ cpu'.epcr = cpu.epcr
    BY <1>1, <1>2, <2>2, <2>5, SpentMoves
  <2>7. QED
    BY <2>6 DEF Seen, Program!ArchNext, Program!Instruction, Level
<1>5. QED
  BY <1>3, <1>4

(* Faults of the fetch, l.trap, and an arithmetic exception raised once.    *)
LEMMA RestartSeen ==
  ASSUME IInv, Flow, Executing, NEW type \in Restarting,
         Completes(Exception(C, type))
  PROVE  Seen
<1>1. C \in Cpus /\ ((C.jd = 0) <=> InSlot)
  BY FetchedFlow, SlotFetched DEF Flow
<1>2. cpu' = NextPc(Exception(C, type))
  BY DEF Completes
<1>3. Program!Faults /\ Flow'
  BY <1>1, <1>2, FaultIsFault
<1>4. QED
  BY <1>3 DEF Seen, Program!ArchNext

LEMMA FaultSeen ==
  ASSUME Disciplined, IInv, Flow, NEW f \in FetchFaults(cpu), FetchFault(f)
  PROVE  Seen
<1>1. Executing /\ Completes(Exception(C, f))
  BY DEF FetchFault, Fetches
<1>2. f \in Restarting
  BY DEF FetchFaults, Restarting
<1>3. QED
  BY <1>1, <1>2, RestartSeen

LEMMA RangeSeen ==
  ASSUME Disciplined, IInv, Flow, NEW n \in RaiseTimes, RangeError(n) PROVE Seen
<1>1. Executing /\ Completes(Exception(C, "RANGE"))
  BY DEF RangeError, Fetches, Raise, Disciplined
<1>2. "RANGE" \in Restarting
  BY DEF Restarting
<1>3. QED
  BY <1>1, <1>2, RestartSeen

LEMMA TrapSeen == ASSUME Disciplined, IInv, Flow, Trap PROVE Seen
<1>1. Executing /\ Completes(Exception(C, "TRAP"))
  BY DEF Trap, Fetches
<1>2. "TRAP" \in Restarting
  BY DEF Restarting
<1>3. QED
  BY <1>1, <1>2, RestartSeen

LEMMA FloatSeen ==
  ASSUME Disciplined, IInv, Flow, NEW n \in RaiseTimes, FloatError(n) PROVE Seen
<1>1. Executing /\ ~InSlot /\ cpu' = NextPc(Exception(C, "FP"))
  BY DEF FloatError, Fetches, Completes, Raise, Disciplined, InSlot
<1>2. "FP" \in Resuming
  BY DEF Resuming
<1>3. Program!Calls /\ Flow'
  BY <1>1, <1>2, CallIsCall
<1>4. QED
  BY <1>3 DEF Seen, Program!ArchNext

LEMMA SystemCallSeen == ASSUME Disciplined, IInv, Flow, SystemCall PROVE Seen
<1>1. Executing /\ ~InSlot /\ cpu' = NextPc(Exception(C, "SYSCALL"))
  BY DEF SystemCall, Fetches, Completes, Disciplined, InSlot
<1>2. "SYSCALL" \in Resuming
  BY DEF Resuming
<1>3. Program!Calls /\ Flow'
  BY <1>1, <1>2, CallIsCall
<1>4. QED
  BY <1>3 DEF Seen, Program!ArchNext

LEMMA ReturnSeen == ASSUME Disciplined, IInv, Flow, ReturnFromException PROVE Seen
<1> DEFINE target == IF C.sr.sm THEN C.epcr ELSE 0
           s == [C EXCEPT !.jtgt = target, !.jd = 0]
           r == IF C.sr.sm THEN [s EXCEPT !.sr = C.esr] ELSE s
<1>1. Executing /\ ~InSlot /\ cpu' = NextPc(Rfe(C))
  BY DEF ReturnFromException, Fetches, Completes, Disciplined, InSlot
<1>2. /\ C \in Cpus /\ C.pc = cpu.pc /\ C.prev = cpu.prev /\ ~C.doze
      /\ C.sr = cpu.sr /\ C.esr = cpu.esr /\ C.epcr = cpu.epcr
      /\ cpu \in Cpus /\ Aligned(cpu.pc) /\ Aligned(cpu.epcr)
  BY <1>1, FetchedFlow DEF Flow, FlowOf, IInv, TypeOK
<1>3. target \in Addr /\ Aligned(target)
  <2>1. 0 \in Addr /\ Aligned(0)
    BY CpuAssumption DEF Addr, Aligned
  <2>2. C.epcr \in Addr /\ Aligned(C.epcr)
    BY <1>2 DEF Cpus
  <2>3. QED
    BY <2>1, <2>2
<1>4. /\ s \in Cpus /\ s.pc = cpu.pc /\ s.sr = cpu.sr /\ s.esr = cpu.esr
      /\ s.epcr = cpu.epcr /\ s.jtgt = target /\ s.jd = 0 /\ ~s.doze
  <2>1. 0 \in JumpDistances
    BY DEF JumpDistances
  <2> HIDE DEF target
  <2>2. QED
    BY <1>2, <1>3, <2>1 DEF Cpus
<1>5. ScheduleJump(C, target, 0) = s
  BY <1>3 DEF ScheduleJump
<1> HIDE DEF s
<1>6. Rfe(C) = Broken(r)
  BY <1>2, <1>4, <1>5 DEF Rfe
<1>7. /\ r \in Cpus /\ r.pc = cpu.pc /\ r.esr = cpu.esr /\ r.epcr = cpu.epcr
      /\ r.jtgt = target /\ r.jd = 0 /\ ~r.doze
      /\ r.sr = IF cpu.sr.sm THEN cpu.esr ELSE cpu.sr
  <2>1. C.esr \in Statuses
    BY <1>2 DEF Cpus
  <2>2. QED
    BY <1>2, <1>4, <2>1 DEF Cpus
<1> HIDE DEF r, target
<1>8. /\ Broken(r) \in Cpus /\ Broken(r).pc = cpu.pc /\ Broken(r).esr = cpu.esr
      /\ Broken(r).epcr = cpu.epcr /\ Broken(r).jtgt = target /\ Broken(r).jd = 0
      /\ ~Broken(r).doze /\ Broken(r).sr = r.sr
  BY <1>7 DEF Broken, Cpus
<1>9. /\ cpu'.pc = target /\ cpu'.prev = cpu.pc /\ cpu'.jtgt = target /\ cpu'.jd = 0
      /\ cpu'.sr = r.sr /\ cpu'.esr = cpu.esr /\ cpu'.epcr = cpu.epcr /\ ~cpu'.doze
  BY <1>1, <1>6, <1>8, NextPcFlow
<1>10. Flow'
  BY <1>2, <1>3, <1>9 DEF Flow, FlowOf
<1>11. Program!Goes(target)
  BY <1>9 DEF Program!Goes, Program!Following, Program!NoBranch, InSlot, After
<1>12. CASE cpu.sr.sm
  <2>1. target = cpu.epcr /\ Level(cpu.sr)' = Level(cpu.esr)
    BY <1>2, <1>7, <1>9, <1>12 DEF target, Level
  <2>2. Program!Returns
    BY <1>9, <1>11, <1>12, <2>1 DEF Program!Returns, Level
  <2>3. QED
    BY <1>10, <2>2 DEF Seen, Program!ArchNext
<1>13. CASE ~cpu.sr.sm
  <2>1. target = 0 /\ cpu'.sr = cpu.sr
    BY <1>2, <1>7, <1>9, <1>13 DEF target
  <2>2. Program!ReturnRefused
    BY <1>9, <1>11, <1>13, <2>1 DEF Program!ReturnRefused, Level
  <2>3. QED
    BY <1>10, <2>2 DEF Seen, Program!ArchNext
<1>14. QED
  BY <1>12, <1>13

(* l.mtspr: what it leaves of the flow, written or refused.                 *)
LEMMA WriteSeen ==
  ASSUME IInv, Flow, NEW op \in AllOps, NEW c \in Cpus, SetSpr(op, c),
         c.pc = C.pc, c.prev = C.prev, c.jtgt = C.jtgt, c.jd = C.jd, ~c.doze,
         Aligned(c.epcr)
  PROVE  /\ Program!Moves /\ Flow'
         /\ cpu.sr.sm => cpu'.sr = c.sr /\ cpu'.esr = c.esr /\ cpu'.epcr = c.epcr
         /\ ~cpu.sr.sm =>
              cpu'.sr = cpu.sr /\ cpu'.esr = cpu.esr /\ cpu'.epcr = cpu.epcr
<1> DEFINE d == IF C.sr.sm THEN c ELSE C
<1>1. Executing /\ cpu' = NextPc(Broken(d))
  BY DEF SetSpr, Fetches, Completes
<1>2. /\ C \in Cpus /\ C.sr = cpu.sr /\ C.esr = cpu.esr /\ C.epcr = cpu.epcr
      /\ ~C.doze /\ Aligned(C.epcr)
  BY <1>1, FetchedFlow DEF Flow, FlowOf
<1>3. /\ d \in Cpus /\ d.pc = C.pc /\ d.prev = C.prev /\ d.jtgt = C.jtgt /\ d.jd = C.jd
      /\ ~d.doze /\ Aligned(d.epcr)
      /\ cpu.sr.sm => d = c
      /\ ~cpu.sr.sm => d = C
  BY <1>2
<1> HIDE DEF d
<1>4. /\ Broken(d) \in Cpus /\ Broken(d).pc = d.pc /\ Broken(d).prev = d.prev
      /\ Broken(d).jtgt = d.jtgt /\ Broken(d).jd = d.jd /\ Broken(d).doze = d.doze
      /\ Broken(d).sr = d.sr /\ Broken(d).esr = d.esr /\ Broken(d).epcr = d.epcr
  BY <1>3 DEF Broken, Cpus
<1>5. /\ Program!Moves /\ Flow'
      /\ cpu'.sr = d.sr /\ cpu'.esr = d.esr /\ cpu'.epcr = d.epcr
  BY <1>1, <1>3, <1>4, SpentMoves
<1>6. QED
  BY <1>2, <1>3, <1>5

(* Writes of the PIC, of the timer and of other registers.                  *)
LEMMA OtherWriteSeen ==
  ASSUME IInv, Flow, NEW op \in AllOps, NEW c \in Cpus, SetSpr(op, c),
         c.pc = C.pc, c.prev = C.prev, c.jtgt = C.jtgt, c.jd = C.jd, ~c.doze,
         c.sr = C.sr, c.esr = C.esr, c.epcr = C.epcr
  PROVE  Seen
<1>1. Executing
  BY DEF SetSpr, Fetches
<1>2. C.sr = cpu.sr /\ C.esr = cpu.esr /\ C.epcr = cpu.epcr /\ Aligned(c.epcr)
  BY <1>1, FetchedFlow DEF Flow, FlowOf
<1>3. /\ Program!Moves /\ Flow'
      /\ cpu'.sr = cpu.sr /\ cpu'.esr = cpu.esr /\ cpu'.epcr = cpu.epcr
  BY <1>2, WriteSeen
<1>4. QED
  BY <1>3 DEF Seen, Program!ArchNext, Program!Instruction, Level

LEMMA DeviceWriteSeen ==
  ASSUME Disciplined, IInv, Flow,
         \/ \E m \in SUBSET Lines : WritePicmr(m) \/ WritePicsr(m)
         \/ \E v \in TtmrWrites : WriteTtmr(v)
         \/ \E n \in TtcrWrites : WriteTtcr(n)
         \/ WriteOther
  PROVE  Seen
<1>1. Executing
  BY DEF WritePicmr, WritePicsr, WriteTtmr, WriteTtcr, WriteOther, SetSpr, Fetches
<1>2. C \in Cpus /\ ~C.doze /\ C.picsr \in SUBSET Lines /\ C.tick \in Timers
  BY <1>1, FetchedFlow DEF Flow, Cpus
<1>3. {"pic", "ttmr", "ttcr", "spr"} \subseteq AllOps
  BY DEF AllOps
<1>4. ASSUME NEW m \in SUBSET Lines, WritePicmr(m) PROVE Seen
  <2> DEFINE c == [C EXCEPT !.picmr = m \cup NmiLines]
  <2>1. m \cup NmiLines \in SUBSET Lines
    BY CpuAssumption
  <2>2. /\ c \in Cpus /\ c.pc = C.pc /\ c.prev = C.prev /\ c.jtgt = C.jtgt /\ c.jd = C.jd
        /\ ~c.doze /\ c.sr = C.sr /\ c.esr = C.esr /\ c.epcr = C.epcr
    BY <1>2, <2>1 DEF Cpus
  <2>3. SetSpr("pic", c)
    BY <1>4 DEF WritePicmr
  <2> HIDE DEF c
  <2>4. QED
    BY <1>3, <2>2, <2>3, OtherWriteSeen
<1>5. ASSUME NEW m \in SUBSET Lines, WritePicsr(m) PROVE Seen
  <2> DEFINE p == IF PicLevel THEN C.picsr ELSE C.picsr \ m
             c == [C EXCEPT !.picsr = p]
  <2>1. p \in SUBSET Lines
    BY <1>2
  <2>2. /\ c \in Cpus /\ c.pc = C.pc /\ c.prev = C.prev /\ c.jtgt = C.jtgt /\ c.jd = C.jd
        /\ ~c.doze /\ c.sr = C.sr /\ c.esr = C.esr /\ c.epcr = C.epcr
    BY <1>2, <2>1 DEF Cpus
  <2>3. SetSpr("pic", c)
    BY <1>2, <1>5 DEF WritePicsr, Cpus
  <2> HIDE DEF c
  <2>4. QED
    BY <1>3, <2>2, <2>3, OtherWriteSeen
<1>6. ASSUME NEW v \in TtmrWrites, WriteTtmr(v) PROVE Seen
  <2> DEFINE t == SetTtmr(C.tick, v)
             c == [C EXCEPT !.tick = t]
  <2>1. t \in Timers
    BY <1>2, CoreAssumption, SetTtmrIs
  <2> HIDE DEF t
  <2>2. /\ c \in Cpus /\ c.pc = C.pc /\ c.prev = C.prev /\ c.jtgt = C.jtgt /\ c.jd = C.jd
        /\ ~c.doze /\ c.sr = C.sr /\ c.esr = C.esr /\ c.epcr = C.epcr
    BY <1>2, <2>1 DEF Cpus
  <2>3. SetSpr("ttmr", c)
    BY <1>2, <1>6 DEF WriteTtmr, Cpus, t
  <2> HIDE DEF c
  <2>4. QED
    BY <1>3, <2>2, <2>3, OtherWriteSeen
<1>7. ASSUME NEW n \in TtcrWrites, WriteTtcr(n) PROVE Seen
  <2> DEFINE t == SetTtcr(C.tick, n)
             c == [C EXCEPT !.tick = t]
  <2>1. t \in Timers
    BY <1>2, CoreAssumption, SetTtcrIs
  <2> HIDE DEF t
  <2>2. /\ c \in Cpus /\ c.pc = C.pc /\ c.prev = C.prev /\ c.jtgt = C.jtgt /\ c.jd = C.jd
        /\ ~c.doze /\ c.sr = C.sr /\ c.esr = C.esr /\ c.epcr = C.epcr
    BY <1>2, <2>1 DEF Cpus
  <2>3. SetSpr("ttcr", c)
    BY <1>2, <1>7 DEF WriteTtcr, Cpus, t
  <2> HIDE DEF c
  <2>4. QED
    BY <1>3, <2>2, <2>3, OtherWriteSeen
<1>8. ASSUME WriteOther PROVE Seen
  BY <1>2, <1>3, <1>8, OtherWriteSeen DEF WriteOther
<1>9. QED
  BY <1>4, <1>5, <1>6, <1>7, <1>8

LEMMA StatusWriteSeen ==
  ASSUME Disciplined, IInv, Flow, NEW s \in StatusWrites, WriteSr(s) \/ WriteEsr(s)
  PROVE  Seen
<1>1. Executing
  BY DEF WriteSr, WriteEsr, SetSpr, Fetches
<1>2. s \in Statuses
  BY CoreAssumption
<1>3. /\ C \in Cpus /\ ~C.doze /\ C.sr = cpu.sr /\ C.esr = cpu.esr /\ C.epcr = cpu.epcr
      /\ Aligned(C.epcr)
  BY <1>1, FetchedFlow DEF Flow, FlowOf
<1>4. "sr" \in AllOps /\ "esr" \in AllOps
  BY DEF AllOps
<1>5. CASE WriteSr(s)
  <2> DEFINE c == [C EXCEPT !.sr = s]
  <2>1. /\ c \in Cpus /\ c.pc = C.pc /\ c.prev = C.prev /\ c.jtgt = C.jtgt /\ c.jd = C.jd
        /\ ~c.doze /\ c.sr = s /\ c.esr = C.esr /\ c.epcr = C.epcr
    BY <1>2, <1>3 DEF Cpus
  <2>2. SetSpr("sr", c)
    BY <1>5 DEF WriteSr
  <2> HIDE DEF c
  <2>3. /\ Program!Moves /\ Flow'
        /\ cpu.sr.sm => cpu'.sr = s /\ cpu'.esr = cpu.esr /\ cpu'.epcr = cpu.epcr
        /\ ~cpu.sr.sm =>
             cpu'.sr = cpu.sr /\ cpu'.esr = cpu.esr /\ cpu'.epcr = cpu.epcr
    BY <1>3, <1>4, <2>1, <2>2, WriteSeen
  <2>4. CASE cpu.sr.sm
    BY <1>2, <2>3, <2>4 DEF Seen, Program!ArchNext, Program!WritesStatus, Level
  <2>5. CASE ~cpu.sr.sm
    BY <2>3, <2>5 DEF Seen, Program!ArchNext, Program!Instruction, Level
  <2>6. QED
    BY <2>4, <2>5
<1>6. CASE WriteEsr(s)
  <2> DEFINE c == [C EXCEPT !.esr = s]
  <2>1. /\ c \in Cpus /\ c.pc = C.pc /\ c.prev = C.prev /\ c.jtgt = C.jtgt /\ c.jd = C.jd
        /\ ~c.doze /\ c.sr = C.sr /\ c.esr = s /\ c.epcr = C.epcr
    BY <1>2, <1>3 DEF Cpus
  <2>2. SetSpr("esr", c)
    BY <1>6 DEF WriteEsr
  <2> HIDE DEF c
  <2>3. /\ Program!Moves /\ Flow'
        /\ cpu.sr.sm => cpu'.sr = cpu.sr /\ cpu'.esr = s /\ cpu'.epcr = cpu.epcr
        /\ ~cpu.sr.sm =>
             cpu'.sr = cpu.sr /\ cpu'.esr = cpu.esr /\ cpu'.epcr = cpu.epcr
    BY <1>3, <1>4, <2>1, <2>2, WriteSeen
  <2>4. CASE cpu.sr.sm
    BY <1>2, <2>3, <2>4 DEF Seen, Program!ArchNext, Program!WritesEsr, Level
  <2>5. CASE ~cpu.sr.sm
    BY <2>3, <2>5 DEF Seen, Program!ArchNext, Program!Instruction, Level
  <2>6. QED
    BY <2>4, <2>5
<1>7. QED
  BY <1>5, <1>6

LEMMA EpcrWriteSeen ==
  ASSUME Disciplined, IInv, Flow, NEW a \in EpcrWrites, WriteEpcr(a) PROVE Seen
<1> DEFINE c == [C EXCEPT !.epcr = a]
<1>1. Executing
  BY DEF WriteEpcr, SetSpr, Fetches
<1>2. a \in Addr /\ Aligned(a)
  BY CoreAssumption DEF Disciplined
<1>3. C \in Cpus /\ ~C.doze /\ C.sr = cpu.sr /\ C.esr = cpu.esr
  BY <1>1, FetchedFlow DEF Flow
<1>4. /\ c \in Cpus /\ c.pc = C.pc /\ c.prev = C.prev /\ c.jtgt = C.jtgt /\ c.jd = C.jd
      /\ ~c.doze /\ c.sr = C.sr /\ c.esr = C.esr /\ c.epcr = a
  BY <1>2, <1>3 DEF Cpus
<1>5. SetSpr("epcr", c) /\ "epcr" \in AllOps
  BY DEF WriteEpcr, AllOps
<1> HIDE DEF c
<1>6. /\ Program!Moves /\ Flow'
      /\ cpu.sr.sm => cpu'.sr = cpu.sr /\ cpu'.esr = cpu.esr /\ cpu'.epcr = a
      /\ ~cpu.sr.sm =>
           cpu'.sr = cpu.sr /\ cpu'.esr = cpu.esr /\ cpu'.epcr = cpu.epcr
  BY <1>2, <1>3, <1>4, <1>5, WriteSeen
<1>7. CASE cpu.sr.sm
  BY <1>2, <1>6, <1>7
     DEF Seen, Program!ArchNext, Program!WritesEpcr, Program!Addresses, Addr, Level
<1>8. CASE ~cpu.sr.sm
  BY <1>6, <1>8 DEF Seen, Program!ArchNext, Program!Instruction, Level
<1>9. QED
  BY <1>7, <1>8

LEMMA ExecuteSeen == ASSUME Disciplined, IInv, Flow, Execute PROVE Seen
<1>1. ~(\E a \in NpcWrites : WriteNpc(a))
  BY DEF WriteNpc, SetSpr, Fetches, Disciplined
<1>2. ~(\E on \in BOOLEAN, n \in SleepTimes \cup {0} : WritePmr(on, n))
  BY DEF WritePmr, SetSpr, Fetches, Disciplined
<1>3. ~NopExit /\ ~(\E j \in JumpInsns : NopCntReset(j))
  BY DEF NopExit, NopCntReset, Fetches, Disciplined
<1>4. CASE Alu
  BY <1>4, AluSeen
<1>5. CASE \E t \in JumpTargets : Jump(t)
  BY <1>5, JumpSeen
<1>6. CASE \E a \in DataAddrs, wr \in BOOLEAN, f \in DataFaults(cpu) : LoadStore(a, wr, f)
  BY <1>6, LoadStoreSeen
<1>7. CASE \E f \in FetchFaults(cpu) : FetchFault(f)
  BY <1>7, FaultSeen
<1>8. CASE \E n \in RaiseTimes : RangeError(n) \/ FloatError(n)
  BY <1>8, RangeSeen, FloatSeen
<1>9. CASE SystemCall \/ Trap \/ ReturnFromException
  BY <1>9, SystemCallSeen, TrapSeen, ReturnSeen
<1>10. CASE \E a \in EpcrWrites : WriteEpcr(a)
  BY <1>10, EpcrWriteSeen
<1>11. CASE \E s \in StatusWrites : WriteSr(s) \/ WriteEsr(s)
  BY <1>11, StatusWriteSeen
<1>12. CASE \/ \E m \in SUBSET Lines : WritePicmr(m) \/ WritePicsr(m)
            \/ \E v \in TtmrWrites : WriteTtmr(v)
            \/ \E n \in TtcrWrites : WriteTtcr(n)
            \/ WriteOther
  BY <1>12, DeviceWriteSeen
<1>13. QED
  BY <1>1, <1>2, <1>3, <1>4, <1>5, <1>6, <1>7, <1>8, <1>9, <1>10, <1>11, <1>12
     DEF Execute

-----------------------------------------------------------------------------
(* Between two instructions the program sees an interrupt, or nothing.      *)

Unseen == UNCHANGED Program!archVars /\ Flow'

LEMMA SameFlowUnseen ==
  ASSUME IInv, Flow, SameFlow(cpu, cpu') PROVE Unseen
<1>1. /\ cpu'.pc = cpu.pc /\ cpu'.prev = cpu.prev /\ cpu'.jtgt = cpu.jtgt
      /\ cpu'.jd = cpu.jd /\ cpu'.sr = cpu.sr /\ cpu'.esr = cpu.esr
      /\ cpu'.epcr = cpu.epcr /\ cpu'.doze = cpu.doze
  BY DEF SameFlow
<1>2. Flow'
  BY <1>1 DEF Flow, FlowOf
<1>3. UNCHANGED Program!archVars
  BY <1>1 DEF Program!archVars, InSlot, Level
<1>4. QED
  BY <1>2, <1>3 DEF Unseen

(* raise_external and the tick: the handler is next, EPCR leads back to     *)
(* where the program was, to the jump if its slot was next.                 *)
LEMMA InterruptSeen ==
  ASSUME IInv, Flow, NEW c \in Cpus, SameFlow(cpu, c),
         NEW type \in Interrupts, ~Masked(c, type), NEW d \in Cpus,
         SameFlow(Exception(c, type), d), cpu' = d
  PROVE  Seen
<1> DEFINE e == Exception(c, type)
<1>1. /\ c.pc = cpu.pc /\ c.prev = cpu.prev /\ c.jtgt = cpu.jtgt /\ c.jd = cpu.jd
      /\ c.sr = cpu.sr
  BY DEF SameFlow
<1>2. /\ e.pc = Vector[type] /\ e.prev = c.prev /\ e.jtgt = c.jtgt /\ e.jd = -2
      /\ e.sr = HandlerStatus(c) /\ e.esr = c.sr /\ e.epcr = ExceptionPc(c, type)
      /\ ~e.doze
  BY InterruptFlow
<1> HIDE DEF e
<1>3. /\ cpu'.pc = Vector[type] /\ cpu'.prev = cpu.prev /\ cpu'.jtgt = cpu.jtgt
      /\ cpu'.jd = -2 /\ cpu'.sr = HandlerStatus(c) /\ cpu'.esr = cpu.sr
      /\ cpu'.epcr = ExceptionPc(c, type) /\ ~cpu'.doze
  BY <1>1, <1>2 DEF SameFlow, e
<1>4. ExceptionPc(c, type) = IF InSlot THEN cpu.prev ELSE cpu.pc
  BY <1>1 DEF ExceptionPc, IsJumpInsn, InSlot
<1>5. Flow'
  <2>1. type \in Exceptions
    BY DEF Exceptions
  <2>2. Aligned(cpu.pc) /\ Aligned(cpu.prev) /\ Aligned(cpu.jtgt)
    BY DEF Flow, FlowOf
  <2>3. QED
    BY <1>3, <1>4, <2>1, <2>2, VectorAligned DEF Flow, FlowOf
<1>6. Program!Goes(Vector[type])
  BY <1>3 DEF Program!Goes, Program!Following, Program!NoBranch, InSlot, After
<1>7. /\ Level(cpu.sr)' = [sm |-> TRUE, tee |-> FALSE, iee |-> FALSE, dme |-> FALSE,
                           ime |-> FALSE]
      /\ Level(cpu.esr)' = Level(cpu.sr)
  BY <1>3 DEF Level, HandlerStatus
<1>8. Program!Handles(type)
  BY <1>6, <1>7 DEF Program!Handles
<1>9. Program!Resumption = IF InSlot THEN cpu.prev ELSE cpu.pc
  <2>1. cpu.prev # -1
    BY DEF IInv, TypeOK, Cpus, Addr
  <2>2. QED
    BY <2>1 DEF Program!Resumption, Program!NoBranch
<1>10. CASE type = "EXTERNAL"
  <2>1. Level(cpu.sr).iee
    BY <1>1, <1>10 DEF Masked, Level
  <2>2. QED
    BY <1>3, <1>4, <1>5, <1>8, <1>9, <1>10, <2>1
       DEF Seen, Program!ArchNext, Program!Interrupted
<1>11. CASE type = "TICK_TIMER"
  <2>1. Level(cpu.sr).tee
    BY <1>1, <1>11 DEF Masked, Level
  <2>2. QED
    BY <1>3, <1>4, <1>5, <1>8, <1>9, <1>11, <2>1
       DEF Seen, Program!ArchNext, Program!Interrupted
<1>12. QED
  BY <1>10, <1>11 DEF Interrupts

LEMMA ExternalSeen ==
  ASSUME IInv, Flow, NEW c \in Cpus, SameFlow(cpu, c), cpu' = RaiseExternal(c)
  PROVE  Seen \/ Unseen
<1>1. "EXTERNAL" \in Interrupts
  BY DEF Interrupts
<1>2. CASE Pending(c) /\ ~Masked(c, "EXTERNAL")
  <2> DEFINE d == Exception(c, "EXTERNAL")
  <2>1. cpu' = d /\ d \in Cpus
    BY <1>1, <1>2, InterruptFlow DEF RaiseExternal
  <2>2. SameFlow(d, d)
    BY DEF SameFlow
  <2>3. QED
    BY <1>1, <1>2, <2>1, <2>2, InterruptSeen
<1>3. CASE ~(Pending(c) /\ ~Masked(c, "EXTERNAL"))
  <2>1. cpu' = c
    BY <1>3 DEF RaiseExternal, Exception
  <2>2. QED
    BY <2>1, SameFlowUnseen
<1>4. QED
  BY <1>2, <1>3

(* The end of a mini-quantum: a tick comes first and masks the other.       *)
LEMMA EndMiniSeen == ASSUME IInv, Flow, EndMini PROVE Seen \/ Unseen
<1> DEFINE t == IF Enabled(cpu.tick) THEN Update(cpu.tick, cpu.lag) ELSE cpu.tick
           w == [cpu EXCEPT !.lag = 0, !.tick = t]
           u == UpdateTimer(cpu)
<1>1. cpu' = RaiseExternal(u)
  BY DEF EndMini
<1>2. cpu \in Cpus /\ cpu.tick \in Timers /\ cpu.lag \in Nat
  BY DEF IInv, TypeOK, Cpus
<1>3. t \in Timers
  BY <1>2, UpdateType
<1> HIDE DEF t
<1>4. w \in Cpus /\ SameFlow(cpu, w)
  BY <1>2, <1>3 DEF Cpus, SameFlow
<1>5. u = IF Enabled(w.tick) /\ w.tick.ip THEN Exception(w, "TICK_TIMER") ELSE w
  BY <1>2 DEF UpdateTimer, Cpus, t
<1>6. "TICK_TIMER" \in Interrupts
  BY DEF Interrupts
<1> HIDE DEF w, u
<1>7. CASE Enabled(w.tick) /\ w.tick.ip /\ ~Masked(w, "TICK_TIMER")
  <2>1. u = Exception(w, "TICK_TIMER")
    BY <1>5, <1>7
  <2>2. u \in Cpus /\ u.sr = HandlerStatus(w)
    BY <1>4, <1>6, <1>7, <2>1, InterruptFlow
  <2>3. Masked(u, "EXTERNAL")
    BY <2>2 DEF Masked, HandlerStatus
  <2>4. cpu' = u
    BY <1>1, <2>3 DEF RaiseExternal, Exception
  <2>5. SameFlow(u, u)
    BY DEF SameFlow
  <2>6. QED
    BY <1>4, <1>6, <1>7, <2>1, <2>2, <2>4, <2>5, InterruptSeen
<1>8. CASE ~(Enabled(w.tick) /\ w.tick.ip /\ ~Masked(w, "TICK_TIMER"))
  <2>1. u = w
    BY <1>5, <1>8 DEF Exception
  <2>2. QED
    BY <1>1, <1>4, <2>1, ExternalSeen
<1>9. QED
  BY <1>7, <1>8

(* advance() starts awake, so the doze() it begins with does nothing.       *)
LEMMA AdvanceSeen ==
  ASSUME IInv, Flow, NEW q \in Quanta, NEW allow \in AllowSleep,
         NEW n \in SleepTimes \cup {0}, Advance(q, allow, n)
  PROVE  Seen \/ Unseen
<1> DEFINE s == [cpu EXCEPT !.ran = 0, !.lim = q, !.slept = 0, !.allowSleep = allow]
           e == RaiseExternal(s)
<1>1. cpu' = Doze(e, n)
  BY DEF Advance, Entry
<1>2. q \in Nat /\ allow \in BOOLEAN /\ cpu \in Cpus
  BY CoreAssumption DEF IInv, TypeOK
<1>3. s \in Cpus /\ SameFlow(cpu, s)
  BY <1>2 DEF Cpus, SameFlow
<1>4. ~s.doze
  BY <1>3 DEF SameFlow, Flow, FlowOf
<1> HIDE DEF s
<1>5. ~e.doze
  <2>1. "EXTERNAL" \in Interrupts
    BY DEF Interrupts
  <2>2. ~Exception(s, "EXTERNAL").doze
    BY <1>3, <1>4, <2>1, InterruptFlow
  <2>3. QED
    BY <1>4, <2>2 DEF RaiseExternal
<1>6. cpu' = e
  BY <1>1, <1>5 DEF Doze
<1>7. QED
  BY <1>3, <1>6, ExternalSeen

LEMMA BeginMiniUnseen == ASSUME IInv, Flow, BeginMini PROVE Unseen
<1>1. cpu \in Cpus /\ cpu' = [cpu EXCEPT !.wp = FALSE, !.stop = FALSE, !.brk = FALSE]
  BY DEF IInv, TypeOK, BeginMini
<1>2. SameFlow(cpu, cpu')
  BY <1>1 DEF Cpus, SameFlow
<1>3. QED
  BY <1>2, SameFlowUnseen

LEMMA InterruptLineUnseen ==
  ASSUME IInv, Flow, NEW id \in Lines, NEW set \in BOOLEAN, Interrupt(id, set)
  PROVE  Unseen
<1> DEFINE lines == IF set THEN cpu.picsr \cup {id}
                    ELSE IF PicLevel THEN cpu.picsr \ {id} ELSE cpu.picsr
<1>1. cpu \in Cpus
  BY DEF IInv, TypeOK
<1>2. cpu' = [cpu EXCEPT !.picsr = lines]
  BY <1>1 DEF Interrupt, SetLine, Cpus
<1> HIDE DEF lines
<1>3. SameFlow(cpu, cpu')
  BY <1>1, <1>2 DEF Cpus, SameFlow
<1>4. QED
  BY <1>3, SameFlowUnseen

LEMMA SameCpuUnseen == ASSUME IInv, Flow, UNCHANGED cpu PROVE Unseen
<1>1. SameFlow(cpu, cpu')
  BY DEF SameFlow
<1>2. QED
  BY <1>1, SameFlowUnseen

LEMMA NextSeen == ASSUME Disciplined, IInv, Flow, [Next]_vars PROVE Seen \/ Unseen
<1>1. CASE Call
  BY <1>1, AdvanceSeen DEF Call
<1>2. CASE Running
  <2>1. ASSUME Return PROVE Unseen
    BY <2>1, SameCpuUnseen DEF Return
  <2>2. QED
    BY <1>2, <2>1, BeginMiniUnseen, ExecuteSeen, EndMiniSeen DEF Running
<1>3. CASE Debugger
  <2>1. UNCHANGED cpu
    BY <1>3 DEF Debugger, InsertBreakpoint, RemoveBreakpoint, InsertWatchpoint,
                RemoveWatchpoint
  <2>2. QED
    BY <2>1, SameCpuUnseen
<1>4. CASE \E id \in Lines, set \in BOOLEAN : Interrupt(id, set)
  BY <1>4, InterruptLineUnseen
<1>5. CASE UNCHANGED vars
  BY <1>5, SameCpuUnseen DEF vars
<1>6. QED
  BY <1>1, <1>2, <1>3, <1>4, <1>5 DEF Next

LEMMA InitSeen == ASSUME Init PROVE Program!ArchInit /\ Flow
<1>1. /\ cpu.pc = ResetPc /\ cpu.prev = ResetPc /\ cpu.jtgt = 0 /\ cpu.jd = 0
      /\ cpu.sr = [NoStatus EXCEPT !.sm = TRUE] /\ cpu.esr = NoStatus
      /\ cpu.epcr = 0 /\ ~cpu.doze
  BY DEF Init, CpuInit
<1>2. /\ ResetPc \in Addr /\ Aligned(ResetPc) /\ 0 \in Addr /\ Aligned(0)
      /\ Addr = Program!Addresses
  BY CpuAssumption DEF Addr, Aligned, Program!Addresses
<1>3. Flow
  BY <1>1, <1>2 DEF Flow, FlowOf
<1>4. NoStatus \in Statuses /\ cpu.sr \in Statuses /\ cpu.sr.sm
  BY <1>1 DEF NoStatus, Statuses
<1>5. Level(cpu.sr).sm
  BY <1>4 DEF Level
<1>6. Program!ArchInit
  BY <1>1, <1>2, <1>4, <1>5
     DEF Program!ArchInit, Program!Following, Program!NoBranch, InSlot, After
<1>7. QED
  BY <1>3, <1>6

(* or1k.cpp:71-78, 341-414: whatever the quanta, the timer, the lines and   *)
(* the debugger do, a disciplined program sees delayed jumps in the order   *)
(* written, exceptions precise and their returns exact, and interrupts      *)
(* between two instructions only, from which l.rfe finds back to the jump   *)
(* whose slot was next.                                                     *)
THEOREM ImplementsArchHolds == ASSUME Disciplined PROVE Spec => ImplementsArch
<1>1. Init => Program!ArchInit /\ Flow
  BY InitSeen
<1>2. IInv /\ Flow /\ [Next]_vars => Flow'
  BY NextSeen DEF Seen, Unseen
<1>3. IInv /\ Flow /\ [Next]_vars => [Program!ArchNext]_(Program!archVars)
  BY NextSeen DEF Seen, Unseen
<1>4. QED
  BY <1>1, <1>2, <1>3, InvariantHolds, PTL DEF Spec, ImplementsArch, Program!ArchSpec
=============================================================================
