--------------------------------- MODULE Cpu ---------------------------------
(***************************************************************************)
(* The part of class or1k that decides what is executed next: program      *)
(* counter, delayed jumps, status register, exceptions, interrupt          *)
(* controller, doze mode and tick timer.  A state of it is a record c, a   *)
(* member function an operator from records to records.                    *)
(*                                                                         *)
(* Counters appear as the differences the code reads:                      *)
(*   jd     m_jump_insn - m_instructions: 1 a jump waits for its delay     *)
(*          slot, 0 it is due; -2 stands for every value from -2 down      *)
(*   lag    m_cycles - m_tick_update                                       *)
(*   ran    m_cycles     -\                                                *)
(*   lim    m_limit        > since advance() was entered                   *)
(*   slept  m_sleep_cycles/                                                *)
(* General purpose registers, flags, memory contents, EEAR, FPCSR and the  *)
(* arithmetic exception registers decide no control flow here and are left *)
(* out; a taken branch and a branch not taken are two instructions.        *)
(***************************************************************************)
EXTENDS Tick, FiniteSets

CONSTANTS
  AddrMod,     \* 2^32: addresses are bytes, an instruction takes four
  Vector,      \* EXCEPTION_VECTOR with EVBAR and SR_EPH applied
  ResetPc,     \* EXCEPTION_VECTOR[EX_RESET]
  Lines,       \* interrupt lines of the PIC
  NmiLines,    \* OR1KISS_PIC_NMI, the lines that cannot be masked
  PicLevel,    \* m_pic_level: level- or edge-sensitive lines
  DataCycles   \* m_data_cycles of the environment

Interrupts == {"TICK_TIMER", "EXTERNAL"}
Resuming == {"SYSCALL", "FP"}
Restarting == {"INSN_ALIGNMENT", "INSN_TLB_MISS", "INSN_PAGE_FAULT",
               "INSN_BUS_ERROR", "DATA_ALIGNMENT", "DATA_TLB_MISS",
               "DATA_PAGE_FAULT", "DATA_BUS_ERROR", "ILLEGAL_INSN", "TRAP", "RANGE"}
Exceptions == Interrupts \cup Resuming \cup Restarting

Addr == 0 .. (AddrMod - 1)
Aligned(a) == a % 4 = 0

ASSUME CpuAssumption ==
  /\ AddrMod \in Nat \ {0} /\ Aligned(AddrMod)
  /\ Vector \in [Exceptions -> {a \in Addr : Aligned(a)}]
  /\ ResetPc \in Addr /\ Aligned(ResetPc)
  /\ IsFiniteSet(Lines) /\ NmiLines \subseteq Lines
  /\ PicLevel \in BOOLEAN
  /\ DataCycles \in Nat

(* enum supervisor_status, as far as it steers exceptions *)
Statuses == [sm : BOOLEAN, tee : BOOLEAN, iee : BOOLEAN, dme : BOOLEAN,
             ime : BOOLEAN, dsx : BOOLEAN]

JumpDistances == {n \in Int : n >= -2}

Cpus == [pc : Addr, prev : Addr, jtgt : Addr, jd : JumpDistances,
         sr : Statuses, esr : Statuses, epcr : Addr,
         doze : BOOLEAN, allowSleep : BOOLEAN,
         picsr : SUBSET Lines, picmr : SUBSET Lines, tick : Timers,
         lag : Nat, ran : Nat, lim : Nat, slept : Nat,
         stop : BOOLEAN, brk : BOOLEAN, wp : BOOLEAN]

NoStatus == [sm |-> FALSE, tee |-> FALSE, iee |-> FALSE, dme |-> FALSE,
             ime |-> FALSE, dsx |-> FALSE]

(* The constructor of or1k.  Counters all zero: the jump distance is 0.    *)
CpuInit ==
  [pc |-> ResetPc, prev |-> ResetPc, jtgt |-> 0, jd |-> 0,
   sr |-> [NoStatus EXCEPT !.sm = TRUE], esr |-> NoStatus, epcr |-> 0,
   doze |-> FALSE, allowSleep |-> TRUE,
   picsr |-> {}, picmr |-> NmiLines, tick |-> TimerInit,
   lag |-> 0, ran |-> 0, lim |-> 0, slept |-> 0,
   stop |-> FALSE, brk |-> FALSE, wp |-> FALSE]

-----------------------------------------------------------------------------
(* Exceptions and jumps *)

(* mutant: addresses do not wrap around *)
AfterUncut(a) == a + 4

After(a) == (a + 4) % AddrMod

(* mutant: one enable bit is tested for both interrupts *)
MaskedByTick(c, type) == type \in Interrupts /\ ~c.sr.tee

Masked(c, type) ==
  \/ type = "EXTERNAL" /\ ~c.sr.iee
  \/ type = "TICK_TIMER" /\ ~c.sr.tee

(* is_jump_insn and is_delay_insn of or1k::exception *)
IsJumpInsn(c) == c.jd = 1
IsDelayInsn(c) == c.jd = 0

(* mutant: an interrupt before a delay slot forgets the jump *)
ExceptionPcInSlot(c, type) ==
  IF type \in Interrupts    THEN c.pc
  ELSE IF type \in Resuming THEN (IF IsJumpInsn(c) THEN c.jtgt ELSE After(c.pc))
  ELSE                           (IF IsDelayInsn(c) THEN c.prev ELSE c.pc)

ExceptionPc(c, type) ==
  IF type \in Interrupts    THEN (IF IsJumpInsn(c) THEN c.prev ELSE c.pc)
  ELSE IF type \in Resuming THEN (IF IsJumpInsn(c) THEN c.jtgt ELSE After(c.pc))
  ELSE                           (IF IsDelayInsn(c) THEN c.prev ELSE c.pc)

HandlerStatus(c) ==
  [sm |-> TRUE, tee |-> FALSE, iee |-> FALSE, dme |-> FALSE, ime |-> FALSE,
   dsx |-> c.sr.dsx \/ IsDelayInsn(c)]

Entered(c, type) ==
  [c EXCEPT !.epcr = ExceptionPc(c, type), !.esr = c.sr,
            !.sr = HandlerStatus(c), !.doze = FALSE]

(* Cancelling a jump sets m_jump_insn to 0.  A synchronous exception jumps *)
(* to its vector at the end of the instruction that raised it, interrupts  *)
(* between two instructions set the program counter themselves.            *)
Exception(c, type) ==
  IF Masked(c, type) THEN c
  ELSE IF type \in Interrupts
    THEN [Entered(c, type) EXCEPT !.jd = -2, !.pc = Vector[type]]
    ELSE [Entered(c, type) EXCEPT !.jd = 0, !.jtgt = Vector[type]]

ScheduleJump(c, target, delay) ==
  LET s == [c EXCEPT !.jtgt = target, !.jd = delay]
  IN  IF Aligned(target) THEN s ELSE Exception(s, "INSN_ALIGNMENT")

(* The end of an instruction: the program counter moves on, or jumps.      *)
NextPc(c) ==
  [c EXCEPT !.prev = c.pc,
            !.pc = IF c.jd = 0 THEN c.jtgt ELSE After(c.pc)]

-----------------------------------------------------------------------------
(* Interrupts, timer and doze mode *)

Pending(c) == c.picsr \cap c.picmr # {}

RaiseExternal(c) == IF Pending(c) THEN Exception(c, "EXTERNAL") ELSE c

SetLine(c, id, set) ==
  IF set THEN [c EXCEPT !.picsr = @ \cup {id}]
  ELSE IF PicLevel THEN [c EXCEPT !.picsr = @ \ {id}]
  ELSE c

UpdateTimer(c) ==
  LET u == [c EXCEPT !.lag = 0,
                     !.tick = IF Enabled(c.tick) THEN Update(c.tick, c.lag) ELSE @]
  IN  IF Enabled(u.tick) /\ u.tick.ip THEN Exception(u, "TICK_TIMER") ELSE u

Smaller(a, b) == IF a < b THEN a ELSE b

(* Is there a tick to wake for, and how far may doze() skip ahead?  Nobody  *)
(* sleeps past the quantum without the environment's help.                  *)
WakesForTick(c) == Enabled(c.tick) /\ c.tick.ie
TickSkip(c) == Smaller(NextTick(c.tick), c.tick.tp)

Elapse(c, n) == [c EXCEPT !.ran = @ + n, !.lag = @ + n]

(* or1k::doze; n is what env::sleep returns, 0 where it is not overridden.  *)
Doze(c, n) ==
  IF ~c.doze \/ ~c.allowSleep THEN c
  ELSE IF n > 0
    THEN [Elapse(c, n) EXCEPT !.slept = @ + n, !.lim = @ + n, !.doze = FALSE]
    ELSE LET left == c.lim - c.ran
             skip == IF WakesForTick(c) THEN Smaller(TickSkip(c), left) ELSE left
         IN  UpdateTimer([Elapse(c, skip) EXCEPT !.slept = @ + skip])

(* External: what env::sleep may return when asked for that many cycles.    *)
SleepReturns(c, times) ==
  {n \in times : WakesForTick(c) => n <= TickSkip(c)} \cup {0}

-----------------------------------------------------------------------------
(* The data port *)

(* env::direct_memory_ptr adds m_data_cycles to the request, and            *)
(* env::convert_and_transact adds them again.                               *)
DirectCycles == DataCycles
AccessCycles == DirectCycles + DataCycles

(* mutant: the cycles of an access are taken from the budget *)
TransactUncredited(c, hit, fault) ==
  LET w == [c EXCEPT !.wp = @ \/ hit]
  IN  IF fault # "NONE" THEN Exception(w, fault) ELSE Elapse(w, AccessCycles)

(* or1k::transact once the outcome of translation and port is known: a      *)
(* fault, or "NONE"; hit tells whether a watchpoint overlaps the access.    *)
Transact(c, hit, fault) ==
  LET w == [c EXCEPT !.wp = @ \/ hit]
  IN  IF fault # "NONE" THEN Exception(w, fault)
      ELSE [Elapse(w, AccessCycles) EXCEPT !.lim = @ + AccessCycles]

(* Which faults the MMU can add to those of the bus. *)
DataFaults(c) ==
  {"NONE", "DATA_ALIGNMENT", "DATA_BUS_ERROR"}
    \cup (IF c.sr.dme THEN {"DATA_TLB_MISS", "DATA_PAGE_FAULT"} ELSE {})

FetchFaults(c) ==
  {"INSN_BUS_ERROR", "ILLEGAL_INSN"}
    \cup (IF c.sr.ime THEN {"INSN_TLB_MISS", "INSN_PAGE_FAULT"} ELSE {})

-----------------------------------------------------------------------------
(* Instructions that touch this state *)

(* mutant: an SPR write does not end the mini-quantum *)
Unbroken(c) == c

(* set_spr: the quantum is broken even when the access is refused.          *)
Broken(c) == [c EXCEPT !.brk = TRUE]

Rfe(c) ==
  LET j == ScheduleJump(c, IF c.sr.sm THEN c.epcr ELSE 0, 0)
  IN  Broken(IF j.sr.sm THEN [j EXCEPT !.sr = j.esr] ELSE j)

(* l.nop 0x1 and 0xc: the instruction and its cycle are not counted.        *)
Exit(c) ==
  [c EXCEPT !.stop = TRUE, !.ran = @ - 1, !.lag = @ - 1,
            !.jd = IF @ = -2 THEN -2 ELSE @ + 1]

(* l.nop 0x5: m_instructions becomes 0, so the distance to m_jump_insn is   *)
(* m_jump_insn itself, whatever jump it was last set for.                   *)
CntReset(c, jumpInsn) == [c EXCEPT !.jd = jumpInsn, !.brk = TRUE]

(* What advance() does before it fetches: one more cycle, one more          *)
(* instruction.                                                             *)
Counted(c) == [Elapse(c, 1) EXCEPT !.jd = IF @ = -2 THEN -2 ELSE @ - 1]
=============================================================================
