--------------------------------- MODULE Core ---------------------------------
(***************************************************************************)
(* or1k::advance and or1k::step: a quantum of cycles is run as a sequence  *)
(* of mini-quanta, each cut to end no later than the quantum, the next     *)
(* tick and the next breakpoint.  Timer, interrupts, breakpoints and       *)
(* watchpoints are looked at only between mini-quanta.                     *)
(*                                                                         *)
(* The program is chaotic: any instruction of Ops may sit at any address.  *)
(* Interrupt lines change whenever the core is between two instructions,   *)
(* as they do from the callbacks env::transact and env::sleep.             *)
(***************************************************************************)
EXTENDS Cpu

CONSTANTS
  Ops,            \* the kinds of instructions the program consists of
  SlotOps,        \* those it places in the delay slot of a jump
  JumpTargets,    \* where its jumps lead
  NpcWrites,      \* what it writes to SPR_NPC
  EpcrWrites,     \* what it writes to SPR_EPCR
  StatusWrites,   \* what it writes to SPR_SR and SPR_ESR
  TtmrWrites, TtcrWrites,   \* what it writes to the tick timer
  RaiseTimes,     \* how often one arithmetic instruction calls exception()
  JumpInsns,      \* values m_jump_insn may have when the counters are reset
  Quanta,         \* arguments of advance()
  SleepTimes,     \* what env::sleep may return besides 0
  BreakAddrs,     \* where the debugger sets breakpoints
  DataAddrs,      \* the data words accessed
  WatchAddrs,     \* those of them the debugger watches
  AllowSleep      \* settings of or1k::allow_sleep

AllOps == {"alu", "jump", "mem", "fault", "range", "fp", "sys", "trap", "rfe",
           "npc", "epcr", "esr", "sr", "pmr", "pic", "ttmr", "ttcr", "spr",
           "exit", "cnt_reset"}

ASSUME CoreAssumption ==
  /\ SlotOps \subseteq Ops /\ Ops \subseteq AllOps
  /\ JumpTargets \subseteq Addr /\ NpcWrites \subseteq Addr /\ EpcrWrites \subseteq Addr
  /\ BreakAddrs \subseteq Addr /\ WatchAddrs \subseteq DataAddrs
  /\ StatusWrites \subseteq Statuses
  /\ TtmrWrites \subseteq Ttmrs /\ TtcrWrites \subseteq Counts
  /\ RaiseTimes \subseteq {1, 2} /\ JumpInsns \subseteq Nat
  /\ Quanta \subseteq Nat /\ SleepTimes \subseteq Nat
  /\ AllowSleep \subseteq BOOLEAN

VARIABLES
  cpu,       \* the state of the core, a record of Cpus
  ctl,       \* where advance() is: "idle" between two calls, "outer" at the
             \* head of its outer loop, "inner" in a mini-quantum
  room,      \* limit - m_cycles, 0 once m_cycles has passed it
  quantum,   \* the argument of advance()
  result,    \* what advance() returned last
  bps,       \* m_breakpoints
  wpr, wpw   \* m_watchpoints_r, m_watchpoints_w

vars == <<cpu, ctl, room, quantum, result, bps, wpr, wpw>>
host == <<bps, wpr, wpw>>

Results == {"OK", "EXIT", "BREAKPOINT", "WATCHPOINT"}

TypeOK ==
  /\ cpu \in Cpus
  /\ ctl \in {"idle", "outer", "inner"}
  /\ room \in Nat /\ quantum \in Nat
  /\ result \in Results
  /\ bps \subseteq BreakAddrs
  /\ wpr \subseteq WatchAddrs /\ wpw \subseteq WatchAddrs

Init ==
  /\ cpu = CpuInit
  /\ ctl = "idle" /\ room = 0 /\ quantum = 0 /\ result = "OK"
  /\ bps = {} /\ wpr = {} /\ wpw = {}

-----------------------------------------------------------------------------
(* Between two calls: the debugger, and the interrupt lines *)

InsertBreakpoint(a) ==
  /\ ctl = "idle" /\ a \notin bps
  /\ bps' = bps \cup {a}
  /\ UNCHANGED <<cpu, ctl, room, quantum, result, wpr, wpw>>

RemoveBreakpoint(a) ==
  /\ ctl = "idle" /\ a \in bps
  /\ bps' = bps \ {a}
  /\ UNCHANGED <<cpu, ctl, room, quantum, result, wpr, wpw>>

(* wr tells the list of watched stores from that of watched loads *)
InsertWatchpoint(a, wr) ==
  /\ ctl = "idle"
  /\ wpr' = IF wr THEN wpr ELSE wpr \cup {a}
  /\ wpw' = IF wr THEN wpw \cup {a} ELSE wpw
  /\ UNCHANGED <<cpu, ctl, room, quantum, result, bps>>

RemoveWatchpoint(a, wr) ==
  /\ ctl = "idle"
  /\ wpr' = IF wr THEN wpr ELSE wpr \ {a}
  /\ wpw' = IF wr THEN wpw \ {a} ELSE wpw
  /\ UNCHANGED <<cpu, ctl, room, quantum, result, bps>>

Interrupt(id, set) ==
  /\ cpu' = SetLine(cpu, id, set)
  /\ UNCHANGED <<ctl, room, quantum, result, host>>

-----------------------------------------------------------------------------
(* The loops of advance() *)

Minima(S) == {m \in S : \A x \in S : m <= x}

(* cycles, and so instructions, until the program counter reaches b *)
Distance(pc, b) == ((b - pc) % AddrMod) \div 4

(* next_breakpoint() - m_cycles; without breakpoints it limits nothing. *)
NextBreakpoints(pc) == {Distance(pc, b) : b \in bps}

Entry(q, allow) ==
  RaiseExternal([cpu EXCEPT !.ran = 0, !.lim = q, !.slept = 0,
                            !.allowSleep = allow])

(* The hosts of src/ leave their loops on STEP_EXIT. *)
Advance(q, allow, n) ==
  /\ ctl = "idle" /\ result # "EXIT"
  /\ n \in SleepReturns(Entry(q, allow), SleepTimes)
  /\ cpu' = Doze(Entry(q, allow), n)
  /\ ctl' = "outer" /\ quantum' = q
  /\ UNCHANGED <<room, result, host>>

BeginMini ==
  /\ ctl = "outer" /\ cpu.ran < cpu.lim
  /\ cpu' = [cpu EXCEPT !.wp = FALSE, !.stop = FALSE, !.brk = FALSE]
  /\ room' \in Minima({cpu.lim - cpu.ran} \cup NextBreakpoints(cpu.pc)
                       \cup (IF Enabled(cpu.tick) THEN {NextTick(cpu.tick)} ELSE {}))
  /\ ctl' = "inner"
  /\ UNCHANGED <<quantum, result, host>>

Executing == ctl = "inner" /\ room > 0 /\ ~cpu.brk /\ ~cpu.wp

(* mutant: a jump does not bring breakpoints closer *)
CompletesInLine(c) ==
  LET spent == c.ran - cpu.ran
  IN  /\ cpu' = NextPc(c)
      /\ room' = IF spent < room THEN room - spent ELSE 0
      /\ ctl' = IF c.stop THEN "idle" ELSE "inner"
      /\ result' = IF c.stop THEN "EXIT" ELSE result
      /\ UNCHANGED <<quantum, host>>

(* The end of an instruction that left the core in c.  A jump may bring a  *)
(* breakpoint closer, the timer's share of the limit stays as it was.      *)
Completes(c) ==
  LET spent == c.ran - cpu.ran
      rest == IF spent < room THEN room - spent ELSE 0
  IN  /\ cpu' = NextPc(c)
      /\ room' \in Minima({rest} \cup (IF c.jd = 0 THEN NextBreakpoints(c.jtgt) ELSE {}))
      /\ ctl' = IF c.stop THEN "idle" ELSE "inner"
      /\ result' = IF c.stop THEN "EXIT" ELSE result
      /\ UNCHANGED <<quantum, host>>

(* mutant: advance() is not left at a breakpoint *)
EndMiniGoesOn ==
  /\ ctl = "inner" /\ (room = 0 \/ cpu.brk \/ cpu.wp)
  /\ cpu' = RaiseExternal(UpdateTimer(cpu))
  /\ ctl' = IF cpu.wp THEN "idle" ELSE "outer"
  /\ result' = IF cpu.wp THEN "WATCHPOINT" ELSE result
  /\ UNCHANGED <<room, quantum, host>>

EndMini ==
  /\ ctl = "inner" /\ (room = 0 \/ cpu.brk \/ cpu.wp)
  /\ cpu' = RaiseExternal(UpdateTimer(cpu))
  /\ ctl' = IF cpu'.pc \in bps \/ cpu.wp THEN "idle" ELSE "outer"
  /\ result' = IF cpu'.pc \in bps THEN "BREAKPOINT"
               ELSE IF cpu.wp THEN "WATCHPOINT" ELSE result
  /\ UNCHANGED <<room, quantum, host>>

Return ==
  /\ ctl = "outer" /\ cpu.ran >= cpu.lim
  /\ ctl' = "idle" /\ result' = "OK"
  /\ UNCHANGED <<cpu, room, quantum, host>>

-----------------------------------------------------------------------------
(* Instructions.  C is the core when the instruction is fetched.           *)

C == Counted(cpu)

Fetches(op) == Executing /\ op \in Ops /\ (cpu.jd = 1 => op \in SlotOps)

Alu == Fetches("alu") /\ Completes(C)

Jump(target) == Fetches("jump") /\ Completes(ScheduleJump(C, target, 1))

LoadStore(a, wr, fault) ==
  /\ Fetches("mem")
  /\ Completes(Transact(C, a \in (IF wr THEN wpw ELSE wpr), fault))

FetchFault(fault) == Fetches("fault") /\ Completes(Exception(C, fault))

(* l.addc, l.sub and the floating point flags check several conditions in  *)
(* a row, each of which calls exception().                                 *)
Raise(c, type, n) ==
  IF n = 1 THEN Exception(c, type) ELSE Exception(Exception(c, type), type)

RangeError(n) == Fetches("range") /\ Completes(Raise(C, "RANGE", n))
FloatError(n) == Fetches("fp") /\ Completes(Raise(C, "FP", n))

SystemCall == Fetches("sys") /\ Completes(Exception(C, "SYSCALL"))
Trap == Fetches("trap") /\ Completes(Exception(C, "TRAP"))
ReturnFromException == Fetches("rfe") /\ Completes(Rfe(C))

(* l.mtspr: refused in user mode, but the quantum is broken all the same.  *)
SetSpr(op, c) ==
  Fetches(op) /\ Completes(Broken(IF C.sr.sm THEN c ELSE C))

WriteNpc(a) == SetSpr("npc", [C EXCEPT !.pc = a])
WriteEpcr(a) == SetSpr("epcr", [C EXCEPT !.epcr = a])
WriteEsr(s) == SetSpr("esr", [C EXCEPT !.esr = s])
WriteSr(s) == SetSpr("sr", [C EXCEPT !.sr = s])
WritePicmr(m) == SetSpr("pic", [C EXCEPT !.picmr = m \cup NmiLines])
WritePicsr(m) == SetSpr("pic", [C EXCEPT !.picsr = IF PicLevel THEN @ ELSE @ \ m])
WriteTtmr(v) == SetSpr("ttmr", [C EXCEPT !.tick = SetTtmr(@, v)])
WriteTtcr(n) == SetSpr("ttcr", [C EXCEPT !.tick = SetTtcr(@, n)])
WriteOther == SetSpr("spr", C)

WritePmr(on, n) ==
  LET p == [C EXCEPT !.doze = on]
  IN  n \in SleepReturns(p, SleepTimes) /\ SetSpr("pmr", Doze(p, n))

NopExit == Fetches("exit") /\ Completes(Exit(C))
NopCntReset(j) == Fetches("cnt_reset") /\ Completes(CntReset(C, j))

Execute ==
  \/ Alu
  \/ \E t \in JumpTargets : Jump(t)
  \/ \E a \in DataAddrs, wr \in BOOLEAN, f \in DataFaults(cpu) : LoadStore(a, wr, f)
  \/ \E f \in FetchFaults(cpu) : FetchFault(f)
  \/ \E n \in RaiseTimes : RangeError(n) \/ FloatError(n)
  \/ SystemCall
  \/ Trap
  \/ ReturnFromException
  \/ \E a \in NpcWrites : WriteNpc(a)
  \/ \E a \in EpcrWrites : WriteEpcr(a)
  \/ \E s \in StatusWrites : WriteSr(s) \/ WriteEsr(s)
  \/ \E m \in SUBSET Lines : WritePicmr(m) \/ WritePicsr(m)
  \/ \E v \in TtmrWrites : WriteTtmr(v)
  \/ \E n \in TtcrWrites : WriteTtcr(n)
  \/ WriteOther
  \/ \E on \in BOOLEAN, n \in SleepTimes \cup {0} : WritePmr(on, n)
  \/ NopExit
  \/ \E j \in JumpInsns : NopCntReset(j)

Call == \E q \in Quanta, allow \in AllowSleep, n \in SleepTimes \cup {0} :
          Advance(q, allow, n)

Debugger ==
  \/ \E a \in BreakAddrs : InsertBreakpoint(a) \/ RemoveBreakpoint(a)
  \/ \E a \in WatchAddrs, wr \in BOOLEAN :
       InsertWatchpoint(a, wr) \/ RemoveWatchpoint(a, wr)

Running == BeginMini \/ Execute \/ EndMini \/ Return

Next ==
  \/ Call
  \/ Running
  \/ Debugger
  \/ \E id \in Lines, set \in BOOLEAN : Interrupt(id, set)

Spec == Init /\ [][Next]_vars

(* advance() runs until it returns, and the host keeps calling it.          *)
FairSpec == Spec /\ WF_vars(Running) /\ WF_vars(Call)

-----------------------------------------------------------------------------
(* Properties *)

(* or1k.cpp:44, 75-78, 470-487: the instruction at a breakpoint is never    *)
(* executed before advance() has reported the breakpoint, whichever way the *)
(* program counter got there - in line, by a jump, an exception, l.rfe or   *)
(* a write to SPR_NPC.                                                      *)
BreakpointNeverSkipped == Executing => cpu.pc \notin bps

(* or1k.cpp:24-27, 224-230, 716: whatever loads, stores and env::sleep cost *)
(* is credited to m_limit, so that m_cycles never runs past it and the      *)
(* unsigned difference step() adds to the budget stays within the budget.   *)
BudgetSound ==
  /\ cpu.ran <= cpu.lim
  /\ cpu.lim - cpu.ran <= quantum
  /\ cpu.slept <= cpu.ran

(* or1k.cpp:92-95, 439-446: a pending and enabled tick is never carried     *)
(* into a mini-quantum, nor over the end of advance().                      *)
TickNeverCarried ==
  (ctl # "inner" \/ Executing) =>
     ~(Enabled(cpu.tick) /\ cpu.tick.ip /\ cpu.sr.tee)

(* advance() always comes back to its caller (or1k.cpp:39-108).             *)
AdvanceReturns == (ctl # "idle") ~> (ctl = "idle")

(* An interrupt that stays pending and enabled is taken (or1k.cpp:30, 98).  *)
InterruptTaken ==
  (Pending(cpu) /\ cpu.sr.iee) ~> ~(Pending(cpu) /\ cpu.sr.iee)

(* The program the core runs sees the order of execution of Arch: delayed   *)
(* jumps, precise exceptions, and interrupts that lose no jump              *)
(* (or1k.cpp:71-78, 341-414).  SR_DSX is not part of this.                  *)
Level(s) == [sm |-> s.sm, tee |-> s.tee, iee |-> s.iee, dme |-> s.dme, ime |-> s.ime]

InSlot == cpu.jd = 1

Program == INSTANCE Arch WITH
  pc <- cpu.pc,
  npc <- IF InSlot THEN cpu.jtgt ELSE After(cpu.pc),
  branch <- IF InSlot THEN cpu.prev ELSE -1,
  sr <- Level(cpu.sr), esr <- Level(cpu.esr), epcr <- cpu.epcr,
  Levels <- {Level(s) : s \in Statuses}

ImplementsArch == Program!ArchSpec

(* or1k.cpp:407-409: "external and tick exceptions are raised only after    *)
(* updating the PC", so an instruction leaves the address it was fetched    *)
(* from in the previous program counter.                                    *)
PcUpdatedFirst == [][Execute => cpu'.prev = cpu.pc]_vars
=============================================================================
