------------------------------ MODULE TickTimer ------------------------------
(***************************************************************************)
(* How or1k::advance drives the tick timer.  Cycles are counted in         *)
(* m_cycles only; the timer learns of them in one batch when a             *)
(* mini-quantum ends (update_timer).  The mini-quantum is cut so that it   *)
(* ends no later than the next tick.                                       *)
(*                                                                         *)
(* The counters of the code appear as differences, the only way the code   *)
(* reads them:                                                             *)
(*   lag   m_cycles - m_tick_update, cycles the timer has not seen yet     *)
(*   room  limit - m_cycles (0 once m_cycles has passed it): what is left  *)
(*         of the mini-quantum                                             *)
(*   left  m_limit - m_cycles: what is left of the quantum                 *)
(* Two variables record what the core did, for the comparison with a timer *)
(* that counts every cycle; no action reads them:                          *)
(*   cycles  m_cycles itself, modulo CycleMod                              *)
(*   op      what the last instruction wrote: << >>, or TTMR or TTCR and   *)
(*           the value of its l.mtspr                                      *)
(***************************************************************************)
EXTENDS Tick

CONSTANTS
  CycleMod,    \* m_cycles is an unsigned 64 bit number: 2^64
  Quanta,      \* arguments advance() may be called with
  MemCycles,   \* extra cycles an instruction may take, 0 for all but loads/stores
  TtmrWrites,  \* values software writes to SPR_TTMR
  TtcrWrites,  \* values software writes to SPR_TTCR
  RacyWrites,  \* TRUE: the timer may be reprogrammed anywhere in a mini-quantum
  PastLimit    \* TRUE: the timer may run with its count at or past the period,
               \* which continuous mode does by design

ASSUME TickTimerAssumption ==
  /\ CycleMod \in Nat \ {0, 1}
  /\ Quanta \subseteq Nat /\ Quanta # {}
  /\ MemCycles \subseteq Nat /\ MemCycles # {}
  /\ TtmrWrites \subseteq Ttmrs
  /\ TtcrWrites \subseteq Counts
  /\ RacyWrites \in BOOLEAN /\ PastLimit \in BOOLEAN

VARIABLES timer, lag, room, left, running, cycles, op

vars == <<timer, lag, room, left, running, cycles, op>>

record == <<cycles, op>>

TypeOK ==
  /\ timer \in Timers
  /\ lag \in Nat /\ room \in Nat /\ left \in Nat
  /\ running \in BOOLEAN
  /\ cycles \in 0 .. (CycleMod - 1)
  /\ op \in {<< >>} \cup ({"TTMR"} \X Ttmrs) \cup ({"TTCR"} \X Counts)

Init ==
  /\ timer = TimerInit
  /\ lag = 0 /\ room = 0 /\ left = 0
  /\ running = FALSE
  /\ cycles = 0 /\ op = << >>

-----------------------------------------------------------------------------

Smaller(a, b) == IF a < b THEN a ELSE b

(* The next call of advance(), after the previous one used up its quantum. *)
Advance(q) ==
  /\ ~running /\ left = 0
  /\ left' = q
  /\ UNCHANGED <<timer, lag, room, running, record>>

(* mutant: the mini-quantum is not cut at the next tick *)
MiniLimitUncut == left

MiniLimit == IF Enabled(timer) THEN Smaller(left, NextTick(timer)) ELSE left

BeginMini ==
  /\ ~running /\ left > 0
  /\ running' = TRUE
  /\ room' = MiniLimit
  /\ UNCHANGED <<timer, lag, left, record>>

(* One instruction.  The cycles of a memory access are credited to the     *)
(* quantum (m_limit) but not to the mini-quantum (limit).  With breaks the *)
(* instruction ends the mini-quantum: an SPR write or a watchpoint.        *)
Insn(cost, breaks) ==
  /\ running /\ room > 0
  /\ lag' = lag + 1 + cost
  /\ room' = IF breaks \/ room <= 1 + cost THEN 0 ELSE room - (1 + cost)
  /\ left' = left - 1
  /\ cycles' = (cycles + 1 + cost) % CycleMod
  /\ op' = << >>
  /\ UNCHANGED <<timer, running>>

(* The disciplines a run may impose on software.  Acknowledging, a write   *)
(* that keeps mode and period, is the one write allowed anywhere.          *)
Acknowledges(v) == v.mode = timer.mode /\ v.tp = timer.tp

Ahead(t) == t.mode = "D" \/ t.done \/ (t.mode # "CT" /\ t.count < t.tp)

WriteTtmr(v) ==
  /\ running /\ room > 0
  /\ RacyWrites \/ lag = 0 \/ Acknowledges(v)
  /\ timer' = SetTtmr(timer, v)
  /\ PastLimit \/ Ahead(timer')
  /\ lag' = lag + 1
  /\ room' = 0
  /\ left' = left - 1
  /\ cycles' = (cycles + 1) % CycleMod
  /\ op' = <<"TTMR", v>>
  /\ UNCHANGED running

WriteTtcr(n) ==
  /\ running /\ room > 0
  /\ RacyWrites \/ lag = 0
  /\ timer' = SetTtcr(timer, n)
  /\ PastLimit \/ Ahead(timer')
  /\ lag' = lag + 1
  /\ room' = 0
  /\ left' = left - 1
  /\ cycles' = (cycles + 1) % CycleMod
  /\ op' = <<"TTCR", n>>
  /\ UNCHANGED running

(* mutant: a timer without interrupts is left as it is, its cycles lost *)
UpdatedTimerIrqOnly == IF timer.ie THEN Update(timer, lag) ELSE timer

(* update_timer.  A pending tick becomes an exception, which is the core's *)
(* business and leaves the timer alone.                                    *)
UpdatedTimer == IF Enabled(timer) THEN Update(timer, lag) ELSE timer

EndMini ==
  /\ running /\ room = 0
  /\ timer' = UpdatedTimer
  /\ lag' = 0
  /\ running' = FALSE
  /\ UNCHANGED <<room, left, record>>

Next ==
  \/ \E q \in Quanta : Advance(q)
  \/ BeginMini
  \/ \E cost \in MemCycles, breaks \in BOOLEAN : Insn(cost, breaks)
  \/ \E v \in TtmrWrites : WriteTtmr(v)
  \/ \E n \in TtcrWrites : WriteTtcr(n)
  \/ EndMini

Spec == Init /\ [][Next]_vars

(* advance() is a sequential loop its caller keeps calling: some step of it *)
(* is always taken eventually.                                              *)
FairSpec == Spec /\ WF_vars(Next)

-----------------------------------------------------------------------------

(* or1k.cpp:44-46, 92-95: between mini-quanta the timer is up to date;      *)
(* inside one, the cycles spent and the cycles still granted end no later   *)
(* than the next tick and than the quantum.                                 *)
MiniFits ==
  /\ ~running => lag = 0 /\ room = 0
  /\ room <= left
  /\ running /\ room > 0 /\ Enabled(timer) => lag + room <= NextTick(timer)

(* or1k.cpp:92-94: "during a mini quantum we are guaranteed that no timer  *)
(* exceptions can happen".  While instructions of a mini-quantum remain to *)
(* be executed, the cycles already spent in it have not reached a match.   *)
NoTickInside == running /\ room > 0 => ~MatchWithin(timer, lag)

(* "the timer may be update only afterwards" (or1k.cpp:94) loses nothing:  *)
(* when the cycles of the mini-quantum include one at which the count      *)
(* meets the period, the batch update raises the pending bit.              *)
EveryMatchRaisesTick ==
  [][EndMini /\ timer.ie /\ MatchWithin(timer, lag) => timer'.ip]_vars

(* The timer with the cycles it has not seen yet counted: what it will be  *)
(* once the mini-quantum ends.                                             *)
CountedTimer == Update(timer, lag)

Eager == INSTANCE EagerTimer WITH timer <- CountedTimer

(* Updating in batches, or1k.cpp:92-95, is counting every cycle: in each   *)
(* cycle the core spends, the counted timer moves by that one cycle, and   *)
(* if the cycle was an l.mtspr to TTMR or TTCR, by that write first; in no *)
(* other step does it move.  With writes anywhere in the mini-quantum      *)
(* (RacyWrites) this is false of the code: the cycles before the write are *)
(* counted on top of the new value.                                        *)
ImplementsEager == Eager!EagerSpec

(* A restart timer with interrupts on delivers its tick however the        *)
(* quantum is cut, unless software reprograms it first (or1k.cpp:45, 95).  *)
RestartTicks ==
  \A p \in Counts :
    (timer.mode = "RS" /\ timer.ie /\ timer.tp = p /\ ~timer.done /\ timer.count < p)
      ~> (timer.ip \/ timer.mode # "RS" \/ ~timer.ie \/ timer.tp # p)
=============================================================================
