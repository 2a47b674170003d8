----------------------------- MODULE EagerTimer -----------------------------
(***************************************************************************)
(* What the tick timer promises to software: it counts every clock cycle   *)
(* as the cycle passes (the default argument of tick::update, delta = 1),  *)
(* and a register write takes effect in the cycle of its l.mtspr.          *)
(*                                                                         *)
(* cycles (m_cycles) and op (the l.mtspr of the cycle, if it was one) are  *)
(* what the core did.  They are the interface: a step here needs the       *)
(* clock to move by one and the register to have been written, with that   *)
(* value, in that cycle.                                                   *)
(***************************************************************************)
EXTENDS Tick

CONSTANT CycleMod    \* m_cycles is an unsigned 64 bit number: 2^64

VARIABLES timer, cycles, op

EagerInit == timer = TimerInit /\ cycles = 0 /\ op = << >>

ClockTicks == cycles' = (cycles + 1) % CycleMod

CyclePasses ==
  /\ ClockTicks
  /\ op' = << >>
  /\ timer' = Update(timer, 1)

SoftwareWritesTtmr ==
  \E v \in Ttmrs :
    /\ ClockTicks
    /\ op' = <<"TTMR", v>>
    /\ timer' = Update(SetTtmr(timer, v), 1)

SoftwareWritesTtcr ==
  \E n \in Counts :
    /\ ClockTicks
    /\ op' = <<"TTCR", n>>
    /\ timer' = Update(SetTtcr(timer, n), 1)

EagerNext == CyclePasses \/ SoftwareWritesTtmr \/ SoftwareWritesTtcr

EagerSpec == EagerInit /\ [][EagerNext]_<<timer, cycles, op>>
=============================================================================
