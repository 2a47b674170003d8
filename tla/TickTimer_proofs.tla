--------------------------- MODULE TickTimer_proofs ---------------------------
(***************************************************************************)
(* Theorems about TickTimer, for every width of the count field, every     *)
(* quantum, every period and every register value.                         *)
(***************************************************************************)
EXTENDS TickTimer, Tick_proofs

-----------------------------------------------------------------------------
(* The invariant: MiniFits is inductive together with the types of the      *)
(* counters.  What the core did, cycles and op, has a type of its own.      *)

CountersOK ==
  /\ timer \in Timers
  /\ lag \in Nat /\ room \in Nat /\ left \in Nat
  /\ running \in BOOLEAN

IInv == CountersOK /\ MiniFits

RecordOK ==
  /\ cycles \in 0 .. (CycleMod - 1)
  /\ op \in {<< >>} \cup ({"TTMR"} \X Ttmrs) \cup ({"TTCR"} \X Counts)

LEMMA InitIInv == Init => IInv
<1>1. 0 \in Counts
  BY CountModAssumption DEF Counts
<1>2. TimerInit \in Timers
  BY <1>1 DEF TimerInit, Timers, Modes
<1>3. Init => CountersOK
  <2>1. 0 \in Nat /\ FALSE \in BOOLEAN
    OBVIOUS
  <2>2. QED
    BY <1>2, <2>1, Zenon DEF Init, CountersOK
<1>4. Init => MiniFits
  <2>1. 0 <= 0 /\ ~(0 > 0)
    OBVIOUS
  <2>2. QED
    BY <2>1 DEF Init, MiniFits
<1>5. QED
  BY <1>3, <1>4 DEF IInv

LEMMA AdvanceIInv ==
  ASSUME IInv, NEW q \in Quanta, Advance(q)
  PROVE  IInv'
BY TickTimerAssumption DEF IInv, CountersOK, MiniFits, Advance, Enabled, NextTick

LEMMA BeginMiniIInv ==
  ASSUME IInv, BeginMini
  PROVE  IInv'
<1>1. NextTick(timer) \in Nat \ {0}
  BY NextTickPositive DEF IInv, CountersOK
<1>2. /\ MiniLimit \in Nat /\ MiniLimit <= left
      /\ Enabled(timer) => MiniLimit <= NextTick(timer)
  BY <1>1 DEF MiniLimit, Smaller, IInv, CountersOK
<1>3. NextTick(timer)' = NextTick(timer) /\ Enabled(timer)' = Enabled(timer)
  BY DEF BeginMini, NextTick, Enabled
<1>4. lag' = 0 /\ room' = MiniLimit /\ running' /\ left' = left
  BY DEF BeginMini, IInv, MiniFits
<1>5. MiniFits'
  BY <1>1, <1>2, <1>3, <1>4 DEF MiniFits
<1>6. CountersOK'
  BY <1>2, <1>4 DEF BeginMini, IInv, CountersOK
<1>7. QED
  BY <1>5, <1>6 DEF IInv

LEMMA InsnIInv ==
  ASSUME IInv, NEW cost \in MemCycles, NEW breaks \in BOOLEAN, Insn(cost, breaks)
  PROVE  IInv'
<1>1. cost \in Nat
  BY TickTimerAssumption
<1>2. lag \in Nat /\ room \in Nat /\ left \in Nat /\ room <= left /\ room > 0
  BY DEF IInv, CountersOK, MiniFits, Insn
<1>3. NextTick(timer)' = NextTick(timer) /\ Enabled(timer)' = Enabled(timer)
  BY DEF Insn, NextTick, Enabled
<1>4. /\ room' \in Nat
      /\ room' <= left - 1
      /\ room' > 0 => room' = room - (1 + cost)
  BY <1>1, <1>2 DEF Insn
<1>5. NextTick(timer) \in Nat
  BY NextTickPositive DEF IInv, CountersOK
<1>6. MiniFits'
  BY <1>1, <1>2, <1>3, <1>4, <1>5 DEF Insn, IInv, MiniFits
<1>7. CountersOK'
  BY <1>1, <1>2, <1>4 DEF Insn, IInv, CountersOK
<1>8. QED
  BY <1>6, <1>7 DEF IInv

LEMMA WriteTtmrIInv ==
  ASSUME IInv, NEW v \in TtmrWrites, WriteTtmr(v)
  PROVE  IInv'
<1>1. timer' \in Timers
  BY SetTtmrIs, TickTimerAssumption DEF WriteTtmr, IInv, CountersOK
<1>2. room' = 0 /\ lag' = lag + 1 /\ left' = left - 1 /\ left >= 1 /\ running
  BY DEF WriteTtmr, IInv, CountersOK, MiniFits
<1>3. QED
  BY <1>1, <1>2 DEF WriteTtmr, IInv, CountersOK, MiniFits

LEMMA WriteTtcrIInv ==
  ASSUME IInv, NEW n \in TtcrWrites, WriteTtcr(n)
  PROVE  IInv'
<1>1. timer' \in Timers
  BY SetTtcrIs, TickTimerAssumption DEF WriteTtcr, IInv, CountersOK
<1>2. room' = 0 /\ lag' = lag + 1 /\ left' = left - 1 /\ left >= 1 /\ running
  BY DEF WriteTtcr, IInv, CountersOK, MiniFits
<1>3. QED
  BY <1>1, <1>2 DEF WriteTtcr, IInv, CountersOK, MiniFits

LEMMA EndMiniIInv ==
  ASSUME IInv, EndMini
  PROVE  IInv'
<1>1. timer' \in Timers
  BY UpdateType DEF EndMini, UpdatedTimer, IInv, CountersOK
<1>2. QED
  BY <1>1 DEF EndMini, IInv, CountersOK, MiniFits

(* The state a mini-quantum works with stays in range and never runs past   *)
(* the tick it was cut for (or1k.cpp:39-109).                               *)
THEOREM InvariantHolds == Spec => []IInv
<1>1. IInv /\ [Next]_vars => IInv'
  <2> SUFFICES ASSUME IInv, [Next]_vars
               PROVE  IInv'
    OBVIOUS
  <2>1. CASE UNCHANGED vars
    BY <2>1 DEF vars, IInv, CountersOK, MiniFits, Enabled, NextTick
  <2>2. QED
    BY <2>1, AdvanceIInv, BeginMiniIInv, InsnIInv, WriteTtmrIInv, WriteTtcrIInv,
       EndMiniIInv DEF Next
<1>2. QED
  BY InitIInv, <1>1, PTL DEF Spec

LEMMA RecordInvariant == Spec => []RecordOK
<1>1. Init => RecordOK
  BY TickTimerAssumption DEF Init, RecordOK
<1>2. ASSUME NEW n \in Nat
      PROVE  n % CycleMod \in 0 .. (CycleMod - 1)
  BY TickTimerAssumption
<1>3. RecordOK /\ [Next]_vars => RecordOK'
  <2> SUFFICES ASSUME RecordOK, [Next]_vars
               PROVE  RecordOK'
    OBVIOUS
  <2>1. CASE UNCHANGED record
    BY <2>1 DEF record, RecordOK
  <2>2. cycles + 1 \in Nat
    BY TickTimerAssumption DEF RecordOK
  <2>3. ASSUME NEW cost \in MemCycles, NEW breaks \in BOOLEAN, Insn(cost, breaks)
        PROVE  RecordOK'
    <3>1. cycles + 1 + cost \in Nat
      BY <2>2, TickTimerAssumption
    <3>2. QED
      BY <1>2, <2>3, <3>1 DEF Insn, RecordOK
  <2>4. ASSUME NEW v \in TtmrWrites, WriteTtmr(v)
        PROVE  RecordOK'
    BY <1>2, <2>2, <2>4, TickTimerAssumption DEF WriteTtmr, RecordOK
  <2>5. ASSUME NEW n \in TtcrWrites, WriteTtcr(n)
        PROVE  RecordOK'
    BY <1>2, <2>2, <2>5, TickTimerAssumption DEF WriteTtcr, RecordOK
  <2>6. QED
    BY <2>1, <2>3, <2>4, <2>5 DEF Next, Advance, BeginMini, EndMini, vars, record
<1>4. QED
  BY <1>1, <1>3, PTL DEF Spec

(* Type correctness of the timer, of the counters that drive it and of the  *)
(* record of what the core did.                                             *)
THEOREM TypeCorrect == Spec => []TypeOK
<1>1. IInv /\ RecordOK => TypeOK
  BY DEF IInv, CountersOK, RecordOK, TypeOK
<1>2. QED
  BY InvariantHolds, RecordInvariant, <1>1, PTL

(* The cut of the mini-quantum, or1k.cpp:44-46, is right to its last cycle. *)
THEOREM MiniFitsHolds == Spec => []MiniFits
<1>1. IInv => MiniFits
  BY DEF IInv
<1>2. QED
  BY InvariantHolds, <1>1, PTL

(* The guarantee of or1k.cpp:92-94, whatever software writes to the timer   *)
(* and whatever memory accesses cost: no tick falls due while instructions  *)
(* of the mini-quantum remain to be executed.                               *)
THEOREM NoTickInsideHolds == Spec => []NoTickInside
<1>1. IInv => NoTickInside
  <2> SUFFICES ASSUME IInv, running, room > 0
               PROVE  ~MatchWithin(timer, lag)
    BY DEF NoTickInside
  <2>1. CASE ~Enabled(timer)
    BY <2>1 DEF MatchWithin
  <2>2. CASE Enabled(timer)
    <3>1. NextTick(timer) \in Nat
      BY NextTickPositive DEF IInv, CountersOK
    <3>2. lag \in Nat /\ lag < NextTick(timer) /\ timer \in Timers
      BY <2>2, <3>1 DEF IInv, CountersOK, MiniFits
    <3>3. QED
      BY <3>2, NoMatchBeforeNextTick
  <2>3. QED
    BY <2>1, <2>2
<1>2. QED
  BY InvariantHolds, <1>1, PTL

-----------------------------------------------------------------------------
(* Nothing is lost by updating in batches.                                  *)

(* The discipline PastLimit = FALSE imposes is an invariant: the count is   *)
(* below the period whenever the timer counts.                              *)

LEMMA AheadAfterUpdate ==
  ASSUME NEW t \in Timers, NEW d \in Nat, Ahead(t)
  PROVE  Ahead(Update(t, d))
<1>1. CASE t.mode = "D" \/ t.done
  BY <1>1 DEF Update
<1>2. CASE ~(t.mode = "D" \/ t.done) /\ Crosses(t, d)
  <2>1. Update(t, d) = AtMatch(t, d)
    BY <1>2 DEF Update
  <2>2. t.tp > 0 /\ t.count < t.tp /\ t.mode \in {"RS", "OS"}
    BY <1>2 DEF Ahead, Crosses, Timers, Counts, Modes
  <2>3. CASE t.mode = "RS"
    BY <2>1, <2>2, <2>3 DEF AtMatch, Ahead, Timers
  <2>4. CASE t.mode = "OS"
    BY <2>1, <2>4 DEF AtMatch, Ahead, Timers
  <2>5. QED
    BY <2>2, <2>3, <2>4
<1>3. CASE ~(t.mode = "D" \/ t.done) /\ ~Crosses(t, d)
  <2>1. Update(t, d) = [t EXCEPT !.count = Advanced(t, d)]
    BY <1>3 DEF Update
  <2>2. t.mode # "CT" /\ t.count + d < t.tp /\ t.count + d \in 0 .. (CountMod - 1)
    BY <1>3, CountModAssumption DEF Ahead, Crosses, Timers, Counts
  <2>3. Advanced(t, d) = t.count + d
    BY <2>2, ModSmall, CountModAssumption DEF Advanced
  <2>4. QED
    BY <2>1, <2>2, <2>3 DEF Ahead, Timers
<1>4. QED
  BY <1>1, <1>2, <1>3

LEMMA AheadInvariant ==
  ASSUME PastLimit = FALSE
  PROVE  Spec => []Ahead(timer)
<1>1. Init => Ahead(timer)
  BY DEF Init, TimerInit, Ahead
<1>2. IInv /\ Ahead(timer) /\ [Next]_vars => Ahead(timer)'
  <2> SUFFICES ASSUME IInv, Ahead(timer), [Next]_vars
               PROVE  Ahead(timer)'
    OBVIOUS
  <2>1. CASE timer' = timer
    BY <2>1 DEF Ahead
  <2>2. ASSUME NEW v \in TtmrWrites, WriteTtmr(v)
        PROVE  Ahead(timer)'
    BY <2>2 DEF WriteTtmr, Ahead
  <2>3. ASSUME NEW n \in TtcrWrites, WriteTtcr(n)
        PROVE  Ahead(timer)'
    BY <2>3 DEF WriteTtcr, Ahead
  <2>4. CASE EndMini
    <3>1. timer' = Update(timer, lag) \/ timer' = timer
      BY <2>4 DEF EndMini, UpdatedTimer
    <3>2. Ahead(Update(timer, lag))
      BY AheadAfterUpdate DEF IInv, CountersOK
    <3>3. QED
      BY <3>1, <3>2, <2>1 DEF Ahead
  <2>5. QED
    BY <2>1, <2>2, <2>3, <2>4 DEF Next, Advance, BeginMini, Insn, vars
<1>3. QED
  BY InvariantHolds, <1>1, <1>2, PTL DEF Spec

(* A batch in which the count meets the period, counted cycle by cycle, is  *)
(* one that tick::update recognises.                                        *)
LEMMA MatchIsCrossing ==
  ASSUME NEW t \in Timers, NEW n \in Nat, Ahead(t), MatchWithin(t, n)
  PROVE  Crosses(t, n)
<1>1. /\ t.count \in 0 .. (CountMod - 1) /\ t.tp \in 0 .. (CountMod - 1)
      /\ t.count < t.tp
  BY DEF MatchWithin, Enabled, Ahead, Timers, Counts
<1>2. SUFFICES ASSUME t.count + n < t.tp
               PROVE  FALSE
  BY <1>1 DEF Crosses
<1>3. PICK k \in 1 .. n : (t.count + k) % CountMod = t.tp
  BY DEF MatchWithin
<1>4. t.count + k \in 0 .. (CountMod - 1)
  BY <1>1, <1>2, CountModAssumption
<1>5. (t.count + k) % CountMod = t.count + k
  BY <1>4, ModSmall, CountModAssumption
<1>6. QED
  BY <1>1, <1>2, <1>3, <1>5

(* Restart and one-shot timers never lose a tick, however long the          *)
(* mini-quantum was and whatever memory accesses cost.                      *)
THEOREM EveryMatchRaisesTickHolds ==
  ASSUME PastLimit = FALSE
  PROVE  Spec => EveryMatchRaisesTick
<1> DEFINE Raises == EndMini /\ timer.ie /\ MatchWithin(timer, lag) => timer'.ip
<1>1. IInv /\ Ahead(timer) /\ [Next]_vars => [Raises]_vars
  <2> SUFFICES ASSUME IInv, Ahead(timer), EndMini, timer.ie, MatchWithin(timer, lag)
               PROVE  timer'.ip
    OBVIOUS
  <2>1. timer \in Timers /\ lag \in Nat
    BY DEF IInv, CountersOK
  <2>2. Crosses(timer, lag)
    BY <2>1, MatchIsCrossing
  <2>3. timer' = AtMatch(timer, lag)
    BY <2>2 DEF EndMini, UpdatedTimer, Update, MatchWithin, Enabled
  <2>4. QED
    BY <2>1, <2>3 DEF AtMatch, Timers
<1>2. QED
  BY InvariantHolds, AheadInvariant, <1>1, PTL DEF Spec, EveryMatchRaisesTick

(* Counting one batch and then one more cycle is counting one longer batch, *)
(* as long as the batch ended before the tick.                              *)
LEMMA UpdateStep ==
  ASSUME NEW t \in Timers, NEW d \in Nat, Ahead(t),
         Enabled(t) => d < NextTick(t)
  PROVE  Update(Update(t, d), 1) = Update(t, d + 1)
<1>1. CASE t.mode = "D" \/ t.done
  BY <1>1 DEF Update
<1>2. CASE ~(t.mode = "D" \/ t.done)
  <2> DEFINE s == [t EXCEPT !.count = t.count + d]
  <2>1. /\ t.count \in 0 .. (CountMod - 1) /\ t.tp \in 0 .. (CountMod - 1)
        /\ t.count < t.tp /\ t.count + d < t.tp /\ t.mode # "CT"
    BY <1>2 DEF Timers, Counts, Ahead, Enabled, NextTick
  <2>2. t.count + d \in 0 .. (CountMod - 1) /\ t.count + d + 1 \in 0 .. (CountMod - 1)
    BY <2>1, CountModAssumption
  <2>3. Update(t, d) = s
    <3>1. Advanced(t, d) = t.count + d
      BY <2>2, ModSmall, CountModAssumption DEF Advanced
    <3>2. ~Crosses(t, d)
      BY <2>1 DEF Crosses
    <3>3. QED
      BY <1>2, <3>1, <3>2 DEF Update
  <2>4. /\ s.mode = t.mode /\ s.done = t.done /\ s.tp = t.tp /\ s.ie = t.ie
        /\ s.ip = t.ip /\ s.count = t.count + d
    BY DEF Timers
  <2>5. Crosses(s, 1) <=> Crosses(t, d + 1)
    BY <2>1, <2>4 DEF Crosses
  <2>6. Advanced(s, 1) = Advanced(t, d + 1)
    <3>1. t.count + d + 1 = t.count + (d + 1)
      BY <2>1
    <3>2. QED
      BY <2>4, <3>1 DEF Advanced
  <2>7. AtMatch(s, 1) = AtMatch(t, d + 1)
    BY <2>4, <2>6 DEF AtMatch, Timers
  <2>8. [s EXCEPT !.count = Advanced(s, 1)] = [t EXCEPT !.count = Advanced(t, d + 1)]
    BY <2>6 DEF Timers
  <2>9. Update(s, 1) = Update(t, d + 1)
    BY <1>2, <2>4, <2>5, <2>7, <2>8 DEF Update
  <2>10. QED
    BY <2>3, <2>9
<1>3. QED
  BY <1>1, <1>2

(* Acknowledging a tick commutes with counting a batch that ended before it.*)
LEMMA AcknowledgeCommutes ==
  ASSUME NEW t \in Timers, NEW v \in Ttmrs, NEW d \in Nat, Ahead(t),
         v.mode = t.mode, v.tp = t.tp, Enabled(t) => d < NextTick(t)
  PROVE  Update(SetTtmr(t, v), d) = SetTtmr(Update(t, d), v)
<1> DEFINE s == [t EXCEPT !.mode = v.mode, !.ie = v.ie, !.ip = v.ip, !.tp = v.tp]
<1>1. SetTtmr(t, v) = s /\ s \in Timers
  BY SetTtmrIs
<1>2. /\ s.mode = t.mode /\ s.done = t.done /\ s.tp = t.tp
      /\ s.ie = v.ie /\ s.ip = v.ip /\ s.count = t.count
  BY DEF Timers
<1>3. CASE t.mode = "D" \/ t.done
  BY <1>1, <1>2, <1>3 DEF Update
<1>4. CASE ~(t.mode = "D" \/ t.done)
  <2>1. ~Crosses(t, d) /\ ~Crosses(s, d)
    BY <1>2, <1>4 DEF Crosses, Ahead, Enabled, NextTick, Timers, Counts
  <2>2. Advanced(t, d) = Advanced(s, d)
    BY <1>2 DEF Advanced
  <2>3. Update(t, d) = [t EXCEPT !.count = Advanced(t, d)] /\ Update(t, d) \in Timers
    BY <1>4, <2>1, UpdateType DEF Update
  <2>4. Update(s, d) = [s EXCEPT !.count = Advanced(t, d)]
    BY <1>2, <1>4, <2>1, <2>2 DEF Update
  <2>5. SetTtmr(Update(t, d), v)
          = [Update(t, d) EXCEPT !.mode = v.mode, !.ie = v.ie, !.ip = v.ip, !.tp = v.tp]
    BY <2>3, SetTtmrIs
  <2>6. ASSUME NEW c
        PROVE  [[t EXCEPT !.count = c] EXCEPT !.mode = v.mode, !.ie = v.ie, !.ip = v.ip,
                                              !.tp = v.tp]
                 = [s EXCEPT !.count = c]
    BY DEF Timers
  <2> HIDE DEF s
  <2>7. Update(s, d) = SetTtmr(Update(t, d), v)
    BY <2>3, <2>4, <2>5, <2>6
  <2>8. QED
    BY <1>1, <2>7
<1>5. QED
  BY <1>3, <1>4

(* While the mini-quantum runs, the timer that counts every cycle is a      *)
(* number of cycles short of its tick.                                      *)
LEMMA LagBeforeTick ==
  ASSUME IInv, running, room > 0
  PROVE  Enabled(timer) => lag < NextTick(timer)
<1>1. NextTick(timer) \in Nat
  BY NextTickPositive DEF IInv, CountersOK
<1>2. QED
  BY <1>1 DEF IInv, CountersOK, MiniFits

(* The abstract timer runs the same class tick.                             *)
LEMMA EagerTick ==
  ASSUME NEW t, NEW d, NEW v
  PROVE  /\ Eager!Update(t, d) = Update(t, d)
         /\ Eager!SetTtmr(t, v) = SetTtmr(t, v)
         /\ Eager!SetTtcr(t, d) = SetTtcr(t, d)
         /\ Eager!Ttmrs = Ttmrs /\ Eager!Counts = Counts
         /\ Eager!TimerInit = TimerInit
<1>1. \A x, y : Eager!Update(x, y) = Update(x, y)
  BY DEF Eager!Update, Eager!Crosses, Eager!AtMatch, Eager!Advanced,
         Update, Crosses, AtMatch, Advanced
<1>2. QED
  BY <1>1 DEF Eager!SetTtmr, Eager!SetTtcr, SetTtmr, SetTtcr, Eager!Ttmrs, Ttmrs,
              Eager!Counts, Counts, Eager!Modes, Modes, Eager!TimerInit, TimerInit

LEMMA EagerInsn ==
  ASSUME IInv, RecordOK, Ahead(timer), NEW breaks \in BOOLEAN, Insn(0, breaks)
  PROVE  Eager!CyclePasses
<1>1. timer \in Timers /\ lag \in Nat
  BY DEF IInv, CountersOK
<1>2. Update(Update(timer, lag), 1) = Update(timer, lag + 1)
  BY <1>1, LagBeforeTick, UpdateStep DEF Insn
<1>3. timer' = timer /\ lag' = lag + 1
  BY <1>1 DEF Insn
<1>4. Eager!ClockTicks /\ op' = << >>
  <2>1. cycles + 1 + 0 = cycles + 1
    BY DEF RecordOK
  <2>2. QED
    BY <2>1 DEF Insn, Eager!ClockTicks
<1>5. QED
  BY <1>2, <1>3, <1>4, EagerTick DEF Eager!CyclePasses, CountedTimer

LEMMA EagerWriteTtmr ==
  ASSUME IInv, Ahead(timer), ~RacyWrites, PastLimit = FALSE,
         NEW v \in TtmrWrites, WriteTtmr(v)
  PROVE  Eager!SoftwareWritesTtmr
<1> DEFINE s == SetTtmr(timer, v)
<1>1. timer \in Timers /\ lag \in Nat /\ v \in Ttmrs
  BY TickTimerAssumption DEF IInv, CountersOK
<1>2. s \in Timers
  BY <1>1, SetTtmrIs
<1>3. timer' = s /\ lag' = lag + 1 /\ Ahead(s)
  BY DEF WriteTtmr
<1>4. Update(s, lag + 1) = Update(SetTtmr(Update(timer, lag), v), 1)
  <2>1. CASE lag = 0
    <3>1. Update(timer, lag) = timer /\ lag + 1 = 1
      BY <1>1, <2>1, UpdateZero
    <3>2. QED
      BY <3>1
  <2>2. CASE Acknowledges(v)
    <3>1. v.mode = timer.mode /\ v.tp = timer.tp
      BY <2>2 DEF Acknowledges
    <3>2. Enabled(timer) => lag < NextTick(timer)
      BY LagBeforeTick DEF WriteTtmr
    <3>3. Update(s, lag) = SetTtmr(Update(timer, lag), v)
      BY <1>1, <3>1, <3>2, AcknowledgeCommutes
    <3>4. s.mode = timer.mode /\ s.tp = timer.tp /\ s.count = timer.count
      <4>1. s = [timer EXCEPT !.mode = v.mode, !.ie = v.ie, !.ip = v.ip, !.tp = v.tp]
        BY <1>1, SetTtmrIs
      <4> HIDE DEF s
      <4>2. QED
        BY <1>1, <3>1, <4>1 DEF Timers
    <3>5. Enabled(s) => lag < NextTick(s)
      BY <3>2, <3>4 DEF Enabled, NextTick
    <3>6. Update(Update(s, lag), 1) = Update(s, lag + 1)
      BY <1>1, <1>2, <1>3, <3>5, UpdateStep
    <3>7. QED
      BY <3>3, <3>6
  <2>3. QED
    BY <2>1, <2>2 DEF WriteTtmr
<1>5. QED
  <2>1. Eager!ClockTicks /\ op' = <<"TTMR", v>>
    BY DEF WriteTtmr, Eager!ClockTicks
  <2>2. CountedTimer' = Eager!Update(Eager!SetTtmr(CountedTimer, v), 1)
    BY <1>3, <1>4, EagerTick DEF CountedTimer
  <2>3. v \in Eager!Ttmrs
    BY <1>1, EagerTick
  <2>4. QED
    BY <2>1, <2>2, <2>3, Zenon DEF Eager!SoftwareWritesTtmr

LEMMA EagerWriteTtcr ==
  ASSUME IInv, ~RacyWrites, NEW n \in TtcrWrites, WriteTtcr(n)
  PROVE  Eager!SoftwareWritesTtcr
<1>1. timer \in Timers /\ n \in Counts
  BY TickTimerAssumption DEF IInv, CountersOK
<1>2. lag = 0 /\ timer' = SetTtcr(timer, n) /\ lag' = 1
  BY DEF WriteTtcr
<1>3. Update(timer, lag) = timer
  BY <1>1, <1>2, UpdateZero
<1>4. QED
  <2>1. Eager!ClockTicks /\ op' = <<"TTCR", n>>
    BY DEF WriteTtcr, Eager!ClockTicks
  <2>2. CountedTimer' = Eager!Update(Eager!SetTtcr(CountedTimer, n), 1)
    BY <1>2, <1>3, EagerTick DEF CountedTimer
  <2>3. n \in Eager!Counts
    BY <1>1, EagerTick
  <2>4. QED
    BY <2>1, <2>2, <2>3, Zenon DEF Eager!SoftwareWritesTtcr

LEMMA EagerEndMini ==
  ASSUME IInv, EndMini
  PROVE  CountedTimer' = CountedTimer
<1>1. timer \in Timers /\ lag \in Nat
  BY DEF IInv, CountersOK
<1>2. timer' = Update(timer, lag) /\ lag' = 0
  BY DEF EndMini, UpdatedTimer, Update, Enabled
<1>3. Update(Update(timer, lag), 0) = Update(timer, lag)
  BY <1>1, UpdateType, UpdateZero
<1>4. QED
  BY <1>2, <1>3 DEF CountedTimer

(* The batch update implements the timer that counts every cycle and takes  *)
(* every write in its cycle, when instructions take one cycle and software  *)
(* starts the timer below its period and reprograms it only at the start of *)
(* a mini-quantum (an acknowledgement may come anywhere).  No cycle is lost *)
(* or counted twice, and no register changes but by the write of the step.  *)
THEOREM BatchesImplementEager ==
  ASSUME MemCycles = {0}, ~RacyWrites, PastLimit = FALSE
  PROVE  Spec => ImplementsEager
<1>1. Init => Eager!EagerInit
  <2>1. TimerInit \in Timers
    BY CountModAssumption DEF TimerInit, Timers, Counts, Modes
  <2>2. QED
    BY <2>1, UpdateZero, EagerTick DEF Init, CountedTimer, Eager!EagerInit
<1>2. IInv /\ RecordOK /\ Ahead(timer) /\ [Next]_vars
        => [Eager!EagerNext]_<<CountedTimer, cycles, op>>
  <2> SUFFICES ASSUME IInv, RecordOK, Ahead(timer), [Next]_vars
               PROVE  Eager!EagerNext \/ UNCHANGED <<CountedTimer, cycles, op>>
    OBVIOUS
  <2>1. CASE UNCHANGED <<timer, lag, record>>
    BY <2>1 DEF CountedTimer, record
  <2>2. ASSUME NEW cost \in MemCycles, NEW breaks \in BOOLEAN, Insn(cost, breaks)
        PROVE  Eager!EagerNext
    BY <2>2, EagerInsn DEF Eager!EagerNext
  <2>3. ASSUME NEW v \in TtmrWrites, WriteTtmr(v)
        PROVE  Eager!EagerNext
    BY <2>3, EagerWriteTtmr DEF Eager!EagerNext
  <2>4. ASSUME NEW n \in TtcrWrites, WriteTtcr(n)
        PROVE  Eager!EagerNext
    BY <2>4, EagerWriteTtcr DEF Eager!EagerNext
  <2>5. CASE EndMini
    BY <2>5, EagerEndMini DEF EndMini, record
  <2>6. QED
    BY <2>1, <2>2, <2>3, <2>4, <2>5 DEF Next, Advance, BeginMini, vars, record
<1>3. QED
  BY InvariantHolds, RecordInvariant, AheadInvariant, <1>1, <1>2, PTL
     DEF Spec, ImplementsEager, Eager!EagerSpec
=============================================================================
