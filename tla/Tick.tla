-------------------------------- MODULE Tick --------------------------------
(***************************************************************************)
(* The OpenRISC tick timer, class tick of or1kiss, as operators on a       *)
(* record.  TTMR is split into its fields (mode, ie, ip, tp); of TTCR only *)
(* the count field, bits 27..0, is kept: the timer never reads the four    *)
(* bits above it.  CountMod is 2^28 in the code.                           *)
(***************************************************************************)
EXTENDS Integers

CONSTANT CountMod

ASSUME CountModAssumption == CountMod \in Nat \ {0}

(* enum timer_mode: disabled, restart, one-shot, continue *)
Modes == {"D", "RS", "OS", "CT"}

Counts == 0 .. (CountMod - 1)

(* what a write to SPR_TTMR carries: mode, TM_IE, TM_IP and the time period *)
Ttmrs == [mode : Modes, ie : BOOLEAN, ip : BOOLEAN, tp : Counts]

Timers == [mode : Modes, ie : BOOLEAN, ip : BOOLEAN, tp : Counts,
           count : Counts, done : BOOLEAN]

TimerInit == [mode |-> "D", ie |-> FALSE, ip |-> FALSE, tp |-> 0,
              count |-> 0, done |-> FALSE]

Enabled(t) == t.mode # "D"

(* mutant: the tick is expected one cycle late *)
NextTickLate(t) ==
  IF t.count < t.tp THEN t.tp - t.count + 1
                    ELSE (CountMod - t.count) + t.tp + 1

NextTick(t) ==
  IF t.count < t.tp THEN t.tp - t.count
                    ELSE (CountMod - t.count) + t.tp

(* mutants: the period must be hit exactly, or passed *)
CrossesExactly(t, delta) == t.count < t.tp /\ t.count + delta = t.tp
CrossesPast(t, delta) == t.count < t.tp /\ t.count + delta > t.tp

Crosses(t, delta) == t.count < t.tp /\ t.count + delta >= t.tp

Advanced(t, delta) == (t.count + delta) % CountMod

(* mutant: a one-shot timer does not stop at its period *)
AtMatchRunsOn(t, delta) ==
  [t EXCEPT !.count = IF t.mode = "RS" THEN 0 ELSE t.count + delta,
            !.done = (t.mode = "OS"),
            !.ip = t.ip \/ t.ie]

(* The count meets the period: restart from zero, stop, or count on. *)
AtMatch(t, delta) ==
  [t EXCEPT !.count = IF t.mode = "RS" THEN 0
                      ELSE IF t.mode = "OS" THEN t.tp ELSE Advanced(t, delta),
            !.done = (t.mode = "OS"),
            !.ip = t.ip \/ t.ie]

(* tick::update: delta cycles have passed since the last update *)
Update(t, delta) ==
  IF t.mode = "D" \/ t.done THEN t
  ELSE IF Crosses(t, delta) THEN AtMatch(t, delta)
  ELSE [t EXCEPT !.count = Advanced(t, delta)]

(* The whole register is replaced, the pending bit with it; m_done stays. *)
SetTtmr(t, v) ==
  Update([t EXCEPT !.mode = v.mode, !.ie = v.ie, !.ip = v.ip, !.tp = v.tp], 0)

SetTtcr(t, n) == Update([t EXCEPT !.count = n, !.done = FALSE], 0)

(* A match by counting: among the next n cycles, one brings the count      *)
(* field to the time period.  The reference for what Crosses decides on    *)
(* a whole batch of cycles at once.                                        *)
MatchWithin(t, n) ==
  /\ Enabled(t) /\ ~t.done
  /\ \E k \in 1 .. n : (t.count + k) % CountMod = t.tp
=============================================================================
