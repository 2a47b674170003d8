----------------------------- MODULE Tick_proofs -----------------------------
(***************************************************************************)
(* Lemmas about the operators of Tick, for every width of the count field. *)
(***************************************************************************)
EXTENDS Tick, TLAPS

-----------------------------------------------------------------------------
(* Arithmetic of the count field, which wraps at CountMod.                 *)

LEMMA ModSmall ==
  ASSUME NEW m \in Nat \ {0}, NEW a \in 0 .. (m - 1)
  PROVE  a % m = a
OBVIOUS

LEMMA ModWrapped ==
  ASSUME NEW m \in Nat \ {0}, NEW a \in m .. (2 * m - 1)
  PROVE  a % m = a - m
OBVIOUS

LEMMA ModRange ==
  ASSUME NEW m \in Nat \ {0}, NEW a \in Nat
  PROVE  a % m \in 0 .. (m - 1)
OBVIOUS

-----------------------------------------------------------------------------
(* Lemmas about class tick.                                                *)

(* tick::update yields a timer. *)
LEMMA UpdateType ==
  ASSUME NEW t \in Timers, NEW d \in Nat
  PROVE  Update(t, d) \in Timers
<1>1. Advanced(t, d) \in Counts
  <2>1. t.count + d \in Nat
    BY DEF Timers, Counts
  <2>2. (t.count + d) % CountMod \in 0 .. (CountMod - 1)
    BY <2>1, ModRange, CountModAssumption
  <2>3. QED
    BY <2>2 DEF Advanced, Counts
<1>2. 0 \in Counts /\ t.tp \in Counts
  BY CountModAssumption DEF Timers, Counts
<1>3. AtMatch(t, d) \in Timers
  BY <1>1, <1>2 DEF AtMatch, Timers
<1>4. [t EXCEPT !.count = Advanced(t, d)] \in Timers
  BY <1>1 DEF Timers
<1>5. QED
  BY <1>3, <1>4 DEF Update

(* update(0), which every register write ends with, changes nothing. *)
LEMMA UpdateZero ==
  ASSUME NEW t \in Timers
  PROVE  Update(t, 0) = t
<1>1. t.count \in 0 .. (CountMod - 1)
  BY DEF Timers, Counts
<1>2. Advanced(t, 0) = t.count
  BY <1>1, ModSmall, CountModAssumption DEF Advanced
<1>3. ~Crosses(t, 0)
  BY <1>1 DEF Crosses, Timers, Counts
<1>4. [t EXCEPT !.count = t.count] = t
  BY DEF Timers
<1>5. QED
  BY <1>2, <1>3, <1>4 DEF Update

LEMMA SetTtmrIs ==
  ASSUME NEW t \in Timers, NEW v \in Ttmrs
  PROVE  /\ SetTtmr(t, v) \in Timers
         /\ SetTtmr(t, v) = [t EXCEPT !.mode = v.mode, !.ie = v.ie,
                                      !.ip = v.ip, !.tp = v.tp]
<1> DEFINE s == [t EXCEPT !.mode = v.mode, !.ie = v.ie, !.ip = v.ip, !.tp = v.tp]
<1>1. s \in Timers
  BY DEF Timers, Ttmrs
<1>2. QED
  BY <1>1, UpdateZero DEF SetTtmr

LEMMA SetTtcrIs ==
  ASSUME NEW t \in Timers, NEW n \in Counts
  PROVE  /\ SetTtcr(t, n) \in Timers
         /\ SetTtcr(t, n) = [t EXCEPT !.count = n, !.done = FALSE]
<1> DEFINE s == [t EXCEPT !.count = n, !.done = FALSE]
<1>1. s \in Timers
  BY DEF Timers
<1>2. QED
  BY <1>1, UpdateZero DEF SetTtcr

(* tick::next_tick is a positive distance that no match lies within. *)
LEMMA NoMatchBeforeNextTick ==
  ASSUME NEW t \in Timers, NEW n \in Nat, n < NextTick(t)
  PROVE  ~MatchWithin(t, n)
<1>1. t.count \in 0 .. (CountMod - 1) /\ t.tp \in 0 .. (CountMod - 1)
  BY DEF Timers, Counts
<1>2. ASSUME NEW k \in 1 .. n
      PROVE  (t.count + k) % CountMod # t.tp
  <2>1. CASE t.count < t.tp
    <3>1. t.count + k < t.tp
      BY <1>1, <2>1 DEF NextTick
    <3>2. t.count + k \in 0 .. (CountMod - 1)
      BY <1>1, <3>1, CountModAssumption
    <3>3. (t.count + k) % CountMod = t.count + k
      BY <3>2, ModSmall, CountModAssumption
    <3>4. QED
      BY <1>1, <3>1, <3>3
  <2>2. CASE ~(t.count < t.tp) /\ t.count + k < CountMod
    <3>1. t.count + k \in 0 .. (CountMod - 1)
      BY <1>1, <2>2, CountModAssumption
    <3>2. (t.count + k) % CountMod = t.count + k
      BY <3>1, ModSmall, CountModAssumption
    <3>3. QED
      BY <1>1, <2>2, <3>2
  <2>3. CASE ~(t.count < t.tp) /\ ~(t.count + k < CountMod)
    <3>1. k < (CountMod - t.count) + t.tp
      BY <1>1, <2>3, CountModAssumption DEF NextTick
    <3>2. t.count + k \in CountMod .. (2 * CountMod - 1)
      BY <1>1, <2>3, <3>1, CountModAssumption
    <3>3. (t.count + k) % CountMod = (t.count + k) - CountMod
      BY <3>2, ModWrapped, CountModAssumption
    <3>4. QED
      BY <1>1, <3>1, <3>3, CountModAssumption
  <2>4. QED
    BY <2>1, <2>2, <2>3
<1>3. QED
  BY <1>2 DEF MatchWithin

LEMMA NextTickPositive ==
  ASSUME NEW t \in Timers
  PROVE  NextTick(t) \in Nat \ {0}
BY CountModAssumption DEF NextTick, Timers, Counts
=============================================================================
