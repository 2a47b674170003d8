----------------------------- MODULE MCTickTimer -----------------------------
(* Instances of TickTimer for TLC: an 8-cycle count field instead of 2^28.  *)
EXTENDS TickTimer

Ttmr(m, p) == [mode : {m}, ie : BOOLEAN, ip : BOOLEAN, tp : {p}]

(* quanta shorter than, equal to and longer than a period and a wrap-around *)
MCQuanta == {1, 4, 11}

NoExtraCycles == {0}
SomeExtraCycles == {0, 2}

(* restart and one-shot timers, switched on, acknowledged and switched off *)
MCTtmrWrites == Ttmr("RS", 3) \cup Ttmr("RS", 6) \cup Ttmr("OS", 3)
                  \cup Ttmr("D", 0) \cup Ttmr("D", 3)

MCTtcrWrites == {0, 2}

NoWrites == {}
=============================================================================
