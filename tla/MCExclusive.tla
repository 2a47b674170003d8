---- MODULE MCExclusive ----
(* Instances of Exclusive for TLC. *)
EXTENDS Exclusive
CONSTANTS a, b, p, c1, c2
Task == {a}
Handler == {b}
Pte == {p}
TwoCores == {c1, c2}
====
