------------------------------- MODULE MCInsn -------------------------------
(* Instances of Insn for TLC. *)
EXTENDS Insn, TLC

WordOf(op, dd, a, b, lo) == [op |-> op, d |-> dd, a |-> a, b |-> b, lo |-> lo]

\* every major opcode with fields at their limits, and every extended opcode
MCDecodeWords ==
  {WordOf(op, dd, a, b, lo) : op \in 0..63, dd \in {0, 8, 9, 16, 20, 31},
                              a \in {0, 1, 31}, b \in {0, 3, 31}, lo \in {0, 5, 1024, 2047}}
  \cup {WordOf(op, dd, 1, 2, lo) : op \in {47, 57}, dd \in 0..31, lo \in {0, 2047}}
  \cup {WordOf(op, 7, 1, 2, lo) : op \in {46, 49, 50, 56}, lo \in 0..1023}

\* one word for each instruction of a unit, its fields far from each other
WordsDoing(execs) ==
  {w \in MCDecodeWords : LET op == DecodeWord(w)
                         IN  /\ op \notin CustomOps \cup {Invalid}
                             /\ Decoded(op, w).exec \in execs}
OnePerOp(words) == {CHOOSE w \in words : DecodeWord(w) = op : op \in {DecodeWord(w) : w \in words}}
Register(words) == {w \in words : Decoded(DecodeWord(w), w).src2 # Imm}

UnitWords == "decode" :> MCDecodeWords
  @@ "int" :> OnePerOp(WordsDoing(IntegerExecs))
  @@ "mac" :> OnePerOp(Register(WordsDoing(MacOps \cup DoubleOps)))
  @@ "lsu" :> OnePerOp(WordsDoing(Loads \cup Stores))
  @@ "spr" :> OnePerOp(WordsDoing({"l.mfspr", "l.mtspr", "l.rfe"}))
  @@ "fpu" :> OnePerOp(WordsDoing(FpOps))
MCWords(unit) == UnitWords[unit]

Values(xs, ys, ds, regs) == [x : xs, y : ys, d : ds, reg : regs]
\* the registers with a store, and some of each kind that has none
MCRegs == Stored
          \cup {"SR", "VR", "DCFGR", "DMMUPR", "DATB", "DTLBEIR", "ICBIR", "DCBFR", Unchecked}

\* both ends of the signed and of the unsigned numbers
Edges == {0, 1, 2, 7, 8, 9, 14, 15}
MCOperands(unit) ==
  CASE unit \in {"decode", "fpu"} -> Values({0}, {0}, {0}, {None})
    [] unit = "int" -> Values(Edges, Edges, {0}, {None})
    [] unit = "mac" -> Values({1, 7, 8, 15}, {1, 7, 8, 15}, {0}, {None})
    [] unit = "lsu" -> Values(0..3, Word, {0, Size - 1}, {None})
    [] unit = "spr" -> Values({0, 3}, {0}, {0}, MCRegs)

Base == [unit |-> "int", ove |-> FALSE, aecr |-> {}, slot |-> FALSE, sm |-> FALSE,
         sumra |-> FALSE, level |-> FALSE, fpee |-> FALSE]
On(aecr) == [Base EXCEPT !.ove = TRUE, !.aecr = aecr]
Carries   == {"CYADDE", "CYMULE", "CYMACADDE"}
Overflows == {"OVADDE", "OVMULE", "OVMACADDE", "DBZE"}
MCSetups ==
  {[Base EXCEPT !.unit = "decode"], [Base EXCEPT !.aecr = Carries], On(Carries), On(Overflows)}
  \cup {[On(Carries \cup Overflows) EXCEPT !.slot = slot] : slot \in BOOLEAN}
  \cup {[On(aecr) EXCEPT !.unit = "mac"] : aecr \in {{}, Carries \cup Overflows}}
  \cup {[Base EXCEPT !.unit = "lsu", !.slot = slot] : slot \in BOOLEAN}
  \cup {[Base EXCEPT !.unit = "spr", !.sm = sm, !.sumra = sumra] :
          sm \in BOOLEAN, sumra \in BOOLEAN}
  \cup {[Base EXCEPT !.unit = "spr", !.sm = TRUE, !.level = TRUE]}
  \cup {[Base EXCEPT !.unit = "fpu", !.slot = slot, !.fpee = fpee] :
          slot \in BOOLEAN, fpee \in BOOLEAN}
=============================================================================
