------------------------------- MODULE Listing -------------------------------
(***************************************************************************)
(* The disassembler (disasm.cpp): the operands that it prints behind the    *)
(* name of an instruction.  It reads the fields of the word anew, apart     *)
(* from the decoder.                                                        *)
(***************************************************************************)
EXTENDS Decode

\* what is printed of a field: a register number, or the value of an immediate
Printed(n) == [kind |-> "value", n |-> n]
ImmI(w)  == Printed(SignExtend(Low26(w), 15))
ImmI2Low(w) == Printed(SignExtend(Low26(w), 15))                    \* mutant
ImmI2(w) == Printed(SignExtend(SplitK(w), 15))

ImmK(w)  == Printed(Bits(w, 15, 0))
ImmK2(w) == Printed(SplitK(w))
ImmL(w)  == Printed(Bits(w, 5, 0))
ImmN(w)  == Printed(SignExtend(Low26(w), 25))

ThreeRegs == AluOps \cup DoubleOps \cup (FpOps \ (FpCompareOps \cup FpConvertOps))
TwoRegs   == ExtOps \cup FindOps \cup FpConvertOps

Listed(op, w) ==
  CASE op = "l.nop"   -> <<ImmK(w)>>
    [] op = "l.mfspr" -> <<RegD(w), RegA(w), ImmK(w)>>
    [] op = "l.mtspr" -> <<RegA(w), RegB(w), ImmK2(w)>>
    [] op = "l.movhi" -> <<RegD(w), ImmK(w)>>
    [] op \in {"l.bf", "l.bnf", "l.j", "l.jal"} -> <<ImmN(w)>>
    [] op \in {"l.jr", "l.jalr"}   -> <<RegB(w)>>
    [] op \in LoadOps \ {"l.lwa"}  -> <<RegD(w), ImmI(w), RegA(w)>>
    [] op \in StoreOps \ {"l.swa"} -> <<ImmI2(w), RegA(w), RegB(w)>>
    [] op \in ThreeRegs -> <<RegD(w), RegA(w), RegB(w)>>
    [] op \in TwoRegs   -> <<RegD(w), RegA(w)>>
    [] op \in {"l.addi", "l.addic", "l.xori"} -> <<RegD(w), RegA(w), ImmI(w)>>
    [] op \in {"l.andi", "l.ori", "l.muli"}   -> <<RegD(w), RegA(w), ImmK(w)>>
    [] op \in ShiftImmOps -> <<RegD(w), RegA(w), ImmL(w)>>
    [] op \in CompareOps \cup FpCompareOps -> <<RegA(w), RegB(w)>>
    [] op \in CompareImmOps -> <<RegA(w), ImmI(w)>>
    [] OTHER -> <<>>
=============================================================================
