------------------------------- MODULE Decode -------------------------------
(***************************************************************************)
(* The instruction decoder (decode.cpp, the table of or1k.cpp): which       *)
(* instruction a word is, which handler executes it and which registers and *)
(* immediate the handler finds.  Words have their full width: the six bits  *)
(* 31..26, and the fields 25..21, 20..16, 15..11 and 10..0.                 *)
(***************************************************************************)
EXTENDS Integers, Sequences

Invalid == "invalid opcode"

\* bits32() of the 26 low bits of a word
Low26(w) == (((((w.d * 32) + w.a) * 32) + w.b) * 2048) + w.lo
Bits(w, l, r) == (Low26(w) \div 2^r) % 2^(l - r + 1)

\* sign_extend32(): bits above i are dropped
SignExtend(v, i) ==
  LET m == v % 2^(i + 1)
  IN  IF m >= 2^i THEN m - 2^(i + 1) ELSE m

Pick(table, key) == IF key \in DOMAIN table THEN table[key] ELSE Invalid
-----------------------------------------------------------------------------
(* decode(): bits 31..26 decide, then longer and longer prefixes. *)

\* by bits 3..0
Alu0 == <<"l.add", "l.addc", "l.sub", "l.and", "l.or", "l.xor", Invalid, Invalid, Invalid,
          Invalid, Invalid, Invalid, Invalid, Invalid, "l.cmov", "l.ff1">>
Alu3 == <<Invalid, Invalid, Invalid, Invalid, Invalid, Invalid, "l.mul", "l.muld", Invalid,
          "l.div", "l.divu", "l.mulu", "l.muldu">>
\* where the first table has nothing, by bits 7..6
AluShift(key, i) ==
  CASE key = 8  -> Pick(<<"l.sll", "l.srl", "l.sra", "l.ror">>, i)
    [] key = 12 -> Pick(<<"l.exths", "l.extbs", "l.exthz", "l.extbz">>, i)
    [] key = 13 -> Pick(<<"l.extws", "l.extwz">>, i)
    [] OTHER    -> Invalid

DecodeAlu(w) ==
  LET key == Bits(w, 3, 0)
  IN  CASE Bits(w, 9, 8) = 0 -> IF Alu0[key + 1] # Invalid THEN Alu0[key + 1]
                                ELSE AluShift(key, Bits(w, 7, 6) + 1)
        [] Bits(w, 9, 8) = 1 -> IF key = 15 THEN "l.fl1" ELSE Invalid
        [] Bits(w, 9, 8) = 2 -> Invalid
        [] Bits(w, 9, 8) = 3 -> Pick(Alu3, key + 1)

DecodeUtil(w) == IF Bits(w, 16, 0) = 2^16 THEN "l.macrc"
                 ELSE IF Bits(w, 16, 16) = 0 THEN "l.movhi" ELSE Invalid

DecodeShift(w) == <<"l.slli", "l.srli", "l.srai", "l.rori">>[Bits(w, 7, 6) + 1]

DecodeMac(w) == Pick(<<"l.mac", "l.msb", "l.macu", "l.msbu">>, Bits(w, 3, 0))

FpxSingle == <<"lf.add.s", "lf.sub.s", "lf.mul.s", "lf.div.s", "lf.itof.s", "lf.ftoi.s",
               "lf.rem.s", "lf.madd.s", "lf.sfeq.s", "lf.sfne.s", "lf.sfgt.s",
               "lf.sfge.s", "lf.sflt.s", "lf.sfle.s">>
FpxDouble == <<"lf.add.d", "lf.sub.d", "lf.mul.d", "lf.div.d", "lf.itof.d", "lf.ftoi.d",
               "lf.rem.d", "lf.madd.d", "lf.sfeq.d", "lf.sfne.d", "lf.sfgt.d",
               "lf.sfge.d", "lf.sflt.d", "lf.sfle.d">>
DecodeFpx(w) ==
  LET c == Bits(w, 7, 0)
  IN  CASE c \div 16 = 0  -> Pick(FpxSingle, (c % 16) + 1)
        [] c \div 16 = 1  -> Pick(FpxDouble, (c % 16) + 1)
        [] c \div 16 = 13 -> "lf.cust1.s"
        [] c \div 16 = 14 -> "lf.cust1.d"
        [] OTHER          -> Invalid

\* one instruction for all of bits 31..26; 0x20 and 0x34 are refused
Major(op) ==
  CASE op = 0  -> "l.j"     [] op = 1  -> "l.jal"   [] op = 3  -> "l.bnf"   [] op = 4  -> "l.bf"
    [] op = 17 -> "l.jr"    [] op = 18 -> "l.jalr"  [] op = 39 -> "l.addi"  [] op = 40 -> "l.addic"
    [] op = 41 -> "l.andi"  [] op = 42 -> "l.ori"   [] op = 43 -> "l.xori"  [] op = 44 -> "l.muli"
    [] op = 27 -> "l.lwa"   [] op = 33 -> "l.lwz"   [] op = 34 -> "l.lws"   [] op = 35 -> "l.lbz"
    [] op = 36 -> "l.lbs"   [] op = 37 -> "l.lhz"   [] op = 38 -> "l.lhs"   [] op = 51 -> "l.swa"
    [] op = 53 -> "l.sw"    [] op = 54 -> "l.sb"    [] op = 55 -> "l.sh"    [] op = 9  -> "l.rfe"
    [] op = 45 -> "l.mfspr" [] op = 48 -> "l.mtspr" [] op = 19 -> "l.maci"
    [] op = 28 -> "l.cust1" [] op = 29 -> "l.cust2" [] op = 30 -> "l.cust3" [] op = 31 -> "l.cust4"
    [] op = 60 -> "l.cust5" [] op = 61 -> "l.cust6" [] op = 62 -> "l.cust7" [] op = 63 -> "l.cust8"
    [] OTHER   -> Invalid

Comparisons == <<"l.sfeq", "l.sfne", "l.sfgtu", "l.sfgeu", "l.sfltu", "l.sfleu">>
SignedComparisons == <<"l.sfgts", "l.sfges", "l.sflts", "l.sfles">>
ImmComparisons == <<"l.sfeqi", "l.sfnei", "l.sfgtui", "l.sfgeui", "l.sfltui", "l.sfleui">>
SignedImmComparisons == <<"l.sfgtsi", "l.sfgesi", "l.sfltsi", "l.sflesi">>
DecodeComparison(w) ==
  CASE w.op = 57 /\ w.d < 10  -> Pick(Comparisons, w.d + 1)
    [] w.op = 57 /\ w.d >= 10 -> Pick(SignedComparisons, w.d - 9)
    [] w.op = 47 /\ w.d < 10  -> Pick(ImmComparisons, w.d + 1)
    [] w.op = 47 /\ w.d >= 10 -> Pick(SignedImmComparisons, w.d - 9)

\* the words that end with the system group are compared in full
DecodeSystem(w) ==
  CASE w.d = 0 /\ w.a = 0 -> "l.sys"
    [] w.d = 8 /\ w.a = 0 -> "l.trap"
    [] w.d = 16 /\ Bits(w, 20, 0) = 0 -> "l.msync"
    [] w.d = 20 /\ Bits(w, 20, 0) = 0 -> "l.psync"
    [] w.d = 24 /\ Bits(w, 20, 0) = 0 -> "l.csync"
    [] OTHER -> Invalid

DecodeWord(w) ==
  CASE w.op = 56 -> DecodeAlu(w)
    [] w.op = 6  -> DecodeUtil(w)
    [] w.op = 46 -> DecodeShift(w)
    [] w.op = 49 -> DecodeMac(w)
    [] w.op = 50 -> DecodeFpx(w)
    [] w.op = 5  -> IF Bits(w, 25, 24) = 1 THEN "l.nop" ELSE Invalid
    [] w.op \in {47, 57} -> DecodeComparison(w)
    [] w.op = 8  -> DecodeSystem(w)
    [] OTHER     -> Major(w.op)
-----------------------------------------------------------------------------
(* The handlers of the decode table: operands and the function to execute. *)
(* An immediate is the signed number that its 32 bits stand for.           *)

Null == [kind |-> "null"]
Reg(n) == [kind |-> "reg", n |-> n]
Imm == [kind |-> "imm"]           \* a pointer to the immediate itself

Ci(op, dest, src1, src2, imm, exec) ==
  [op |-> op, dest |-> dest, src1 |-> src1, src2 |-> src2, imm |-> imm, exec |-> exec]

RegD(w) == Reg(w.d)
RegA(w) == Reg(w.a)
RegB(w) == Reg(w.b)
FieldK(w) == Bits(w, 15, 0)
FieldI(w) == SignExtend(FieldK(w), 15)
SplitK(w) == (w.d * 2048) + w.lo
SplitI(w) == SignExtend(SplitK(w), 15)
FieldN(w) == SignExtend(4 * Bits(w, 25, 0), 27)

MoveOps == {"l.mfspr", "l.mtspr", "l.movhi", "l.nop"}
DecodeMove(op, w) ==
  CASE op = "l.mfspr" -> Ci(op, RegD(w), RegA(w), Imm, FieldK(w), op)
    [] op = "l.mtspr" -> Ci(op, RegA(w), RegB(w), Imm, SplitK(w), op)
    [] op = "l.movhi" -> Ci(op, RegD(w), Null, Null, SignExtend(FieldK(w), 15) * 2^16, op)
    [] op = "l.nop"   -> Ci(op, Null, Reg(3), Null, FieldK(w), op)

JumpOps == {"l.bf", "l.bnf", "l.j", "l.jal", "l.jr", "l.jalr"}
DecodeJump(op, w) ==
  LET link == IF op \in {"l.jal", "l.jalr"} THEN Reg(9) ELSE Null
  IN  CASE op \in {"l.bf", "l.bnf"}  -> Ci(op, Null, Null, Null, FieldN(w), op)
        [] op \in {"l.j", "l.jal"}   -> Ci(op, Null, link, Imm, FieldN(w), "jump_rel")
        [] op \in {"l.jr", "l.jalr"} -> Ci(op, Null, link, RegB(w), 0, "jump_abs")

LoadOps == {"l.lwa", "l.lwz", "l.lws", "l.lhz", "l.lhs", "l.lbz", "l.lbs"}
DecodeLoad(op, w) ==
  Ci(op, RegD(w), RegA(w), Null, FieldI(w), IF op \in {"l.lwz", "l.lws"} THEN "l.lw" ELSE op)

DecodeStoreNoData(op, w) == Ci(op, Null, RegA(w), Null, SplitI(w), op)  \* mutant
StoreOps == {"l.swa", "l.sw", "l.sh", "l.sb"}
DecodeStore(op, w) == Ci(op, Null, RegA(w), RegB(w), SplitI(w), op)

ExtOps == {"l.extwz", "l.extws", "l.exthz", "l.exths", "l.extbz", "l.extbs"}
FindOps == {"l.ff1", "l.fl1"}
DecodeUnary(op, w) ==
  Ci(op, RegD(w), RegA(w), Null, 0, IF op \in {"l.extwz", "l.extws"} THEN "l.extw" ELSE op)

AluOps == {"l.add", "l.addc", "l.sub", "l.and", "l.or", "l.xor", "l.cmov",
           "l.sll", "l.srl", "l.sra", "l.ror", "l.mul", "l.mulu", "l.div", "l.divu"}
DecodeAluRegs(op, w) == Ci(op, RegD(w), RegA(w), RegB(w), 0, op)

\* the product goes to the accumulator
DoubleOps == {"l.muld", "l.muldu"}
DecodeDouble(op, w) == Ci(op, Null, RegA(w), RegB(w), 0, op)

\* the function behind an instruction with an immediate
ImmExec(op) ==
  CASE op = "l.addi"   -> "l.add"   [] op = "l.addic"  -> "l.addc"  [] op = "l.xori"   -> "l.xor"
    [] op = "l.muli"   -> "l.mul"   [] op = "l.andi"   -> "l.and"   [] op = "l.ori"    -> "l.or"
    [] op = "l.slli"   -> "l.sll"   [] op = "l.srli"   -> "l.srl"   [] op = "l.srai"   -> "l.sra"
    [] op = "l.rori"   -> "l.ror"   [] op = "l.sfeqi"  -> "l.sfeq"  [] op = "l.sfnei"  -> "l.sfne"
    [] op = "l.sfgtui" -> "l.sfgtu" [] op = "l.sfgeui" -> "l.sfgeu" [] op = "l.sfltui" -> "l.sfltu"
    [] op = "l.sfleui" -> "l.sfleu" [] op = "l.sfgtsi" -> "l.sfgts" [] op = "l.sfgesi" -> "l.sfges"
    [] op = "l.sfltsi" -> "l.sflts" [] op = "l.sflesi" -> "l.sfles"

SignedImmOps   == {"l.addi", "l.addic", "l.xori", "l.muli"}
UnsignedImmOps == {"l.andi", "l.ori"}
DecodeAluImm(op, w) ==
  Ci(op, RegD(w), RegA(w), Imm, IF op \in SignedImmOps THEN FieldI(w) ELSE FieldK(w), ImmExec(op))

ShiftImmOps == {"l.slli", "l.srli", "l.srai", "l.rori"}
DecodeShiftImm(op, w) == Ci(op, RegD(w), RegA(w), Imm, Bits(w, 5, 0), ImmExec(op))

AsSet(seq) == {seq[i] : i \in DOMAIN seq}
CompareOps == AsSet(Comparisons) \cup AsSet(SignedComparisons)
DecodeCompare(op, w) == Ci(op, Null, RegA(w), RegB(w), 0, op)

CompareImmOps == AsSet(ImmComparisons) \cup AsSet(SignedImmComparisons)
DecodeCompareImm(op, w) == Ci(op, Null, RegA(w), Imm, FieldI(w), ImmExec(op))

MacOps == {"l.mac", "l.macu", "l.msb", "l.msbu", "l.maci", "l.macrc"}
DecodeMacUnit(op, w) ==
  CASE op = "l.maci"  -> Ci(op, Null, RegA(w), Imm, FieldI(w), "l.mac")
    [] op = "l.macrc" -> Ci(op, Reg(Bits(w, 25, 17)), Null, Null, 0, op)
    [] OTHER          -> Ci(op, Null, RegA(w), RegB(w), 0, op)

SystemOps == {"l.sys", "l.trap", "l.csync", "l.msync", "l.psync", "l.rfe"}
DecodeSys(op, w) ==
  Ci(op, Null, Null, Null, IF op \in {"l.sys", "l.trap"} THEN FieldK(w) ELSE 0, op)

FpOps == AsSet(FpxSingle) \cup AsSet(FpxDouble)
FpConvertOps == {"lf.itof.s", "lf.ftoi.s", "lf.itof.d", "lf.ftoi.d"}
FpCompareOps == {FpxSingle[i] : i \in 9..14} \cup {FpxDouble[i] : i \in 9..14}
DecodeFp(op, w) ==
  Ci(op, IF op \in FpCompareOps THEN Null ELSE RegD(w), RegA(w),
     IF op \in FpConvertOps THEN Null ELSE RegB(w), 0, op)

CustomOps == {"l.cust1", "l.cust2", "l.cust3", "l.cust4", "l.cust5", "l.cust6",
              "l.cust7", "l.cust8", "lf.cust1.s", "lf.cust1.d"}

\* m_decode_table, for the instructions that have a handler
Decoded(op, w) ==
  CASE op \in MoveOps                -> DecodeMove(op, w)
    [] op \in JumpOps                -> DecodeJump(op, w)
    [] op \in LoadOps                -> DecodeLoad(op, w)
    [] op \in StoreOps               -> DecodeStore(op, w)
    [] op \in ExtOps \cup FindOps    -> DecodeUnary(op, w)
    [] op \in AluOps                 -> DecodeAluRegs(op, w)
    [] op \in DoubleOps              -> DecodeDouble(op, w)
    [] op \in ShiftImmOps            -> DecodeShiftImm(op, w)
    [] op \in CompareOps             -> DecodeCompare(op, w)
    [] op \in CompareImmOps          -> DecodeCompareImm(op, w)
    [] op \in MacOps                 -> DecodeMacUnit(op, w)
    [] op \in SystemOps              -> DecodeSys(op, w)
    [] op \in FpOps                  -> DecodeFp(op, w)
    [] OTHER                         -> DecodeAluImm(op, w)
=============================================================================
