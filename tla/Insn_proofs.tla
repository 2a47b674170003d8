---------------------------- MODULE Insn_proofs ----------------------------
(***************************************************************************)
(* Theorems about Insn, for words of every width, every program, every      *)
(* value of the operands and every setup: what the decoder leaves for the   *)
(* functions of execute.cpp, and what they do to the status, accumulator,   *)
(* memory request, special purpose registers and floating point flags.      *)
(***************************************************************************)
EXTENDS Insn, FiniteSetTheorems, WellFoundedInduction, TLAPS

-----------------------------------------------------------------------------
(* The sets of instructions, element by element                            *)

LEMMA CompareSets ==
  /\ CompareOps = {"l.sfeq", "l.sfne", "l.sfgtu", "l.sfgeu", "l.sfltu", "l.sfleu",
                   "l.sfgts", "l.sfges", "l.sflts", "l.sfles"}
  /\ CompareImmOps = {"l.sfeqi", "l.sfnei", "l.sfgtui", "l.sfgeui", "l.sfltui", "l.sfleui",
                      "l.sfgtsi", "l.sfgesi", "l.sfltsi", "l.sflesi"}
BY SMT DEF CompareOps, CompareImmOps, Comparisons, SignedComparisons, ImmComparisons,
           SignedImmComparisons, AsSet

FpCompares == {"lf.sfeq.s", "lf.sfne.s", "lf.sfgt.s", "lf.sfge.s", "lf.sflt.s", "lf.sfle.s",
               "lf.sfeq.d", "lf.sfne.d", "lf.sfgt.d", "lf.sfge.d", "lf.sflt.d", "lf.sfle.d"}

LEMMA FpSets ==
  /\ FpCompareOps = FpCompares
  /\ FpOps = FpArithmetic \cup FpConvertOps \cup FpCompares
<1>1. FpCompareOps = FpCompares
  BY SMT DEF FpCompareOps, FpCompares, FpxSingle, FpxDouble
<1>2. FpOps = FpArithmetic \cup FpConvertOps \cup FpCompares
  BY SMT DEF FpOps, FpArithmetic, FpConvertOps, FpCompares, FpxSingle, FpxDouble, AsSet
<1> QED  BY <1>1, <1>2

\* the instructions that have a handler
Instructions ==
  MoveOps \cup JumpOps \cup LoadOps \cup StoreOps \cup ExtOps \cup FindOps \cup AluOps
  \cup DoubleOps \cup ShiftImmOps \cup CompareOps \cup CompareImmOps \cup MacOps
  \cup SystemOps \cup FpOps \cup SignedImmOps \cup UnsignedImmOps
-----------------------------------------------------------------------------
(* The fields of a word                                                     *)

LEMMA Fields ==
  ASSUME NEW w \in InsnWords
  PROVE  /\ w.op \in 0..63 /\ w.d \in 0..31 /\ w.a \in 0..31 /\ w.b \in 0..31
         /\ w.lo \in 0..2047
BY SMT DEF InsnWords

LEMMA Low26Type ==
  ASSUME NEW w \in InsnWords
  PROVE  Low26(w) \in Nat
<1>1. /\ w.d \in 0..31 /\ w.a \in 0..31 /\ w.b \in 0..31 /\ w.lo \in 0..2047  BY Fields
<1>2. PICK d1 \in 0..31 : d1 = w.d  BY <1>1
<1>3. PICK a1 \in 0..31 : a1 = w.a  BY <1>1
<1>4. PICK b1 \in 0..31 : b1 = w.b  BY <1>1
<1>5. PICK lo1 \in 0..2047 : lo1 = w.lo  BY SMTT(30), <1>1
<1>6. Low26(w) = (((((d1 * 32) + a1) * 32) + b1) * 2048) + lo1
  BY <1>2, <1>3, <1>4, <1>5 DEF Low26
<1> QED  BY <1>6

LEMMA BitsType ==
  ASSUME NEW w \in InsnWords
  PROVE  /\ Bits(w, 9, 8) \in 0..3 /\ Bits(w, 7, 6) \in 0..3 /\ Bits(w, 3, 0) \in 0..15
         /\ Bits(w, 7, 0) \in Nat /\ Bits(w, 15, 0) \in Nat /\ Bits(w, 5, 0) \in Nat
         /\ Bits(w, 25, 0) \in Nat /\ Bits(w, 25, 17) \in Nat
<1>1. PICK n \in Nat : n = Low26(w)  BY Low26Type
<1>2. Bits(w, 9, 8) \in 0..3  BY SMT, <1>1 DEF Bits
<1>3. Bits(w, 7, 6) \in 0..3  BY SMT, <1>1 DEF Bits
<1>4. Bits(w, 3, 0) \in 0..15  BY SMT, <1>1 DEF Bits
<1>5. Bits(w, 7, 0) \in Nat  BY SMT, <1>1 DEF Bits
<1>6. Bits(w, 15, 0) \in Nat  BY SMT, <1>1 DEF Bits
<1>7. Bits(w, 5, 0) \in Nat  BY SMT, <1>1 DEF Bits
<1>8. Bits(w, 25, 0) \in Nat  BY SMT, <1>1 DEF Bits
<1>9. Bits(w, 25, 17) \in Nat  BY SMT, <1>1 DEF Bits
<1> QED  BY <1>2, <1>3, <1>4, <1>5, <1>6, <1>7, <1>8, <1>9

LEMMA ImmediateType ==
  ASSUME NEW w \in InsnWords
  PROVE  FieldK(w) \in Int /\ FieldI(w) \in Int /\ SplitK(w) \in Int /\ SplitI(w) \in Int
         /\ FieldN(w) \in Int
<1>1. \A n \in Nat : SignExtend(n, 15) \in Int /\ SignExtend(n, 27) \in Int
  BY SMT DEF SignExtend
<1>2. FieldK(w) \in Nat  BY BitsType DEF FieldK
<1>3. FieldI(w) \in Int  BY <1>1, <1>2 DEF FieldI
<1>4. w.d \in 0..31 /\ w.lo \in 0..2047  BY Fields
<1>5. SplitK(w) \in Nat
  <2>1. PICK d1 \in 0..31 : d1 = w.d  BY <1>4
  <2>2. PICK lo1 \in 0..2047 : lo1 = w.lo  BY SMT, <1>4
  <2>3. SplitK(w) = (d1 * 2048) + lo1  BY <2>1, <2>2 DEF SplitK
  <2> QED  BY <2>3
<1>6. SplitI(w) \in Int  BY <1>1, <1>5 DEF SplitI
<1>7. FieldN(w) \in Int
  <2>1. PICK n \in Nat : n = Bits(w, 25, 0)  BY BitsType
  <2>2. 4 * n \in Nat /\ FieldN(w) = SignExtend(4 * n, 27)  BY <2>1 DEF FieldN
  <2> QED  BY <1>1, <2>2
<1> QED  BY <1>2, <1>3, <1>5, <1>6, <1>7
-----------------------------------------------------------------------------
(* What a word decodes to has a handler, is a custom instruction or invalid *)

Known == Instructions \cup CustomOps \cup {Invalid}

LEMMA KnownNames ==
  Known = MoveOps \cup JumpOps \cup LoadOps \cup StoreOps \cup ExtOps \cup FindOps \cup AluOps
          \cup DoubleOps \cup ShiftImmOps \cup MacOps \cup SystemOps
          \cup SignedImmOps \cup UnsignedImmOps \cup CustomOps \cup {Invalid}
          \cup {"l.sfeq", "l.sfne", "l.sfgtu", "l.sfgeu", "l.sfltu", "l.sfleu",
                "l.sfgts", "l.sfges", "l.sflts", "l.sfles",
                "l.sfeqi", "l.sfnei", "l.sfgtui", "l.sfgeui", "l.sfltui", "l.sfleui",
                "l.sfgtsi", "l.sfgesi", "l.sfltsi", "l.sflesi"}
          \cup FpOps
BY CompareSets DEF Known, Instructions

LEMMA KnownPick ==
  ASSUME NEW table, NEW n \in Nat, DOMAIN table = 1..n, NEW key,
         \A i \in 1..n : table[i] \in Known
  PROVE  Pick(table, key) \in Known
<1>1. Invalid \in Known  BY DEF Known
<1> QED  BY <1>1 DEF Pick

LEMMA KnownAlu ==
  ASSUME NEW w \in InsnWords
  PROVE  DecodeAlu(w) \in Known
<1>1. \A i \in 1..16 : Alu0[i] \in Known
  BY SMT, KnownNames DEF Alu0, AluOps, FindOps
<1>2. \A key : Pick(Alu3, key) \in Known
  <2>1. DOMAIN Alu3 = 1..13 /\ \A i \in 1..13 : Alu3[i] \in Known
    BY SMT, KnownNames DEF Alu3, AluOps, DoubleOps
  <2> QED  BY <2>1, KnownPick
<1>3. \A i : \A key \in 0..15 : AluShift(key, i) \in Known
  <2> SUFFICES ASSUME NEW i, NEW key \in 0..15  PROVE AluShift(key, i) \in Known
    OBVIOUS
  <2>1. Pick(<<"l.sll", "l.srl", "l.sra", "l.ror">>, i) \in Known
    <3> DEFINE t == <<"l.sll", "l.srl", "l.sra", "l.ror">>
    <3>1. DOMAIN t = 1..4 /\ \A j \in 1..4 : t[j] \in Known
      BY SMT, KnownNames DEF AluOps
    <3> QED  BY <3>1, KnownPick
  <2>2. Pick(<<"l.exths", "l.extbs", "l.exthz", "l.extbz">>, i) \in Known
    <3> DEFINE t == <<"l.exths", "l.extbs", "l.exthz", "l.extbz">>
    <3>1. DOMAIN t = 1..4 /\ \A j \in 1..4 : t[j] \in Known
      BY SMT, KnownNames DEF ExtOps
    <3> QED  BY <3>1, KnownPick
  <2>3. Pick(<<"l.extws", "l.extwz">>, i) \in Known
    <3> DEFINE t == <<"l.extws", "l.extwz">>
    <3>1. DOMAIN t = 1..2 /\ \A j \in 1..2 : t[j] \in Known
      BY SMT, KnownNames DEF ExtOps
    <3> QED  BY <3>1, KnownPick
  <2>4. Invalid \in Known  BY DEF Known
  <2> QED  BY SMT, <2>1, <2>2, <2>3, <2>4 DEF AluShift
<1>4. {"l.fl1", Invalid} \subseteq Known  BY SMT, KnownNames DEF FindOps
<1>5. PICK key \in 0..15 : key = Bits(w, 3, 0)  BY BitsType
<1>6. Bits(w, 9, 8) \in 0..3  BY BitsType
<1>7. key + 1 \in 1..16  BY <1>5
<1>8. CASE Bits(w, 9, 8) = 0
  <2>1. DecodeAlu(w) \in {Alu0[key + 1], AluShift(key, Bits(w, 7, 6) + 1)}
    BY SMT, <1>5, <1>8 DEF DecodeAlu
  <2> QED  BY <2>1, <1>1, <1>3, <1>7
<1>9. CASE Bits(w, 9, 8) = 1
  <2>1. DecodeAlu(w) \in {"l.fl1", Invalid}  BY SMT, <1>5, <1>9 DEF DecodeAlu
  <2> QED  BY <2>1, <1>4
<1>10. CASE Bits(w, 9, 8) = 2
  <2>1. DecodeAlu(w) = Invalid  BY SMT, <1>5, <1>10 DEF DecodeAlu
  <2> QED  BY <2>1, <1>4
<1>11. CASE Bits(w, 9, 8) = 3
  <2>1. DecodeAlu(w) = Pick(Alu3, key + 1)  BY SMT, <1>5, <1>11 DEF DecodeAlu
  <2> QED  BY <2>1, <1>2
<1> QED  BY <1>6, <1>8, <1>9, <1>10, <1>11

LEMMA KnownShift ==
  ASSUME NEW w \in InsnWords
  PROVE  DecodeShift(w) \in Known
<1>1. PICK i \in 0..3 : i = Bits(w, 7, 6)  BY BitsType
<1>2. <<"l.slli", "l.srli", "l.srai", "l.rori">>[i + 1] \in ShiftImmOps
  BY SMT DEF ShiftImmOps
<1> QED  BY <1>1, <1>2 DEF DecodeShift, Known, Instructions

LEMMA KnownMac ==
  ASSUME NEW w \in InsnWords
  PROVE  DecodeMac(w) \in Known
<1> DEFINE t == <<"l.mac", "l.msb", "l.macu", "l.msbu">>
<1>1. DOMAIN t = 1..4 /\ \A i \in 1..4 : t[i] \in Known
  BY SMT, KnownNames DEF MacOps
<1> QED  BY <1>1, KnownPick DEF DecodeMac

LEMMA KnownFpx ==
  ASSUME NEW w \in InsnWords
  PROVE  DecodeFpx(w) \in Known
<1>1. DOMAIN FpxSingle = 1..14 /\ \A i \in 1..14 : FpxSingle[i] \in FpOps
  BY SMT, FpSets DEF FpxSingle, FpCompares, FpArithmetic, FpConvertOps
<1>2. DOMAIN FpxDouble = 1..14 /\ \A i \in 1..14 : FpxDouble[i] \in FpOps
  BY SMT, FpSets DEF FpxDouble, FpCompares, FpArithmetic, FpConvertOps
<1>3. FpOps \cup {"lf.cust1.s", "lf.cust1.d", Invalid} \subseteq Known
  BY DEF Known, Instructions, CustomOps
<1>4. \A key : Pick(FpxSingle, key) \in Known /\ Pick(FpxDouble, key) \in Known
  BY <1>1, <1>2, <1>3, KnownPick
<1> DEFINE c == Bits(w, 7, 0)
<1>5. DecodeFpx(w) \in {Pick(FpxSingle, (c % 16) + 1), Pick(FpxDouble, (c % 16) + 1),
                        "lf.cust1.s", "lf.cust1.d", Invalid}
  BY SMT DEF DecodeFpx
<1> QED  BY <1>3, <1>4, <1>5

LEMMA KnownComparison ==
  ASSUME NEW w \in InsnWords, w.op \in {47, 57}
  PROVE  DecodeComparison(w) \in Known
<1>1. DOMAIN Comparisons = 1..6 /\ \A i \in 1..6 : Comparisons[i] \in Known
  BY SMT, KnownNames DEF Comparisons
<1>2. DOMAIN SignedComparisons = 1..4 /\ \A i \in 1..4 : SignedComparisons[i] \in Known
  BY SMT, KnownNames DEF SignedComparisons
<1>3. DOMAIN ImmComparisons = 1..6 /\ \A i \in 1..6 : ImmComparisons[i] \in Known
  BY SMT, KnownNames DEF ImmComparisons
<1>4. DOMAIN SignedImmComparisons = 1..4 /\ \A i \in 1..4 : SignedImmComparisons[i] \in Known
  BY SMT, KnownNames DEF SignedImmComparisons
<1>5. \A key : /\ Pick(Comparisons, key) \in Known /\ Pick(SignedComparisons, key) \in Known
               /\ Pick(ImmComparisons, key) \in Known
               /\ Pick(SignedImmComparisons, key) \in Known
  <2>1. \A key : Pick(Comparisons, key) \in Known  BY <1>1, KnownPick
  <2>2. \A key : Pick(SignedComparisons, key) \in Known  BY <1>2, KnownPick
  <2>3. \A key : Pick(ImmComparisons, key) \in Known  BY <1>3, KnownPick
  <2>4. \A key : Pick(SignedImmComparisons, key) \in Known  BY <1>4, KnownPick
  <2> QED  BY <2>1, <2>2, <2>3, <2>4
<1>6. PICK n \in 0..31 : n = w.d  BY Fields
<1>7. DecodeComparison(w)
        \in {Pick(Comparisons, n + 1), Pick(SignedComparisons, n - 9),
             Pick(ImmComparisons, n + 1), Pick(SignedImmComparisons, n - 9)}
  BY SMT, <1>6 DEF DecodeComparison
<1> QED  BY <1>5, <1>7

LEMMA KnownMajor ==
  ASSUME NEW op
  PROVE  Major(op) \in Known
<1>1. Major(op) \in JumpOps \cup SignedImmOps \cup UnsignedImmOps \cup LoadOps \cup StoreOps
                    \cup {"l.rfe", "l.mfspr", "l.mtspr", "l.maci"} \cup CustomOps \cup {Invalid}
  BY SMT DEF Major, JumpOps, SignedImmOps, UnsignedImmOps, LoadOps, StoreOps, CustomOps
<1>2. {"l.rfe", "l.mfspr", "l.mtspr", "l.maci"} \subseteq SystemOps \cup MoveOps \cup MacOps
  BY DEF SystemOps, MoveOps, MacOps
<1> QED  BY <1>1, <1>2 DEF Known, Instructions

LEMMA KnownWord ==
  ASSUME NEW w \in InsnWords
  PROVE  DecodeWord(w) \in Known
<1>1. DecodeUtil(w) \in {"l.macrc", "l.movhi", Invalid}  BY DEF DecodeUtil
<1>2. DecodeSystem(w) \in {"l.sys", "l.trap", "l.msync", "l.psync", "l.csync", Invalid}
  BY SMT DEF DecodeSystem
<1>3. {"l.macrc", "l.movhi", "l.sys", "l.trap", "l.msync", "l.psync", "l.csync", "l.nop", Invalid}
        \subseteq Known
  BY DEF Known, Instructions, MacOps, MoveOps, SystemOps
<1>4. CASE w.op \in {47, 57}
  <2>1. DecodeWord(w) = DecodeComparison(w)  BY SMT, <1>4 DEF DecodeWord
  <2> QED  BY <2>1, <1>4, KnownComparison
<1>5. CASE w.op \notin {47, 57}
  <2>1. DecodeWord(w) \in {DecodeAlu(w), DecodeUtil(w), DecodeShift(w), DecodeMac(w),
                           DecodeFpx(w), "l.nop", Invalid, DecodeSystem(w), Major(w.op)}
    BY SMT, <1>5, Fields DEF DecodeWord
  <2> QED  BY <2>1, <1>1, <1>2, <1>3, KnownAlu, KnownShift, KnownMac, KnownFpx, KnownMajor
<1> QED  BY <1>4, <1>5
-----------------------------------------------------------------------------
(* The handler of each instruction: the families of the decode table do not *)
(* overlap.                                                                 *)

LEMMA Handlers ==
  ASSUME NEW op, NEW w
  PROVE  /\ op \in MoveOps => Decoded(op, w) = DecodeMove(op, w)
         /\ op \in JumpOps => Decoded(op, w) = DecodeJump(op, w)
         /\ op \in LoadOps => Decoded(op, w) = DecodeLoad(op, w)
         /\ op \in StoreOps => Decoded(op, w) = DecodeStore(op, w)
         /\ op \in ExtOps \cup FindOps => Decoded(op, w) = DecodeUnary(op, w)
         /\ op \in AluOps => Decoded(op, w) = DecodeAluRegs(op, w)
         /\ op \in DoubleOps => Decoded(op, w) = DecodeDouble(op, w)
         /\ op \in ShiftImmOps => Decoded(op, w) = DecodeShiftImm(op, w)
         /\ op \in CompareOps => Decoded(op, w) = DecodeCompare(op, w)
         /\ op \in CompareImmOps => Decoded(op, w) = DecodeCompareImm(op, w)
         /\ op \in MacOps => Decoded(op, w) = DecodeMacUnit(op, w)
         /\ op \in SystemOps => Decoded(op, w) = DecodeSys(op, w)
         /\ op \in FpOps => Decoded(op, w) = DecodeFp(op, w)
         /\ op \in SignedImmOps \cup UnsignedImmOps => Decoded(op, w) = DecodeAluImm(op, w)
<1> USE CompareSets, FpSets DEF MoveOps, JumpOps, LoadOps, StoreOps, ExtOps, FindOps, AluOps,
        DoubleOps, ShiftImmOps, MacOps, SystemOps, FpCompares, FpArithmetic, FpConvertOps,
        SignedImmOps, UnsignedImmOps
<1>1. ASSUME op \in MoveOps  PROVE Decoded(op, w) = DecodeMove(op, w)
  BY SMTT(30), <1>1 DEF Decoded
<1>2. ASSUME op \in JumpOps  PROVE Decoded(op, w) = DecodeJump(op, w)
  BY SMTT(30), <1>2 DEF Decoded
<1>3. ASSUME op \in LoadOps  PROVE Decoded(op, w) = DecodeLoad(op, w)
  BY SMTT(30), <1>3 DEF Decoded
<1>4. ASSUME op \in StoreOps  PROVE Decoded(op, w) = DecodeStore(op, w)
  BY SMTT(30), <1>4 DEF Decoded
<1>5. ASSUME op \in ExtOps \cup FindOps  PROVE Decoded(op, w) = DecodeUnary(op, w)
  BY SMTT(30), <1>5 DEF Decoded
<1>6. ASSUME op \in AluOps  PROVE Decoded(op, w) = DecodeAluRegs(op, w)
  BY SMTT(30), <1>6 DEF Decoded
<1>7. ASSUME op \in DoubleOps  PROVE Decoded(op, w) = DecodeDouble(op, w)
  BY SMTT(30), <1>7 DEF Decoded
<1>8. ASSUME op \in ShiftImmOps  PROVE Decoded(op, w) = DecodeShiftImm(op, w)
  BY SMTT(30), <1>8 DEF Decoded
<1>9. ASSUME op \in CompareOps  PROVE Decoded(op, w) = DecodeCompare(op, w)
  BY SMTT(30), <1>9 DEF Decoded
<1>10. ASSUME op \in CompareImmOps  PROVE Decoded(op, w) = DecodeCompareImm(op, w)
  BY SMTT(30), <1>10 DEF Decoded
<1>11. ASSUME op \in MacOps  PROVE Decoded(op, w) = DecodeMacUnit(op, w)
  BY SMTT(30), <1>11 DEF Decoded
<1>12. ASSUME op \in SystemOps  PROVE Decoded(op, w) = DecodeSys(op, w)
  BY SMTT(30), <1>12 DEF Decoded
<1>13. ASSUME op \in FpOps  PROVE Decoded(op, w) = DecodeFp(op, w)
  BY SMTT(30), <1>13 DEF Decoded
<1>14. ASSUME op \in SignedImmOps \cup UnsignedImmOps  PROVE Decoded(op, w) = DecodeAluImm(op, w)
  BY SMTT(30), <1>14 DEF Decoded
<1> HIDE CompareSets, FpSets DEF MoveOps, JumpOps, LoadOps, StoreOps, ExtOps, FindOps, AluOps,
        DoubleOps, ShiftImmOps, MacOps, SystemOps, FpCompares, FpArithmetic, FpConvertOps,
        SignedImmOps, UnsignedImmOps
<1> QED
  BY <1>1, <1>2, <1>3, <1>4, <1>5, <1>6, <1>7, <1>8, <1>9, <1>10, <1>11, <1>12, <1>13, <1>14
-----------------------------------------------------------------------------
(* What the handlers leave in the compiled instruction is what the function *)
(* that they choose dereferences.                                           *)

\* with the register written and two operands, with two, and with one and a register
Ternary == LogicExecs \cup {"l.add", "l.addc", "l.sub", "l.mul", "l.mulu", "l.div", "l.divu"}
           \cup (FpArithmetic \ {"lf.madd.s", "lf.madd.d"})
Binary  == CompareOps \cup FpCompareOps \cup DoubleOps \cup Stores
           \cup (MacOps \ {"l.macrc"}) \cup {"lf.madd.s", "lf.madd.d"}
Single  == UnaryExecs \cup FpConvertOps \cup {"l.mfspr", "l.mtspr"} \cup Loads

Operand(o) == o \in {Null, Imm} \/ \E n \in 0..31 : o = Reg(n)

Usable(c) ==
  /\ c.exec \in Ternary \cup Single \cup {"l.movhi", "l.macrc"} => c.dest # Null
  /\ c.exec \in Ternary \cup Binary \cup Single \cup {"l.nop"} => c.src1 # Null
  /\ c.exec \in Ternary \cup Binary \cup {"jump_rel", "jump_abs"} => c.src2 # Null
  /\ c.exec # "l.macrc" => Operand(c.dest) /\ Operand(c.src1) /\ Operand(c.src2)
  /\ c.imm \in Int

LEMMA Operands3 ==
  /\ \A n : Reg(n) # Null
  /\ Imm # Null
  /\ \A n \in 0..31 : Operand(Reg(n))
  /\ Operand(Null) /\ Operand(Imm)
BY SMT DEF Reg, Null, Imm, Operand

LEMMA UsableDereferenced ==
  ASSUME Usable(ci)
  PROVE  Null \notin Dereferenced(ci.exec)
<1> DEFINE c == ci
           e == ci.exec
<1>1. e \in Ternary => Null \notin {c.dest, c.src1, c.src2}  BY DEF Usable
<1>2. e \in Binary => Null \notin {c.src1, c.src2}  BY DEF Usable
<1>3. e \in Single => Null \notin {c.dest, c.src1}  BY DEF Usable
<1>4. e \in {"l.movhi", "l.macrc"} => Null \notin {c.dest}  BY DEF Usable
<1>5. e \in {"jump_rel", "jump_abs"} => Null \notin {c.src2}  BY DEF Usable
<1>6. e = "l.nop" => Null \notin {c.src1}  BY DEF Usable
<1> HIDE DEF e
<1>7. Dereferenced(e) =
        CASE e \in Ternary -> {c.dest, c.src1, c.src2}
          [] e \in Binary -> {c.src1, c.src2}
          [] e \in Single -> {c.dest, c.src1}
          [] e \in {"l.movhi", "l.macrc"} -> {c.dest}
          [] e \in {"jump_rel", "jump_abs"} -> {c.src2}
          [] e = "l.nop" -> {c.src1}
          [] OTHER -> {}
  BY DEF Dereferenced, Ternary, Binary, Single
<1> HIDE DEF c
<1>8. Null \notin Dereferenced(e)
  BY SMT, <1>1, <1>2, <1>3, <1>4, <1>5, <1>6, <1>7
<1> QED  BY <1>8 DEF e

\* the functions that find null in one of the pointers
LEMMA Apart ==
  /\ {"l.movhi"} \cap (Ternary \cup Binary \cup Single \cup {"l.nop", "jump_rel", "jump_abs"}) = {}
  /\ {"l.nop"} \cap (Ternary \cup Binary \cup Single
                     \cup {"l.movhi", "l.macrc", "jump_rel", "jump_abs"}) = {}
  /\ {"jump_rel", "jump_abs"} \cap (Ternary \cup Binary \cup Single
                                    \cup {"l.movhi", "l.macrc", "l.nop"}) = {}
  /\ (SystemOps \cup {"l.bf", "l.bnf"})
       \cap (Ternary \cup Binary \cup Single
             \cup {"l.movhi", "l.macrc", "l.nop", "jump_rel", "jump_abs"}) = {}
  /\ (Loads \cup UnaryExecs \cup FpConvertOps)
       \cap (Ternary \cup Binary \cup {"jump_rel", "jump_abs"}) = {}
  /\ (StoreOps \cup DoubleOps \cup CompareOps \cup FpCompareOps \cup (MacOps \ {"l.macrc"}))
       \cap (Ternary \cup Single \cup {"l.movhi", "l.macrc"}) = {}
  /\ {"l.macrc"} \cap (Ternary \cup Binary \cup Single \cup {"l.nop", "jump_rel", "jump_abs"}) = {}
<1> USE CompareSets, FpSets
    DEF Ternary, Binary, Single, LogicExecs, FpArithmetic, FpConvertOps, FpCompares, DoubleOps,
        Stores, MacOps, UnaryExecs, Loads
<1>1. {"l.movhi"} \cap (Ternary \cup Binary \cup Single \cup {"l.nop", "jump_rel", "jump_abs"}) = {}
  BY SMT
<1>2. {"l.nop"} \cap (Ternary \cup Binary \cup Single
                     \cup {"l.movhi", "l.macrc", "jump_rel", "jump_abs"}) = {}
  BY SMT
<1>3. {"jump_rel", "jump_abs"} \cap (Ternary \cup Binary \cup Single
                                    \cup {"l.movhi", "l.macrc", "l.nop"}) = {}
  BY SMT
<1>4. (SystemOps \cup {"l.bf", "l.bnf"})
       \cap (Ternary \cup Binary \cup Single
             \cup {"l.movhi", "l.macrc", "l.nop", "jump_rel", "jump_abs"}) = {}
  BY SMT DEF SystemOps
<1>5. (Loads \cup UnaryExecs \cup FpConvertOps)
       \cap (Ternary \cup Binary \cup {"jump_rel", "jump_abs"}) = {}
  BY SMT
<1>6. (StoreOps \cup DoubleOps \cup CompareOps \cup FpCompareOps \cup (MacOps \ {"l.macrc"}))
       \cap (Ternary \cup Single \cup {"l.movhi", "l.macrc"}) = {}
  BY SMT DEF StoreOps
<1>7. {"l.macrc"} \cap (Ternary \cup Binary \cup Single \cup {"l.nop", "jump_rel", "jump_abs"}) = {}
  BY SMT
<1> QED  BY ONLY <1>1, <1>2, <1>3, <1>4, <1>5, <1>6, <1>7

LEMMA RegOperands ==
  ASSUME NEW w \in InsnWords
  PROVE  /\ \A o \in {RegD(w), RegA(w), RegB(w), Reg(3), Reg(9)} : o # Null /\ Operand(o)
         /\ Imm # Null /\ Operand(Imm) /\ Operand(Null)
<1>1. w.d \in 0..31 /\ w.a \in 0..31 /\ w.b \in 0..31  BY Fields
<1>2. 3 \in 0..31 /\ 9 \in 0..31  BY SMT
<1> QED  BY <1>1, <1>2, Operands3 DEF RegD, RegA, RegB

LEMMA AllThere ==
  ASSUME NEW w \in InsnWords, NEW op, NEW src2 \in {RegB(w), Imm}, NEW dest \in {RegD(w), RegA(w)},
         NEW src1 \in {RegA(w), RegB(w)}, NEW imm \in Int, NEW exec, exec # "l.macrc"
  PROVE  Usable(Ci(op, dest, src1, src2, imm, exec))
<1>1. \A o \in {dest, src1, src2} : o # Null /\ Operand(o)  BY RegOperands
<1> QED  BY <1>1 DEF Usable, Ci

LEMMA TwoSources ==
  ASSUME NEW w \in InsnWords, NEW op, NEW src2 \in {RegB(w), Imm}, NEW imm \in Int,
         NEW exec \in StoreOps \cup DoubleOps \cup CompareOps \cup FpCompareOps
                      \cup (MacOps \ {"l.macrc"})
  PROVE  Usable(Ci(op, Null, RegA(w), src2, imm, exec))
<1>1. \A o \in {RegA(w), src2} : o # Null /\ Operand(o)  BY RegOperands
<1>2. exec \notin Ternary \cup Single \cup {"l.movhi", "l.macrc"}  BY Apart
<1> QED  BY <1>1, <1>2, RegOperands DEF Usable, Ci

LEMMA OneSource ==
  ASSUME NEW w \in InsnWords, NEW op, NEW imm \in Int,
         NEW exec \in Loads \cup UnaryExecs \cup FpConvertOps
  PROVE  Usable(Ci(op, RegD(w), RegA(w), Null, imm, exec))
<1>1. \A o \in {RegD(w), RegA(w)} : o # Null /\ Operand(o)  BY RegOperands
<1>2. exec \notin Ternary \cup Binary \cup {"jump_rel", "jump_abs"}  BY Apart
<1> QED  BY <1>1, <1>2, RegOperands DEF Usable, Ci

LEMMA UsableMove ==
  ASSUME NEW w \in InsnWords, NEW op \in MoveOps
  PROVE  Usable(DecodeMove(op, w))
<1>1. CASE op = "l.mfspr"
  <2>1. DecodeMove(op, w) = Ci(op, RegD(w), RegA(w), Imm, FieldK(w), op)
    BY <1>1 DEF DecodeMove
  <2> QED  BY <2>1, <1>1, AllThere, ImmediateType
<1>2. CASE op = "l.mtspr"
  <2>1. DecodeMove(op, w) = Ci(op, RegA(w), RegB(w), Imm, SplitK(w), op)
    BY <1>2 DEF DecodeMove
  <2> QED  BY <2>1, <1>2, AllThere, ImmediateType
<1>3. CASE op = "l.movhi"
  <2>1. DecodeMove(op, w) = Ci(op, RegD(w), Null, Null, FieldI(w) * 2^16, op)
    BY <1>3 DEF DecodeMove, FieldI
  <2>2. FieldI(w) * 2^16 \in Int
    <3>1. PICK n \in Int : n = FieldI(w)  BY ImmediateType
    <3> QED  BY SMT, <3>1
  <2>3. op \notin Ternary \cup Binary \cup Single \cup {"l.nop", "jump_rel", "jump_abs"}
    BY <1>3, Apart
  <2> QED  BY <2>1, <2>2, <2>3, RegOperands DEF Usable, Ci
<1>4. CASE op = "l.nop"
  <2>1. DecodeMove(op, w) = Ci(op, Null, Reg(3), Null, FieldK(w), op)
    BY <1>4 DEF DecodeMove
  <2>2. op \notin Ternary \cup Binary \cup Single \cup {"l.movhi", "l.macrc", "jump_rel", "jump_abs"}
    BY <1>4, Apart
  <2> QED  BY <2>1, <2>2, RegOperands, ImmediateType DEF Usable, Ci
<1> QED  BY <1>1, <1>2, <1>3, <1>4 DEF MoveOps

LEMMA UsableJump ==
  ASSUME NEW w \in InsnWords, NEW op \in JumpOps
  PROVE  Usable(DecodeJump(op, w))
<1> DEFINE link == IF op \in {"l.jal", "l.jalr"} THEN Reg(9) ELSE Null
<1>1. Operand(link)  BY RegOperands
<1> HIDE DEF link
<1>2. CASE op \in {"l.bf", "l.bnf"}
  <2>1. DecodeJump(op, w) = Ci(op, Null, Null, Null, FieldN(w), op)
    BY SMT, <1>2 DEF DecodeJump
  <2>2. op \notin Ternary \cup Binary \cup Single
             \cup {"l.movhi", "l.macrc", "l.nop", "jump_rel", "jump_abs"}
    BY <1>2, Apart
  <2> QED  BY <2>1, <2>2, RegOperands, ImmediateType DEF Usable, Ci
<1>3. {"jump_rel", "jump_abs"} \cap (Ternary \cup Binary \cup Single
                                    \cup {"l.movhi", "l.macrc", "l.nop"}) = {}
  BY Apart
<1>4. CASE op \in {"l.j", "l.jal"}
  <2>1. DecodeJump(op, w) = Ci(op, Null, link, Imm, FieldN(w), "jump_rel")
    BY SMT, <1>4 DEF DecodeJump, link
  <2> QED  BY <2>1, <1>1, <1>3, RegOperands, ImmediateType DEF Usable, Ci
<1>5. CASE op \in {"l.jr", "l.jalr"}
  <2>1. DecodeJump(op, w) = Ci(op, Null, link, RegB(w), 0, "jump_abs")
    BY SMT, <1>5 DEF DecodeJump, link
  <2>2. 0 \in Int /\ RegB(w) # Null /\ Operand(RegB(w))  BY RegOperands
  <2> QED  BY <2>1, <2>2, <1>1, <1>3, RegOperands DEF Usable, Ci
<1> QED  BY <1>2, <1>4, <1>5 DEF JumpOps

LEMMA UsableMac ==
  ASSUME NEW w \in InsnWords, NEW op \in MacOps
  PROVE  Usable(DecodeMacUnit(op, w))
<1>1. CASE op = "l.maci"
  <2>1. DecodeMacUnit(op, w) = Ci(op, Null, RegA(w), Imm, FieldI(w), "l.mac")
    BY <1>1 DEF DecodeMacUnit
  <2>2. "l.mac" \in MacOps \ {"l.macrc"}  BY DEF MacOps
  <2> QED  BY <2>1, <2>2, TwoSources, ImmediateType
<1>2. CASE op = "l.macrc"
  <2>1. DecodeMacUnit(op, w) = Ci(op, Reg(Bits(w, 25, 17)), Null, Null, 0, op)
    BY SMT, <1>2 DEF DecodeMacUnit
  <2>2. op \notin Ternary \cup Binary \cup Single \cup {"l.nop", "jump_rel", "jump_abs"}
    BY <1>2, Apart
  <2>3. 0 \in Int /\ Reg(Bits(w, 25, 17)) # Null  BY Operands3
  <2> QED  BY <2>1, <2>2, <2>3, <1>2 DEF Usable, Ci
<1>3. CASE op \notin {"l.maci", "l.macrc"}
  <2>1. DecodeMacUnit(op, w) = Ci(op, Null, RegA(w), RegB(w), 0, op)
    BY SMT, <1>3 DEF DecodeMacUnit
  <2> QED  BY <2>1, <1>3, TwoSources
<1> QED  BY <1>1, <1>2, <1>3

LEMMA UsableFp ==
  ASSUME NEW w \in InsnWords, NEW op \in FpOps
  PROVE  Usable(DecodeFp(op, w))
<1>0. 0 \in Int  OBVIOUS
<1>1. CASE op \in FpCompareOps
  <2>1. op \notin FpConvertOps  BY <1>1, FpSets DEF FpCompares, FpConvertOps
  <2>2. DecodeFp(op, w) = Ci(op, Null, RegA(w), RegB(w), 0, op)
    BY <1>1, <2>1 DEF DecodeFp
  <2> QED  BY <2>2, <1>0, <1>1, TwoSources
<1>2. CASE op \in FpConvertOps
  <2>1. op \notin FpCompareOps  BY <1>2, FpSets DEF FpCompares, FpConvertOps
  <2>2. DecodeFp(op, w) = Ci(op, RegD(w), RegA(w), Null, 0, op)
    BY <1>2, <2>1 DEF DecodeFp
  <2> QED  BY <2>2, <1>0, <1>2, OneSource
<1>3. CASE op \notin FpCompareOps \cup FpConvertOps
  <2>1. DecodeFp(op, w) = Ci(op, RegD(w), RegA(w), RegB(w), 0, op)
    BY <1>3 DEF DecodeFp
  <2>2. op # "l.macrc"
    BY SMT, FpSets DEF FpArithmetic, FpConvertOps, FpCompares
  <2> QED  BY <2>1, <2>2, <1>0, AllThere
<1> QED  BY <1>1, <1>2, <1>3

\* no word leaves a pointer null that its function dereferences
LEMMA UsableWord ==
  ASSUME NEW w \in InsnWords, DecodeWord(w) \in Instructions
  PROVE  Usable(Compiled(w))
<1> DEFINE op == DecodeWord(w)
<1>0. Compiled(w) = Decoded(op, w)  BY DEF Compiled
<1> HIDE DEF op
<1>1. CASE op \in MoveOps  BY <1>0, <1>1, Handlers, UsableMove
<1>2. CASE op \in JumpOps  BY <1>0, <1>2, Handlers, UsableJump
<1>3. CASE op \in MacOps   BY <1>0, <1>3, Handlers, UsableMac
<1>4. CASE op \in FpOps    BY <1>0, <1>4, Handlers, UsableFp
<1>z. 0 \in Int  OBVIOUS
<1>5. CASE op \in LoadOps
  <2> DEFINE exec == IF op \in {"l.lwz", "l.lws"} THEN "l.lw" ELSE op
  <2>1. exec \in Loads  BY <1>5 DEF LoadOps, Loads
  <2>2. Decoded(op, w) = Ci(op, RegD(w), RegA(w), Null, FieldI(w), exec)
    BY <1>5, Handlers DEF DecodeLoad
  <2> HIDE DEF exec
  <2> QED  BY <1>0, <2>1, <2>2, OneSource, ImmediateType
<1>6. CASE op \in StoreOps
  <2>1. Decoded(op, w) = Ci(op, Null, RegA(w), RegB(w), SplitI(w), op)
    BY <1>6, Handlers DEF DecodeStore
  <2> QED  BY <1>0, <1>6, <2>1, TwoSources, ImmediateType
<1>7. CASE op \in ExtOps \cup FindOps
  <2> DEFINE exec == IF op \in {"l.extwz", "l.extws"} THEN "l.extw" ELSE op
  <2>1. exec \in UnaryExecs  BY <1>7 DEF ExtOps, FindOps, UnaryExecs
  <2>2. Decoded(op, w) = Ci(op, RegD(w), RegA(w), Null, 0, exec)
    BY <1>7, Handlers DEF DecodeUnary
  <2> HIDE DEF exec
  <2> QED  BY <1>0, <1>z, <2>1, <2>2, OneSource
<1>8. CASE op \in AluOps
  <2>1. Decoded(op, w) = Ci(op, RegD(w), RegA(w), RegB(w), 0, op)
    BY <1>8, Handlers DEF DecodeAluRegs
  <2>2. op # "l.macrc"  BY <1>8 DEF AluOps
  <2> QED  BY <1>0, <1>z, <2>1, <2>2, AllThere
<1>9. CASE op \in DoubleOps
  <2>1. Decoded(op, w) = Ci(op, Null, RegA(w), RegB(w), 0, op)
    BY <1>9, Handlers DEF DecodeDouble
  <2> QED  BY <1>0, <1>z, <1>9, <2>1, TwoSources
<1>10. CASE op \in ShiftImmOps
  <2>1. Decoded(op, w) = Ci(op, RegD(w), RegA(w), Imm, Bits(w, 5, 0), ImmExec(op))
    BY <1>10, Handlers DEF DecodeShiftImm
  <2>2. ImmExec(op) # "l.macrc"  BY SMT, <1>10 DEF ImmExec, ShiftImmOps
  <2>3. Bits(w, 5, 0) \in Int  BY BitsType
  <2> QED  BY <1>0, <2>1, <2>2, <2>3, AllThere
<1>11. CASE op \in CompareOps
  <2>1. Decoded(op, w) = Ci(op, Null, RegA(w), RegB(w), 0, op)
    BY <1>11, Handlers DEF DecodeCompare
  <2> QED  BY <1>0, <1>z, <1>11, <2>1, TwoSources
<1>12. CASE op \in CompareImmOps
  <2>1. Decoded(op, w) = Ci(op, Null, RegA(w), Imm, FieldI(w), ImmExec(op))
    BY <1>12, Handlers DEF DecodeCompareImm
  <2>2. ImmExec(op) \in CompareOps  BY SMT, <1>12, CompareSets DEF ImmExec
  <2> QED  BY <1>0, <2>1, <2>2, TwoSources, ImmediateType
<1>13. CASE op \in SystemOps
  <2> DEFINE imm == IF op \in {"l.sys", "l.trap"} THEN FieldK(w) ELSE 0
  <2>1. imm \in Int  BY <1>z, ImmediateType
  <2>2. Decoded(op, w) = Ci(op, Null, Null, Null, imm, op)
    BY <1>13, Handlers DEF DecodeSys
  <2>3. op \notin Ternary \cup Binary \cup Single
             \cup {"l.movhi", "l.macrc", "l.nop", "jump_rel", "jump_abs"}
    BY <1>13, Apart
  <2> HIDE DEF imm
  <2> QED  BY <1>0, <2>1, <2>2, <2>3, RegOperands DEF Usable, Ci
<1>14. CASE op \in SignedImmOps \cup UnsignedImmOps
  <2> DEFINE imm == IF op \in SignedImmOps THEN FieldI(w) ELSE FieldK(w)
  <2>1. imm \in Int  BY ImmediateType
  <2>2. Decoded(op, w) = Ci(op, RegD(w), RegA(w), Imm, imm, ImmExec(op))
    BY <1>14, Handlers DEF DecodeAluImm
  <2>3. ImmExec(op) # "l.macrc"  BY SMT, <1>14 DEF ImmExec, SignedImmOps, UnsignedImmOps
  <2> HIDE DEF imm
  <2> QED  BY <1>0, <2>1, <2>2, <2>3, AllThere
<1> QED
  BY <1>1, <1>2, <1>3, <1>4, <1>5, <1>6, <1>7, <1>8, <1>9, <1>10, <1>11, <1>12, <1>13, <1>14
  DEF Instructions, op
-----------------------------------------------------------------------------
(* The functions of execute.cpp share no name                               *)

MacExecs == (MacOps \ {"l.maci"}) \cup DoubleOps
FpOthers == FpCompareOps \cup FpConvertOps

LEMMA UnitsApart ==
  /\ IntegerExecs \cap (MacExecs \cup Loads \cup Stores \cup {"l.mfspr", "l.mtspr", "l.rfe"}
                        \cup FpArithmetic \cup FpOthers) = {}
  /\ MacExecs \cap (Loads \cup Stores \cup {"l.mfspr", "l.mtspr", "l.rfe"}
                    \cup FpArithmetic \cup FpOthers \cup {"l.addc", "l.sub"}) = {}
  /\ (Loads \cup Stores) \cap ({"l.mfspr", "l.mtspr", "l.rfe"}
                               \cup FpArithmetic \cup FpOthers) = {}
  /\ (FpArithmetic \cup FpOthers) \cap {"l.mfspr", "l.mtspr", "l.rfe"} = {}
  /\ FpArithmetic \cap FpOthers = {}
<1> USE CompareSets, FpSets
    DEF IntegerExecs, LogicExecs, UnaryExecs, MacExecs, MacOps, DoubleOps, Loads, Stores,
        FpArithmetic, FpOthers, FpConvertOps, FpCompares
<1>1. IntegerExecs \cap (MacExecs \cup Loads \cup Stores \cup {"l.mfspr", "l.mtspr", "l.rfe"}
                         \cup FpArithmetic \cup FpOthers) = {}
  BY SMT
<1>2. MacExecs \cap (Loads \cup Stores \cup {"l.mfspr", "l.mtspr", "l.rfe"}
                     \cup FpArithmetic \cup FpOthers \cup {"l.addc", "l.sub"}) = {}
  BY SMT
<1>3. (Loads \cup Stores) \cap ({"l.mfspr", "l.mtspr", "l.rfe"}
                                \cup FpArithmetic \cup FpOthers) = {}
  BY SMT
<1>4. (FpArithmetic \cup FpOthers) \cap {"l.mfspr", "l.mtspr", "l.rfe"} = {}
  BY SMT
<1>5. FpArithmetic \cap FpOthers = {}
  BY SMT
<1> QED  BY ONLY <1>1, <1>2, <1>3, <1>4, <1>5
-----------------------------------------------------------------------------
(* Exceptions and flags                                                     *)

Statuses == [f : BOOLEAN, cy : BOOLEAN, ov : BOOLEAN, ove : BOOLEAN, sm : BOOLEAN,
             sumra : BOOLEAN, ie : BOOLEAN, dsx : BOOLEAN]
Cpus == [sr : Statuses, esr : Statuses, epc : {None, "here", "prev", "next"},
         aesr : SUBSET Causes, jump : {None, "now"}]

\* before the instruction: no exception yet, and in a delay slot or not
Quiet(c) == c.epc = None /\ c.jump = IF setup.slot THEN "now" ELSE None

LEMMA SetupType ==
  ASSUME NEW s \in Setups
  PROVE  /\ s.slot \in BOOLEAN /\ s.sm \in BOOLEAN /\ s.sumra \in BOOLEAN /\ s.ove \in BOOLEAN
         /\ s.level \in BOOLEAN /\ s.fpee \in BOOLEAN
         /\ s.aecr \subseteq Causes
         /\ Words(s.unit) \subseteq InsnWords
         /\ Operands(s.unit) \subseteq [x : Word, y : Word, d : Word, reg : SPRs \cup {None}]
BY InsnAssumption

LEMMA CpuInitType ==
  ASSUME setup \in Setups
  PROVE  /\ CpuInit(setup) \in Cpus
         /\ CpuInit(setup).sr = SrInit(setup) /\ CpuInit(setup).esr = SrInit(setup)
         /\ CpuInit(setup).aesr = {}
         /\ Quiet(CpuInit(setup))
<1>1. SrInit(setup) \in Statuses  BY SetupType DEF SrInit, Statuses
<1>2. (IF setup.slot THEN "now" ELSE None) \in {None, "now"}  OBVIOUS
<1>3. None \in {None, "here", "prev", "next"} /\ {} \in SUBSET Causes  OBVIOUS
<1> QED  BY <1>1, <1>2, <1>3 DEF CpuInit, Cpus, Quiet

\* what an exception does to the status
Handling(sr, slot) == [sr EXCEPT !.sm = TRUE, !.ie = FALSE, !.dsx = @ \/ slot]

LEMMA HandlingType ==
  ASSUME NEW sr \in Statuses, NEW slot \in BOOLEAN
  PROVE  /\ Handling(sr, slot) \in Statuses
         /\ Handling(sr, slot).f = sr.f /\ Handling(sr, slot).cy = sr.cy
         /\ Handling(sr, slot).ov = sr.ov /\ Handling(sr, slot).ove = sr.ove
         /\ Handling(sr, slot).dsx = (sr.dsx \/ slot)
BY DEF Handling, Statuses

LEMMA RaiseFields ==
  ASSUME NEW c \in Cpus, NEW type
  PROVE  /\ Raise(c, type) \in Cpus
         /\ Raise(c, type).esr = c.sr
         /\ Raise(c, type).sr = Handling(c.sr, c.jump = "now")
         /\ Raise(c, type).epc = IF type = "FP" THEN "next"
                                 ELSE IF c.jump = "now" THEN "prev" ELSE "here"
         /\ Raise(c, type).epc # None
         /\ Raise(c, type).jump = "now"
         /\ Raise(c, type).aesr = c.aesr
<1>1. c.sr \in Statuses /\ c.esr \in Statuses /\ c.aesr \in SUBSET Causes  BY DEF Cpus
<1>2. (c.jump = "now") \in BOOLEAN  OBVIOUS
<1> DEFINE sr == Handling(c.sr, c.jump = "now")
           epc == IF type = "FP" THEN "next" ELSE IF c.jump = "now" THEN "prev" ELSE "here"
<1>3. sr \in Statuses  BY <1>1, <1>2, HandlingType
<1>4. epc \in {None, "here", "prev", "next"} /\ epc # None  BY DEF None
<1>5. Raise(c, type) = [c EXCEPT !.esr = c.sr, !.sr = sr, !.jump = "now", !.epc = epc]
  BY DEF Raise, Handling
<1> HIDE DEF sr, epc
<1>6. /\ Raise(c, type) \in Cpus
      /\ Raise(c, type).esr = c.sr /\ Raise(c, type).sr = sr /\ Raise(c, type).epc = epc
      /\ Raise(c, type).jump = "now" /\ Raise(c, type).aesr = c.aesr
  BY <1>1, <1>3, <1>4, <1>5 DEF Cpus
<1> QED  BY <1>4, <1>6 DEF sr, epc

Flags == {"f", "cy", "ov"}
IsCheck(check) == check.flag \in Flags /\ check.cause \in Causes \cup {None}
\* the check raises a range exception
Hits(c, check) == check.hit /\ c.sr.ove /\ check.cause \in setup.aecr

\* all but the flags is as before
SameBut(s, t) == /\ s.ove = t.ove /\ s.sm = t.sm /\ s.sumra = t.sumra /\ s.ie = t.ie
                 /\ s.dsx = t.dsx

LEMMA FlagSet ==
  ASSUME NEW s \in Statuses, NEW flag \in Flags
  PROVE  /\ [s EXCEPT ![flag] = TRUE] \in Statuses
         /\ SameBut([s EXCEPT ![flag] = TRUE], s)
         /\ [s EXCEPT ![flag] = TRUE][flag] = TRUE
         /\ \A g \in Flags \ {flag} : [s EXCEPT ![flag] = TRUE][g] = s[g]
<1>1. CASE flag = "f"  BY <1>1 DEF Statuses, SameBut, Flags
<1>2. CASE flag = "cy"  BY <1>2 DEF Statuses, SameBut, Flags
<1>3. CASE flag = "ov"  BY <1>3 DEF Statuses, SameBut, Flags
<1> QED  BY <1>1, <1>2, <1>3 DEF Flags

LEMMA CheckedFields ==
  ASSUME setup \in Setups, NEW c \in Cpus, NEW check, IsCheck(check)
  PROVE  LET s == [c.sr EXCEPT ![check.flag] = TRUE]
             r == Checked(c, check)
         IN  /\ r \in Cpus
             /\ s \in Statuses /\ SameBut(s, c.sr)
             /\ ~check.hit => r = c
             /\ check.hit /\ ~Hits(c, check) =>
                  r.sr = s /\ r.esr = c.esr /\ r.epc = c.epc /\ r.jump = c.jump /\ r.aesr = c.aesr
             /\ Hits(c, check) =>
                  /\ r.sr = Handling(s, c.jump = "now") /\ r.esr = s
                  /\ r.epc = IF c.jump = "now" THEN "prev" ELSE "here"
                  /\ r.epc # None
                  /\ r.aesr = c.aesr \cup {check.cause}
<1> DEFINE s == [c.sr EXCEPT ![check.flag] = TRUE]
           r == Checked(c, check)
           set == [c EXCEPT !.sr[check.flag] = TRUE]
<1>1. c.sr \in Statuses /\ c.esr \in Statuses  BY DEF Cpus
<1>2. s \in Statuses /\ SameBut(s, c.sr)  BY <1>1, FlagSet DEF IsCheck
<1>3. set = [c EXCEPT !.sr = s]  BY DEF Cpus
<1> HIDE DEF s, set
<1>4. /\ set \in Cpus /\ set.sr = s /\ set.esr = c.esr /\ set.epc = c.epc
      /\ set.jump = c.jump /\ set.aesr = c.aesr
  BY <1>1, <1>2, <1>3 DEF Cpus
<1>5. r = IF ~check.hit THEN c
          ELSE IF c.sr.ove /\ check.cause \in setup.aecr
               THEN Raise([set EXCEPT !.aesr = @ \cup {check.cause}], "RANGE") ELSE set
  BY DEF Checked, set
<1> HIDE DEF r
<1>6. CASE ~check.hit
  <2>1. r = c  BY <1>5, <1>6
  <2> QED  BY <2>1, <1>2, <1>6 DEF Hits, r, s
<1>7. CASE check.hit /\ ~Hits(c, check)
  <2>1. r = set  BY <1>5, <1>7 DEF Hits
  <2> QED  BY <2>1, <1>2, <1>4, <1>7 DEF r, s
<1>8. CASE Hits(c, check)
  <2> DEFINE told == [set EXCEPT !.aesr = @ \cup {check.cause}]
  <2>1. check.cause \in Causes  BY <1>8, SetupType DEF Hits
  <2>2. /\ told \in Cpus /\ told.sr = s /\ told.jump = c.jump
        /\ told.aesr = c.aesr \cup {check.cause}
    BY <2>1, <1>4 DEF Cpus
  <2>3. r = Raise(told, "RANGE") /\ check.hit  BY <1>5, <1>8 DEF Hits
  <2> HIDE DEF told
  <2>4. /\ r \in Cpus /\ r.esr = s /\ r.sr = Handling(s, c.jump = "now")
        /\ r.epc = IF c.jump = "now" THEN "prev" ELSE "here"
        /\ r.epc # None /\ r.aesr = c.aesr \cup {check.cause}
    BY <2>2, <2>3, RaiseFields
  <2> QED  BY <2>3, <2>4, <1>2, <1>8 DEF r, s
<1> QED  BY <1>6, <1>7, <1>8

IsEffect(e) == IsCheck(e.first) /\ IsCheck(e.second)

\* the status saved is the one that the instruction found, with the flags it set
SavedExactly(c, r, place) ==
  /\ r.esr = [c.sr EXCEPT !.f = r.sr.f, !.cy = r.sr.cy, !.ov = r.sr.ov]
  /\ r.epc = place
  /\ r.sr.dsx = (setup.slot \/ c.sr.dsx)

Place == IF setup.slot THEN "prev" ELSE "here"

LEMMA SameButFlags ==
  ASSUME NEW s \in Statuses, NEW t \in Statuses, SameBut(s, t)
  PROVE  s = [t EXCEPT !.f = s.f, !.cy = s.cy, !.ov = s.ov]
BY DEF Statuses, SameBut

LEMMA ClearedFields ==
  ASSUME NEW c \in Cpus, NEW flags
  PROVE  /\ Cleared(c, flags) \in Cpus
         /\ SameBut(Cleared(c, flags).sr, c.sr)
         /\ Cleared(c, flags).esr = c.esr /\ Cleared(c, flags).epc = c.epc
         /\ Cleared(c, flags).jump = c.jump /\ Cleared(c, flags).aesr = c.aesr
<1>1. c.sr \in Statuses  BY DEF Cpus
<1> DEFINE f  == c.sr.f /\ "f" \notin flags
           cy == c.sr.cy /\ "cy" \notin flags
           ov == c.sr.ov /\ "ov" \notin flags
           s  == [c.sr EXCEPT !.f = f, !.cy = cy, !.ov = ov]
<1>2. Cleared(c, flags) = [c EXCEPT !.sr = s]  BY <1>1 DEF Cleared, Cpus, Statuses
<1>3. f \in BOOLEAN /\ cy \in BOOLEAN /\ ov \in BOOLEAN  OBVIOUS
<1> HIDE DEF f, cy, ov
<1>4. s \in Statuses  BY <1>1, <1>3 DEF Statuses
<1>5. SameBut(s, c.sr)  BY <1>1 DEF Statuses, SameBut
<1> HIDE DEF s
<1> QED  BY <1>2, <1>4, <1>5 DEF Cpus

LEMMA EffectsFields ==
  ASSUME setup \in Setups, NEW c \in Cpus, Quiet(c), c.aesr \subseteq setup.aecr,
         NEW e, IsEffect(e)
  PROVE  LET r == Effects(c, e)
         IN  /\ r \in Cpus /\ r.aesr \subseteq setup.aecr
             /\ r.epc = None => r.sr.sm = c.sr.sm
             /\ e.first.hit /\ e.second.hit /\ e.first.flag = "cy" /\ e.second.flag = "ov"
                  => r.sr.cy /\ r.sr.ov
             /\ r.epc # None /\ ~(e.first.cause \in setup.aecr /\ e.first.hit /\ e.second.hit)
                  => SavedExactly(c, r, Place)
<1> DEFINE c1 == Cleared(c, e.clear)
           c2 == Checked(c1, e.first)
           r  == Checked(c2, e.second)
           s1 == [c1.sr EXCEPT ![e.first.flag] = TRUE]
           s2 == [c2.sr EXCEPT ![e.second.flag] = TRUE]
           slot == (c.jump = "now")
<1>0. /\ setup.slot \in BOOLEAN /\ (slot <=> setup.slot) /\ c.epc = None
      /\ Place = IF slot THEN "prev" ELSE "here"
  BY SetupType DEF Quiet, None, Place
<1>1. /\ c1 \in Cpus /\ SameBut(c1.sr, c.sr) /\ c1.esr = c.esr /\ c1.epc = None
      /\ c1.jump = c.jump /\ c1.aesr = c.aesr
  BY <1>0, ClearedFields
<1>2. IsCheck(e.first) /\ IsCheck(e.second)  BY DEF IsEffect
<1> HIDE DEF c1
<1>3. /\ c2 \in Cpus /\ s1 \in Statuses /\ SameBut(s1, c1.sr)
      /\ ~e.first.hit => c2 = c1
      /\ e.first.hit /\ ~Hits(c1, e.first) =>
           c2.sr = s1 /\ c2.esr = c1.esr /\ c2.epc = c1.epc /\ c2.jump = c1.jump
           /\ c2.aesr = c1.aesr
      /\ Hits(c1, e.first) =>
           /\ c2.sr = Handling(s1, c1.jump = "now") /\ c2.esr = s1
           /\ c2.epc = IF c1.jump = "now" THEN "prev" ELSE "here"
           /\ c2.epc # None
           /\ c2.aesr = c1.aesr \cup {e.first.cause}
  BY <1>1, <1>2, CheckedFields
<1> HIDE DEF c2
<1>4. /\ r \in Cpus /\ s2 \in Statuses /\ SameBut(s2, c2.sr)
      /\ ~e.second.hit => r = c2
      /\ e.second.hit /\ ~Hits(c2, e.second) =>
           r.sr = s2 /\ r.esr = c2.esr /\ r.epc = c2.epc /\ r.jump = c2.jump
           /\ r.aesr = c2.aesr
      /\ Hits(c2, e.second) =>
           /\ r.sr = Handling(s2, c2.jump = "now") /\ r.esr = s2
           /\ r.epc = IF c2.jump = "now" THEN "prev" ELSE "here"
           /\ r.epc # None
           /\ r.aesr = c2.aesr \cup {e.second.cause}
  BY <1>2, <1>3, CheckedFields
<1>5. Effects(c, e) = r  BY DEF Effects, c1, c2
<1> HIDE DEF r
<1>6. c.sr \in Statuses /\ c1.sr \in Statuses /\ c2.sr \in Statuses /\ r.sr \in Statuses
  BY <1>1, <1>3, <1>4 DEF Cpus
<1>7. /\ e.first.flag \in Flags => s1[e.first.flag] = TRUE
      /\ e.second.flag \in Flags =>
           s2[e.second.flag] = TRUE /\ \A g \in Flags \ {e.second.flag} : s2[g] = c2.sr[g]
  <2>1. ASSUME e.first.flag \in Flags  PROVE s1[e.first.flag] = TRUE
    BY <1>6, <2>1, FlagSet
  <2>2. ASSUME e.second.flag \in Flags
        PROVE  /\ s2[e.second.flag] = TRUE
               /\ \A g \in Flags \ {e.second.flag} : s2[g] = c2.sr[g]
    <3>1. PICK s \in Statuses : s = c2.sr  BY <1>6
    <3>2. PICK flag \in Flags : flag = e.second.flag  BY <2>2
    <3>3. s2 = [s EXCEPT ![flag] = TRUE]  BY <3>1, <3>2
    <3> HIDE DEF s2
    <3>4. /\ [s EXCEPT ![flag] = TRUE][flag] = TRUE
          /\ \A g \in Flags \ {flag} : [s EXCEPT ![flag] = TRUE][g] = s[g]
      BY Zenon, FlagSet
    <3>5. s2[flag] = TRUE /\ \A g \in Flags \ {flag} : s2[g] = s[g]  BY Zenon, <3>3, <3>4
    <3> QED  BY <3>1, <3>2, <3>5
  <2> HIDE DEF s1, s2
  <2> QED  BY <2>1, <2>2
<1> HIDE DEF s1, s2, slot
<1>8. r.aesr \subseteq setup.aecr
  <2>1. c2.aesr \subseteq setup.aecr  BY <1>1, <1>3 DEF Hits
  <2> QED  BY <2>1, <1>4 DEF Hits
<1>9. r.epc = None => r.sr.sm = c.sr.sm
  <2> SUFFICES ASSUME r.epc = None  PROVE r.sr.sm = c.sr.sm  OBVIOUS
  <2>1. ~Hits(c2, e.second) /\ c2.epc = None /\ r.sr.sm = c2.sr.sm
    BY <1>4 DEF Hits, SameBut
  <2>2. ~Hits(c1, e.first) /\ c2.sr.sm = c1.sr.sm
    BY <2>1, <1>3 DEF Hits, SameBut
  <2> QED  BY <2>1, <2>2, <1>1 DEF SameBut
<1>10. e.first.hit /\ e.second.hit /\ e.first.flag = "cy" /\ e.second.flag = "ov"
         => r.sr.cy /\ r.sr.ov
  <2> SUFFICES ASSUME e.first.hit, e.second.hit, e.first.flag = "cy", e.second.flag = "ov"
               PROVE  r.sr.cy /\ r.sr.ov
    OBVIOUS
  <2>1. s1["cy"] = TRUE /\ s2["ov"] = TRUE /\ s2["cy"] = c2.sr["cy"]
    BY <1>7 DEF Flags
  <2>2. c2.sr.cy = TRUE
    <3>1. CASE Hits(c1, e.first)
      <4> DEFINE now == (c1.jump = "now")
      <4>1. now \in BOOLEAN /\ c2.sr = Handling(s1, now)  BY <3>1, <1>3
      <4> HIDE DEF now
      <4>2. c2.sr.cy = s1.cy  BY <4>1, <1>3, HandlingType
      <4> QED  BY <4>2, <2>1
    <3>2. CASE ~Hits(c1, e.first)  BY <3>2, <2>1, <1>3
    <3> QED  BY <3>1, <3>2
  <2>3. CASE Hits(c2, e.second)
    <3> DEFINE now == (c2.jump = "now")
    <3>1. now \in BOOLEAN /\ r.sr = Handling(s2, now)  BY <2>3, <1>4
    <3> HIDE DEF now
    <3>2. r.sr.cy = s2.cy /\ r.sr.ov = s2.ov  BY <3>1, <1>4, HandlingType
    <3> QED  BY <3>2, <2>1, <2>2
  <2>4. CASE ~Hits(c2, e.second)  BY <2>1, <2>2, <2>4, <1>4
  <2> QED  BY <2>3, <2>4
<1>11. r.epc # None /\ ~(e.first.cause \in setup.aecr /\ e.first.hit /\ e.second.hit)
         => SavedExactly(c, r, Place)
  <2> SUFFICES ASSUME r.epc # None,
                      ~(e.first.cause \in setup.aecr /\ e.first.hit /\ e.second.hit)
               PROVE  SavedExactly(c, r, Place)
    OBVIOUS
  <2>0. slot \in BOOLEAN  BY DEF slot
  <2>a. ASSUME NEW s \in Statuses, SameBut(s, c.sr), r.esr = s, r.sr = Handling(s, slot),
               r.epc = IF slot THEN "prev" ELSE "here"
        PROVE  SavedExactly(c, r, Place)
    <3>1. r.sr.f = s.f /\ r.sr.cy = s.cy /\ r.sr.ov = s.ov /\ r.sr.dsx = (s.dsx \/ slot)
      BY <2>0, <2>a, HandlingType
    <3>2. s = [c.sr EXCEPT !.f = s.f, !.cy = s.cy, !.ov = s.ov] /\ s.dsx = c.sr.dsx
      BY <2>a, <1>6, SameButFlags DEF SameBut
    <3>3. r.esr = [c.sr EXCEPT !.f = r.sr.f, !.cy = r.sr.cy, !.ov = r.sr.ov]
      BY <2>a, <3>1, <3>2
    <3>4. c.sr.dsx \in BOOLEAN  BY <1>6 DEF Statuses
    <3>5. r.sr.dsx = (setup.slot \/ c.sr.dsx)  BY <3>1, <3>2, <3>4, <2>0, <1>0
    <3> QED  BY <3>3, <3>5, <2>a, <1>0 DEF SavedExactly
  <2>1. CASE Hits(c1, e.first)
    <3>1. ~e.second.hit  BY <2>1 DEF Hits
    <3>2. r = c2  BY <3>1, <1>4
    <3>3. SameBut(s1, c.sr)  BY <1>1, <1>3 DEF SameBut
    <3>4. (c1.jump = "now") = slot  BY <1>1 DEF slot
    <3> QED  BY <3>2, <3>3, <3>4, <2>1, <2>a, <1>3
  <2>2. CASE ~Hits(c1, e.first)
    <3>1. c2.epc = None /\ c2.jump = c.jump /\ SameBut(c2.sr, c.sr)
      BY <2>2, <1>1, <1>3 DEF SameBut, Hits
    <3>2. Hits(c2, e.second)  BY <3>1, <1>4 DEF Hits
    <3>3. SameBut(s2, c.sr)  BY <3>1, <1>4 DEF SameBut
    <3>4. (c2.jump = "now") = slot  BY <3>1 DEF slot
    <3> QED  BY <3>2, <3>3, <3>4, <2>a, <1>4
  <2> QED  BY <2>1, <2>2
<1> QED  BY <1>4, <1>5, <1>8, <1>9, <1>10, <1>11
-----------------------------------------------------------------------------
(* The effects of the integer instructions and of the accumulator           *)

\* at most one range exception
Once(e) == ~(e.first.cause \in setup.aecr /\ e.first.hit /\ e.second.hit)

LEMMA NoCheckIs ==
  IsCheck(NoCheck) /\ ~NoCheck.hit
BY DEF IsCheck, Check, NoCheck, Flags

ChecksOnce(e) == /\ e.second = NoCheck
                 /\ e.first.flag \in Flags /\ e.first.cause \in Causes \cup {None}

LEMMA OneCheck ==
  ASSUME NEW e, ChecksOnce(e)
  PROVE  IsEffect(e) /\ Once(e)
BY NoCheckIs DEF ChecksOnce, IsEffect, IsCheck, Once

LEMMA CausesNamed ==
  /\ {"cy", "ov", "f"} = Flags
  /\ {"CYADDE", "CYMULE", "CYMACADDE", "OVADDE", "OVMULE", "OVMACADDE", "DBZE"} = Causes
BY DEF Flags, Causes

LEMMA IntegerEffect ==
  ASSUME setup \in Setups, NEW exec \in IntegerExecs, NEW a, NEW b, NEW sr
  PROVE  LET e == Integer(exec, a, b, sr)
         IN  /\ IsEffect(e)
             /\ exec \notin {"l.addc", "l.sub"} => Once(e)
             /\ exec \in {"l.addc", "l.sub"} =>
                  e.first.flag = "cy" /\ e.second.flag = "ov" /\ e.first.cause = "CYADDE"
<1> DEFINE e == Integer(exec, a, b, sr)
<1>0. None \notin setup.aecr  BY SetupType DEF Causes, None
<1>s. {"cy", "ov", "f"} = Flags
      /\ {"CYADDE", "CYMULE", "CYMACADDE", "OVADDE", "OVMULE", "OVMACADDE", "DBZE"} = Causes
  BY CausesNamed
<1>1. CASE exec = "l.add"
  <2>1. e = Add(a, b)
    BY SMT, <1>1, CompareSets DEF Integer, LogicExecs, UnaryExecs
  <2>2. /\ e.first.flag = "cy" /\ e.first.cause = None
        /\ e.second.flag = "ov" /\ e.second.cause = "OVADDE"
    BY <2>1 DEF Add, Does, Check
  <2> HIDE DEF e
  <2>4. IsEffect(e)  BY <2>2, <1>s DEF IsEffect, IsCheck
  <2>5. e.first.cause = None  BY <2>2
  <2>6. Once(e)  BY <2>5, <1>0 DEF Once
  <2> QED  BY <2>4, <2>6, <1>1 DEF e
<1>2. CASE exec \in {"l.addc", "l.sub"}
  <2>1. e = IF exec = "l.addc" THEN Addc(a, b, sr.cy) ELSE Sub(a, b)
    BY SMT, <1>2, CompareSets DEF Integer, LogicExecs, UnaryExecs
  <2>2. /\ Addc(a, b, sr.cy).first.flag = "cy" /\ Addc(a, b, sr.cy).first.cause = "CYADDE"
        /\ Addc(a, b, sr.cy).second.flag = "ov" /\ Addc(a, b, sr.cy).second.cause = "OVADDE"
    BY DEF Addc, Does, Check
  <2>3. /\ Sub(a, b).first.flag = "cy" /\ Sub(a, b).first.cause = "CYADDE"
        /\ Sub(a, b).second.flag = "ov" /\ Sub(a, b).second.cause = "OVADDE"
    BY DEF Sub, Does, Check
  <2>4. /\ e.first.flag = "cy" /\ e.first.cause = "CYADDE"
        /\ e.second.flag = "ov" /\ e.second.cause = "OVADDE"
    BY <2>1, <2>2, <2>3
  <2> HIDE DEF e
  <2>5. IsEffect(e)  BY <2>4, <1>s DEF IsEffect, IsCheck
  <2> QED  BY <2>4, <2>5, <1>2 DEF e
<1>3. CASE exec \in {"l.mul", "l.mulu", "l.div", "l.divu"}
  <2>1. e \in {Mul(a, b), Mulu(a, b), Div(a, b), Divu(a, b)}
    BY SMT, <1>3, CompareSets DEF Integer, LogicExecs, UnaryExecs
  <2>3. /\ NoCheck.flag \in Flags /\ NoCheck.cause \in Causes \cup {None}
        /\ {"cy", "ov"} \subseteq Flags /\ {"OVMULE", "CYMULE", "DBZE"} \subseteq Causes
    BY <1>s DEF NoCheck, Check
  <2>4. ChecksOnce(Mul(a, b))  BY <2>3 DEF ChecksOnce, Mul, Does, Check
  <2>5. ChecksOnce(Mulu(a, b))  BY <2>3 DEF ChecksOnce, Mulu, Does, Check
  <2>6. ChecksOnce(Div(a, b))
    <3>1. CASE b = 0  BY <2>3, <3>1 DEF ChecksOnce, Div, Does, Check
    <3>2. CASE b # 0  BY <2>3, <3>2 DEF ChecksOnce, Div, Does
    <3> QED  BY <3>1, <3>2
  <2>7. ChecksOnce(Divu(a, b))
    <3>1. CASE b = 0  BY <2>3, <3>1 DEF ChecksOnce, Divu, Does, Check
    <3>2. CASE b # 0  BY <2>3, <3>2 DEF ChecksOnce, Divu, Does
    <3> QED  BY <3>1, <3>2
  <2>2. \A r \in {Mul(a, b), Mulu(a, b), Div(a, b), Divu(a, b)} : ChecksOnce(r)
    BY <2>4, <2>5, <2>6, <2>7
  <2> HIDE DEF e
  <2>8. IsEffect(e) /\ Once(e)  BY <2>1, <2>2, OneCheck
  <2> QED  BY <2>8, <1>3 DEF e
<1>4. CASE exec \in CompareOps
  <2>1. e = Does(NoResult, {"f"}, Check(Compares(exec, a, b), "f", None), NoCheck)
    BY SMT, <1>4, CompareSets DEF Integer, LogicExecs, UnaryExecs
  <2>4. e.second = NoCheck /\ e.first.flag = "f" /\ e.first.cause = None
    BY <2>1 DEF Does, Check
  <2> HIDE DEF e
  <2>2. IsEffect(e) /\ Once(e)  BY <2>4, <1>s, OneCheck DEF ChecksOnce
  <2>3. exec \notin {"l.addc", "l.sub"}  BY <1>4, CompareSets
  <2> QED  BY <2>2, <2>3 DEF e
<1>5. CASE exec \in LogicExecs \cup UnaryExecs
  <2>1. e \in {Plain(Logic(exec, a, b, sr.f)), Plain(Unary(exec, a))}
    BY SMT, <1>5, CompareSets DEF Integer, LogicExecs, UnaryExecs
  <2>4. e.second = NoCheck /\ e.first = NoCheck  BY <2>1 DEF Plain, Does
  <2> HIDE DEF e
  <2>2. IsEffect(e) /\ Once(e)  BY <2>4, NoCheckIs DEF IsEffect, Once
  <2>3. exec \notin {"l.addc", "l.sub"}  BY <1>5 DEF LogicExecs, UnaryExecs
  <2> QED  BY <2>2, <2>3 DEF e
<1> QED  BY <1>1, <1>2, <1>3, <1>4, <1>5 DEF IntegerExecs

LEMMA MacEffect ==
  ASSUME NEW exec \in MacExecs, NEW a, NEW b, NEW m
  PROVE  IsEffect(MacResult(exec, a, b, m)) /\ Once(MacResult(exec, a, b, m))
<1> DEFINE e == MacResult(exec, a, b, m)
<1>1. \E sum : e \in {AccumulateSigned(sum), AccumulateUnsigned(sum), ProductSigned(sum),
                      ProductUnsigned(sum), Plain(sum)}
  BY SMT DEF MacResult, MacExecs, MacOps, DoubleOps
<1>2. /\ {"cy", "ov", "f"} = Flags
      /\ {"OVMACADDE", "CYMACADDE", "OVMULE", "CYMULE"} \subseteq Causes
      /\ NoCheck.flag \in Flags /\ NoCheck.cause \in Causes \cup {None}
  BY CausesNamed DEF NoCheck, Check
<1>3. \A sum : ChecksOnce(AccumulateSigned(sum))  BY <1>2 DEF ChecksOnce, AccumulateSigned, Does, Check
<1>4. \A sum : ChecksOnce(AccumulateUnsigned(sum))
  BY <1>2 DEF ChecksOnce, AccumulateUnsigned, Does, Check
<1>5. \A sum : ChecksOnce(ProductSigned(sum))  BY <1>2 DEF ChecksOnce, ProductSigned, Does, Check
<1>6. \A sum : ChecksOnce(ProductUnsigned(sum))  BY <1>2 DEF ChecksOnce, ProductUnsigned, Does, Check
<1>7. \A sum : ChecksOnce(Plain(sum))  BY <1>2 DEF ChecksOnce, Plain, Does
<1> HIDE DEF e
<1>8. IsEffect(e) /\ Once(e)  BY <1>1, <1>3, <1>4, <1>5, <1>6, <1>7, OneCheck
<1> QED  BY <1>8 DEF e
-----------------------------------------------------------------------------
(* Words and the accumulator as numbers                                     *)

LEMMA SizeType ==
  /\ Size \in Nat \ {0}
  /\ Double \in Nat \ {0} /\ Double = Size * Size
<1>1. Size \in Nat \ {0}  BY WidthAssumption, PowerAssumption DEF Size
<1> QED  BY <1>1 DEF Double

LEMMA DivMod ==
  ASSUME NEW v \in Int, NEW m \in Nat \ {0}
  PROVE  /\ v \div m \in Int /\ v % m \in 0..(m - 1)
         /\ v = m * (v \div m) + (v % m)
OBVIOUS

LEMMA Unique ==
  ASSUME NEW m \in Nat \ {0}, NEW q \in Int, NEW p \in Int,
         NEW r \in 0..(m - 1), NEW s \in 0..(m - 1), m * q + r = m * p + s
  PROVE  q = p /\ r = s
<1>1. CASE q > p
  <2>1. m * q >= m * (p + 1)  BY <1>1
  <2>2. m * (p + 1) = m * p + m  OBVIOUS
  <2> QED  BY <2>1, <2>2
<1>2. CASE q < p
  <2>1. m * p >= m * (q + 1)  BY <1>2
  <2>2. m * (q + 1) = m * q + m  OBVIOUS
  <2> QED  BY <2>1, <2>2
<1> QED  BY <1>1, <1>2

LEMMA Residue ==
  ASSUME NEW m \in Nat \ {0}, NEW q \in Int, NEW r \in 0..(m - 1)
  PROVE  (m * q + r) % m = r /\ (m * q + r) \div m = q
<1> DEFINE v == m * q + r
<1>1. v \in Int  OBVIOUS
<1>2. /\ v \div m \in Int /\ v % m \in 0..(m - 1)
      /\ v = m * (v \div m) + (v % m)
  BY <1>1, DivMod
<1> DEFINE q2 == v \div m
           r2 == v % m
<1>3. q2 \in Int /\ r2 \in 0..(m - 1) /\ m * q2 + r2 = m * q + r  BY <1>2
<1> HIDE DEF q2, r2
<1>4. q2 = q /\ r2 = r  BY <1>3, Unique
<1> QED  BY <1>4 DEF q2, r2

\* a sum reduced on the way
LEMMA SumReduced ==
  ASSUME NEW m \in Nat \ {0}, NEW a \in Int, NEW b \in Int
  PROVE  ((a % m) + b) % m = (a + b) % m
<1> DEFINE q == a \div m
           r == a % m
           s == (a + b) \div m
           u == (a + b) % m
<1>0. a + b \in Int  OBVIOUS
<1>1. q \in Int /\ r \in 0..(m - 1) /\ a = m * q + r  BY DivMod
<1>2. s \in Int /\ u \in 0..(m - 1) /\ a + b = m * s + u  BY <1>0, DivMod
<1> HIDE DEF q, r, s, u
<1>3. r + b = m * (s - q) + u
  <2>1. m * (s - q) = m * s - m * q  BY <1>1, <1>2
  <2> QED  BY <2>1, <1>1, <1>2
<1>4. s - q \in Int  BY <1>1, <1>2
<1>5. (m * (s - q) + u) % m = u  BY <1>4, <1>2, Residue
<1>6. (r + b) % m = u  BY <1>3, <1>5
<1> QED  BY <1>6 DEF r, u

LEMMA SignedType ==
  ASSUME NEW v \in Word
  PROVE  Signed(v) \in Int /\ v \in Nat
BY SizeType DEF Signed, Word

\* the accumulator, split into its two words and put together
LEMMA TwoWords ==
  ASSUME NEW v \in Nat, v < Double
  PROVE  /\ v \div Size \in Word /\ v % Size \in Word
         /\ (v \div Size) * Size + (v % Size) = v
<1> DEFINE q == v \div Size
           r == v % Size
<1>1. Size \in Nat \ {0} /\ Double = Size * Size  BY SizeType
<1>2. q \in Int /\ r \in 0..(Size - 1) /\ v = Size * q + r  BY <1>1, DivMod
<1> HIDE DEF q, r
<1>3. q >= 0
  <2>1. CASE q < 0
    <3>1. Size * q <= Size * (-1)  BY <2>1, <1>1, <1>2
    <3> QED  BY <3>1, <1>1, <1>2
  <2> QED  BY <2>1, <1>2
<1>4. q < Size
  <2>1. CASE q >= Size
    <3>1. Size * q >= Size * Size  BY <2>1, <1>1, <1>2
    <3> QED  BY <3>1, <1>1, <1>2
  <2> QED  BY <2>1, <1>1, <1>2
<1>5. q * Size = Size * q  BY <1>1, <1>2
<1> QED  BY <1>1, <1>2, <1>3, <1>4, <1>5 DEF q, r, Word

LEMMA ProductFits ==
  ASSUME NEW a \in Word, NEW b \in Word
  PROVE  a * b \in Nat /\ a * b < Double
<1>1. Size \in Nat \ {0} /\ Double = Size * Size  BY SizeType
<1>2. a \in Nat /\ b \in Nat /\ a < Size /\ b < Size  BY <1>1 DEF Word
<1>3. a * b \in Nat  BY <1>2
<1>4. a * b <= a * Size  BY <1>1, <1>2
<1>5. a * Size < Size * Size  BY <1>1, <1>2
<1> QED  BY <1>1, <1>2, <1>3, <1>4, <1>5

\* the new accumulator is the old one, or nothing, and the term
MacTerm(exec, a, b) ==
  CASE exec = "l.mac"   -> Signed(a) * Signed(b)
    [] exec = "l.muld"  -> Signed(a) * Signed(b)
    [] exec = "l.macu"  -> a * b
    [] exec = "l.muldu" -> a * b
    [] exec = "l.msb"   -> -(Signed(a) * Signed(b))
    [] exec = "l.msbu"  -> -(a * b)
    [] exec = "l.macrc" -> 0

LEMMA MacAdds ==
  ASSUME NEW exec \in MacExecs, NEW a \in Word, NEW b \in Word, NEW m \in Nat
  PROVE  /\ MacTerm(exec, a, b) \in Int
         /\ MacResult(exec, a, b, m).d
              = (IF exec \in DoubleOps \cup {"l.macrc"} THEN MacTerm(exec, a, b)
                 ELSE m + MacTerm(exec, a, b)) % Double
<1>1. PICK sp \in Int : sp = Signed(a) * Signed(b)  BY SignedType
<1>2. PICK up \in Nat : up = a * b /\ up < Double  BY ProductFits
<1>3. Double \in Nat \ {0}  BY SizeType
<1>4. up % Double = up
  <2>1. up \in 0..(Double - 1) /\ 0 \in Int /\ Double * 0 + up = up  BY <1>2, <1>3
  <2> QED  BY <2>1, <1>3, Residue
<1>5. 0 % Double = 0
  <2>1. 0 \in 0..(Double - 1) /\ 0 \in Int /\ Double * 0 + 0 = 0  BY <1>3
  <2> QED  BY <2>1, <1>3, Residue
<1>6. CASE exec = "l.mac"
  BY SMT, <1>1, <1>6 DEF MacTerm, MacResult, AccumulateSigned, Does, DoubleOps
<1>7. CASE exec = "l.msb"
  <2>1. m - sp = m + (-sp) /\ -sp \in Int  OBVIOUS
  <2> QED  BY SMT, <2>1, <1>1, <1>7 DEF MacTerm, MacResult, AccumulateSigned, Does, DoubleOps
<1>8. CASE exec = "l.macu"
  BY SMT, <1>2, <1>8 DEF MacTerm, MacResult, AccumulateUnsigned, Does, DoubleOps
<1>9. CASE exec = "l.msbu"
  <2>1. m - up = m + (-up) /\ -up \in Int  OBVIOUS
  <2> QED  BY SMT, <2>1, <1>2, <1>9 DEF MacTerm, MacResult, AccumulateUnsigned, Does, DoubleOps
<1>10. CASE exec = "l.muld"
  BY SMT, <1>1, <1>10 DEF MacTerm, MacResult, ProductSigned, Does, DoubleOps
<1>11. CASE exec = "l.muldu"
  BY SMT, <1>2, <1>4, <1>11 DEF MacTerm, MacResult, ProductUnsigned, Does, DoubleOps
<1>12. CASE exec = "l.macrc"
  BY SMT, <1>5, <1>12 DEF MacTerm, MacResult, Plain, Does, DoubleOps
<1> QED
  BY <1>6, <1>7, <1>8, <1>9, <1>10, <1>11, <1>12 DEF MacExecs, MacOps, DoubleOps
-----------------------------------------------------------------------------
(* The special purpose registers                                            *)

LEMMA StoredNames ==
  Stored = {"EVBAR", "AECR", "AESR", "NPC", "PPC", "FPCSR", "EPCR", "EEAR", "ESR",
            "DMMUCR", "DTLB", "IMMUCR", "ITLB", "MACHI", "MACLO",
            "PICMR", "PICSR", "GPR"}
BY SMT DEF Stored, System, MmuRegs, MacRegs, Devices

LEMMA Grants ==
  ASSUME NEW r
  PROVE  /\ r \in Stored \cup {"SR"} => Access(r) = {"SRE", "SWE"}
         /\ "UWE" \in Access(r) => r \in UserStrobes \cup {Unchecked}
<1>1. ASSUME r \in Stored \cup {"SR"}  PROVE Access(r) = {"SRE", "SWE"}
  BY SMT, <1>1, StoredNames DEF Access, ReadOnly, Strobes, UserStrobes, Unchecked
<1>2. ASSUME "UWE" \in Access(r)  PROVE r \in UserStrobes \cup {Unchecked}
  BY SMT, <1>2 DEF Access
<1> QED  BY <1>1, <1>2

\* a write that user mode is granted, and one to the status, change no register
LEMMA NothingWritten ==
  ASSUME NEW s, NEW r \in UserStrobes \cup {Unchecked, "SR"}, NEW val, NEW level
  PROVE  Written(s, r, val, level) = s
BY SMT, StoredNames DEF Written, UserStrobes, Unchecked

LEMMA SetSprFields ==
  ASSUME NEW s, NEW sr \in Statuses, NEW r, NEW val, NEW level
  PROVE  LET after == SetSpr(s, sr, r, val, level)
         IN  /\ after.spr = s \/ after.spr = Written(s, r, val, level)
             /\ sr.sm /\ r \in Stored => after.spr = Written(s, r, val, level)
             /\ ~sr.sm => after.spr = s /\ after.sr = sr
             /\ r = "SR" => after.spr = s
             /\ after.sr \in Statuses
<1> DEFINE after == SetSpr(s, sr, r, val, level)
           new == IF r = "SR" THEN StatusWritten(val) ELSE sr
<1>1. new \in Statuses
  <2>1. StatusWritten(val) \in Statuses  BY DEF StatusWritten, Statuses
  <2> QED  BY <2>1
<1>2. \/ after.spr = s /\ after.sr = sr /\ ~CheckAccess(r, TRUE, sr.sm)
      \/ after.spr = Written(s, r, val, level) /\ after.sr = new /\ CheckAccess(r, TRUE, sr.sm)
  BY DEF SetSpr
<1>3. sr.sm /\ r \in Stored => CheckAccess(r, TRUE, sr.sm)
  BY Grants DEF CheckAccess
<1>4. ~sr.sm /\ CheckAccess(r, TRUE, sr.sm) => r \in UserStrobes \cup {Unchecked}
  BY Grants DEF CheckAccess
<1>5. "SR" \notin UserStrobes \cup {Unchecked}  BY DEF UserStrobes, Unchecked
<1>6. sr.sm /\ r \in Stored => after.spr = Written(s, r, val, level)
  BY <1>2, <1>3
<1>7. ASSUME ~sr.sm  PROVE after.spr = s /\ after.sr = sr
  <2> HIDE DEF after
  <2>1. CASE ~CheckAccess(r, TRUE, sr.sm)  BY <1>2, <2>1
  <2>2. CASE CheckAccess(r, TRUE, sr.sm)
    <3>1. r \in UserStrobes \cup {Unchecked}  BY <1>4, <1>7, <2>2
    <3>2. Written(s, r, val, level) = s  BY <3>1, NothingWritten
    <3>3. new = sr  BY <3>1, <1>5
    <3> HIDE DEF new
    <3> QED  BY <1>2, <2>2, <3>2, <3>3
  <2> QED  BY <2>1, <2>2
<1>8. r = "SR" => after.spr = s
  <2>1. Written(s, "SR", val, level) = s
    <3>1. "SR" \in UserStrobes \cup {Unchecked, "SR"}  OBVIOUS
    <3> QED  BY <3>1, NothingWritten
  <2> QED  BY <1>2, <2>1
<1> HIDE DEF new
<1> QED  BY <1>1, <1>2, <1>6, <1>7, <1>8

\* a write of MMUCR, with flush a bit of the value
LEMMA MmuWrite ==
  ASSUME NEW s, NEW r \in {"DMMUCR", "IMMUCR"}, NEW val, NEW level
  PROVE  \E tlb \in {"DTLB", "ITLB"} : \E entry \in {0, s[tlb]} :
            Written(s, r, val, level) = [s EXCEPT ![r] = ReadsAs(r, val), ![tlb] = entry]
<1>1. CASE r = "DMMUCR"
  <2> DEFINE entry == IF val % 2 = 1 THEN 0 ELSE s.DTLB
  <2>1. Written(s, r, val, level) = [s EXCEPT !.DMMUCR = val - (val % 2), !.DTLB = entry]
    BY SMT, <1>1, StoredNames DEF Written
  <2>2. ReadsAs(r, val) = val - (val % 2)  BY <1>1 DEF ReadsAs
  <2>3. entry \in {0, s["DTLB"]}  OBVIOUS
  <2> HIDE DEF entry
  <2> QED  BY <2>1, <2>2, <2>3, <1>1
<1>2. CASE r = "IMMUCR"
  <2> DEFINE entry == IF val % 2 = 1 THEN 0 ELSE s.ITLB
  <2>1. Written(s, r, val, level) = [s EXCEPT !.IMMUCR = val - (val % 2), !.ITLB = entry]
    BY SMT, <1>2, StoredNames DEF Written
  <2>2. ReadsAs(r, val) = val - (val % 2)  BY <1>2 DEF ReadsAs
  <2>3. entry \in {0, s["ITLB"]}  OBVIOUS
  <2> HIDE DEF entry
  <2> QED  BY <2>1, <2>2, <2>3, <1>2
<1> QED  BY <1>1, <1>2

\* a request to invalidate an entry
LEMMA EntryWrite ==
  ASSUME NEW s, NEW r \in {"DTLBEIR", "ITLBEIR"}, NEW val, NEW level
  PROVE  \E tlb \in {"DTLB", "ITLB"} :
            Written(s, r, val, level) = [s EXCEPT ![tlb] = Invalidated(s[tlb], val)]
<1>1. CASE r = "DTLBEIR"
  <2>1. Written(s, r, val, level) = [s EXCEPT !.DTLB = Invalidated(s.DTLB, val)]
    BY SMT, <1>1, StoredNames DEF Written
  <2> QED  BY <2>1
<1>2. CASE r = "ITLBEIR"
  <2>1. Written(s, r, val, level) = [s EXCEPT !.ITLB = Invalidated(s.ITLB, val)]
    BY SMT, <1>2, StoredNames DEF Written
  <2> QED  BY <2>1
<1> QED  BY <1>1, <1>2

\* each register that can be read has a place of its own
LEMMA OwnPlace ==
  ASSUME NEW s, DOMAIN s = Stored, NEW r, NEW val, NEW level
  PROVE  /\ DOMAIN Written(s, r, val, level) = Stored
         /\ \A g \in Stored \ Unreadable :
              Written(s, r, val, level)[g] = IF g = r THEN ReadsAs(r, val) ELSE s[g]
<1> USE DEF Unreadable
<1>1. CASE r = "PICMR"
  <2>1. Written(s, r, val, level) = [s EXCEPT !.PICMR = (val % 2) + NMI]
    BY SMT, <1>1, StoredNames DEF Written
  <2> QED  BY <2>1, <1>1
<1>2. CASE r = "PICSR"
  <2>1. Written(s, r, val, level) \in {s, [s EXCEPT !.PICSR = 0]}
    BY SMT, <1>2, StoredNames DEF Written
  <2> QED  BY <2>1, <1>2
<1>3. CASE r \in {"DTLBEIR", "ITLBEIR"}
  <2>1. PICK tlb \in {"DTLB", "ITLB"} :
          Written(s, r, val, level) = [s EXCEPT ![tlb] = Invalidated(s[tlb], val)]
    BY <1>3, EntryWrite
  <2>2. r \notin Stored  BY <1>3, StoredNames
  <2> QED  BY <2>1, <2>2
<1>4. CASE r \in {"DMMUCR", "IMMUCR"}
  <2>0. PICK tlb \in {"DTLB", "ITLB"} : \E entry \in {0, s[tlb]} :
          Written(s, r, val, level) = [s EXCEPT ![r] = ReadsAs(r, val), ![tlb] = entry]
    BY <1>4, MmuWrite
  <2>1. PICK entry \in {0, s[tlb]} :
          Written(s, r, val, level) = [s EXCEPT ![r] = ReadsAs(r, val), ![tlb] = entry]
    BY <2>0
  <2>2. r # tlb /\ r \in Stored  BY <1>4, StoredNames
  <2> QED  BY <2>1, <2>2
<1>5. CASE r \in Stored \ {"PICMR", "PICSR", "DMMUCR", "IMMUCR"}
  <2>1. Written(s, r, val, level) = [s EXCEPT ![r] = val]
    BY SMT, <1>5, StoredNames DEF Written, Assigned
  <2>2. ReadsAs(r, val) = val  BY <1>5 DEF ReadsAs
  <2> QED  BY <2>1, <2>2
<1>6. CASE r \notin Stored \cup {"DTLBEIR", "ITLBEIR"}
  <2>1. Written(s, r, val, level) = s
    BY SMT, <1>6, StoredNames DEF Written
  <2> QED  BY <2>1, <1>6
<1> QED  BY <1>1, <1>2, <1>3, <1>4, <1>5, <1>6

LEMMA ReadBack ==
  ASSUME NEW s, NEW sr, NEW r \in Stored
  PROVE  GetSpr(s, sr, r) = IF sr.sm \/ sr.sumra THEN s[r] ELSE 0
<1>1. Access(r) = {"SRE", "SWE"} /\ r # "SR"  BY Grants, StoredNames
<1>2. CASE sr.sm \/ sr.sumra
  <2>1. CheckAccess(r, FALSE, sr.sm \/ sr.sumra)  BY <1>1, <1>2 DEF CheckAccess
  <2> QED  BY <1>1, <1>2, <2>1 DEF GetSpr
<1>3. CASE ~(sr.sm \/ sr.sumra)
  <2>1. ~CheckAccess(r, FALSE, sr.sm \/ sr.sumra)  BY <1>1, <1>3 DEF CheckAccess
  <2> QED  BY <1>1, <1>3, <2>1 DEF GetSpr
<1> QED  BY <1>2, <1>3
-----------------------------------------------------------------------------
(* What a load leaves in the register                                       *)

LEMMA Small ==
  ASSUME NEW m \in Nat \ {0}, NEW r \in 0..(m - 1)
  PROVE  r % m = r /\ r \div m = 0
<1>1. m * 0 + r = r /\ 0 \in Int  OBVIOUS
<1> QED  BY <1>1, Residue

\* a word, a half and a quarter of it
LEMMA Widths ==
  ASSUME NEW exec \in Loads \cup Stores
  PROVE  /\ BitsOf(exec) \in 1..W
         /\ exec \in {"l.lw", "l.lwa"} => BitsOf(exec) = W
         /\ exec \in {"l.lhs", "l.lbs"} => BitsOf(exec) < W
<1>1. PICK k \in Nat \ {0} : k = W \div 4 /\ W = 4 * k  BY WidthAssumption
<1>2. Bytes(exec) \in {1, 2, 4} /\ (exec \in {"l.lw", "l.lwa"} => Bytes(exec) = 4)
      /\ (exec \in {"l.lhs", "l.lbs"} => Bytes(exec) \in {1, 2})
  BY SMT DEF Bytes, Loads, Stores
<1>3. BitsOf(exec) = k * Bytes(exec)  BY <1>1 DEF BitsOf
<1>4. CASE Bytes(exec) = 1  BY <1>1, <1>2, <1>3, <1>4
<1>5. CASE Bytes(exec) = 2  BY <1>1, <1>2, <1>3, <1>5
<1>6. CASE Bytes(exec) = 4  BY <1>1, <1>2, <1>3, <1>6
<1> QED  BY <1>2, <1>4, <1>5, <1>6

LEMMA Powers ==
  ASSUME NEW n \in 1..W
  PROVE  /\ 2^n \in Nat \ {0} /\ 2^(n - 1) \in Nat \ {0} /\ 2^n = 2 * 2^(n - 1)
         /\ n < W => \E k \in Nat : k >= 2 /\ Size = 2^n * k
<1>0. W \in Nat \ {0}  BY WidthAssumption
<1>1. 1 \in 0..W /\ n \in 0..W /\ n - 1 \in 0..W /\ 1 + (n - 1) = n  BY <1>0
<1>2. 2^n \in Nat \ {0} /\ 2^(n - 1) \in Nat \ {0}  BY <1>1, PowerAssumption
<1>3. 2^1 = 2  BY SMT
<1>4. 2^(1 + (n - 1)) = 2^1 * 2^(n - 1)
  <2>1. 1 + (n - 1) <= W  BY <1>0
  <2> QED  BY <2>1, <1>1, PowerAssumption
<1>5. 2^n = 2 * 2^(n - 1)  BY <1>1, <1>3, <1>4
<1>6. ASSUME n < W  PROVE \E k \in Nat : k >= 2 /\ Size = 2^n * k
  <2> DEFINE r == W - n
  <2>1. r \in 0..W /\ n + r = W /\ r - 1 \in 0..W /\ 1 + (r - 1) = r /\ n + r <= W
    BY <1>0, <1>6
  <2> HIDE DEF r
  <2>2. 2^(n + r) = 2^n * 2^r  BY <2>1, <1>1, PowerAssumption
  <2>3. 2^r \in Nat \ {0} /\ 2^(r - 1) \in Nat \ {0}  BY <2>1, PowerAssumption
  <2>4. 2^(1 + (r - 1)) = 2^1 * 2^(r - 1)
    <3>1. 1 + (r - 1) <= W  BY <2>1, <1>0
    <3> QED  BY <3>1, <2>1, <1>1, PowerAssumption
  <2>5. 2^r = 2 * 2^(r - 1)  BY <2>1, <2>4, <1>3
  <2>6. 2^r >= 2  BY <2>3, <2>5
  <2>7. Size = 2^n * 2^r  BY <2>1, <2>2 DEF Size
  <2> QED  BY <2>3, <2>6, <2>7
<1> QED  BY <1>2, <1>5, <1>6

LEMMA LoadedExactly ==
  ASSUME ci.exec \in Loads, d \in Word, NEW v \in Word
  PROVE  LET n == 2^BitsOf(ci.exec)
         IN  /\ Loaded(v) \in Word
             /\ Loaded(v) % n = v % n
             /\ IF ci.exec \in {"l.lhs", "l.lbs"}
                THEN Signed(Loaded(v)) \in -(n \div 2)..((n \div 2) - 1) ELSE Loaded(v) < n
<1> DEFINE b == BitsOf(ci.exec)
           n == 2^b
           h == 2^(b - 1)
           raw == ((d \div n) * n) + (v % n)
           low == v % n
<1>1. /\ b \in 1..W
      /\ ci.exec \in {"l.lw", "l.lwa"} => b = W
      /\ ci.exec \in {"l.lhs", "l.lbs"} => b < W
  BY Widths
<1> HIDE DEF b
<1>2. /\ n \in Nat \ {0} /\ h \in Nat \ {0} /\ n = 2 * h
      /\ b < W => \E k \in Nat : k >= 2 /\ Size = n * k
      /\ b = W => n = Size
  BY <1>1, Powers DEF Size
<1>3. Size \in Nat \ {0}  BY SizeType
<1>4. d \in 0..(Size - 1) /\ v \in 0..(Size - 1)  BY DEF Word
<1>5. n <= Size
  <2>1. CASE b = W  BY <2>1, <1>2, <1>3
  <2>2. CASE b < W
    <3>1. PICK k \in Nat : k >= 2 /\ Size = n * k  BY <2>2, <1>2
    <3>2. n * k >= n * 1  BY <3>1, <1>2
    <3> QED  BY <3>1, <3>2, <1>2
  <2> QED  BY <2>1, <2>2, <1>1, WidthAssumption
<1>6. /\ ci.exec \in {"l.lwa", "l.lw"} => Loaded(v) = raw
      /\ ci.exec \in {"l.lhz", "l.lbz"} => Loaded(v) = raw % n
      /\ ci.exec \in {"l.lhs", "l.lbs"} => Loaded(v) = Extended(raw, b - 1)
  BY SMT DEF Loaded, b, Loads
<1> HIDE DEF n, h
<1>7. low \in 0..(n - 1) /\ d \div n \in Int  BY <1>2, <1>4, DivMod DEF Word
<1>8. raw = n * (d \div n) + low /\ raw \in Int  BY <1>2, <1>7
<1>9. raw % n = low  BY <1>2, <1>7, <1>8, Residue
<1> HIDE DEF raw, low
<1>10. low % n = low  BY <1>2, <1>7, Small
<1>11. CASE ci.exec \in {"l.lw", "l.lwa"}
  <2>1. n = Size  BY <1>1, <1>2, <1>11
  <2>2. d \div n = 0  BY <2>1, <1>3, <1>4, Small
  <2>3. raw = low  BY <2>2, <1>2, <1>7, <1>8
  <2>4. Loaded(v) = raw  BY <1>6, <1>11
  <2>5. Loaded(v) \in Word /\ Loaded(v) % n = low /\ Loaded(v) < n
    BY <2>1, <2>3, <2>4, <1>7, <1>10, <1>2 DEF Word
  <2>6. ci.exec \notin {"l.lhs", "l.lbs"}  BY <1>11
  <2> QED  BY <2>5, <2>6 DEF low, n, b
<1>12. CASE ci.exec \in {"l.lhz", "l.lbz"}
  <2>1. Loaded(v) = low  BY <1>6, <1>9, <1>12
  <2>2. Loaded(v) \in Word /\ Loaded(v) % n = low /\ Loaded(v) < n
    BY <2>1, <1>2, <1>3, <1>5, <1>7, <1>10 DEF Word
  <2>3. ci.exec \notin {"l.lhs", "l.lbs"}  BY <1>12
  <2> QED  BY <2>2, <2>3 DEF low, n, b
<1>13. CASE ci.exec \in {"l.lhs", "l.lbs"}
  <2>1. PICK k \in Nat : k >= 2 /\ Size = n * k  BY <1>1, <1>2, <1>13
  <2>2. Loaded(v) = (IF low >= h THEN low - n ELSE low) % Size
    <3>1. b - 1 + 1 = b  BY <1>1
    <3>2. SignExtend(raw, b - 1) = IF low >= h THEN low - n ELSE low
      BY <3>1, <1>9 DEF SignExtend, n, h
    <3> QED  BY <3>2, <1>6, <1>13 DEF Extended, Unsigned
  <2>3. Size >= 2 * n
    <3>1. n * k >= n * 2  BY <2>1, <1>2
    <3> QED  BY <3>1, <2>1, <1>2
  <2>4. Size \div 2 <= Size /\ 2 * (Size \div 2) <= Size /\ Size <= 2 * (Size \div 2) + 1
        /\ Size \div 2 \in Nat /\ n \div 2 = h
    BY <1>2, <1>3
  <2>5. CASE low < h
    <3>1. Loaded(v) = low
      <4>1. low \in 0..(Size - 1) /\ ~(low >= h)  BY <2>5, <1>2, <1>3, <1>5, <1>7
      <4>2. Loaded(v) = low % Size  BY <2>2, <4>1
      <4> QED  BY <4>1, <4>2, <1>3, Small
    <3>2. low < Size \div 2  BY <2>3, <2>4, <1>2, <1>3, <1>7
    <3>3. Signed(Loaded(v)) = low  BY <3>1, <3>2 DEF Signed
    <3>4. Signed(Loaded(v)) \in -(n \div 2)..((n \div 2) - 1)
      BY <3>3, <2>4, <2>5, <1>2, <1>7
    <3>5. Loaded(v) \in Word  BY <3>1, <1>2, <1>3, <1>5, <1>7 DEF Word
    <3> QED  BY <3>1, <3>4, <3>5, <1>10, <1>13 DEF low, n, b
  <2>6. CASE low >= h
    <3> DEFINE r == Size + low - n
    <3>1. r \in 0..(Size - 1)  BY <1>2, <1>3, <1>5, <1>7
    <3>2. Loaded(v) = r
      <4>1. Loaded(v) = (low - n) % Size  BY <2>2, <2>6
      <4>2. Size * (-1) + r = low - n /\ -1 \in Int  BY <1>2, <1>3, <1>7
      <4> HIDE DEF r
      <4>3. (Size * (-1) + r) % Size = r  BY <3>1, <4>2, <1>3, Residue
      <4> QED  BY <4>1, <4>2, <4>3
    <3>3. r % n = low
      <4>1. r = n * (k - 1) + low
        <5>1. n * (k - 1) = n * k - n  BY <2>1, <1>2
        <5> QED  BY <5>1, <2>1, <1>2, <1>7
      <4>2. k - 1 \in Int  BY <2>1
      <4> HIDE DEF r
      <4> QED  BY <4>1, <4>2, <1>2, <1>7, Residue
    <3>4. r >= Size \div 2 /\ ~(r < Size \div 2)  BY <2>3, <2>4, <2>6, <1>2, <1>3, <1>7
    <3>5. Signed(Loaded(v)) = low - n  BY <3>1, <3>2, <3>4, <1>2, <1>3, <1>7 DEF Signed
    <3>6. Signed(Loaded(v)) \in -(n \div 2)..((n \div 2) - 1)
      BY <3>5, <2>4, <2>6, <1>2, <1>7
    <3>7. Loaded(v) \in Word  BY <3>1, <3>2 DEF Word
    <3>8. Loaded(v) % n = low  BY <3>2, <3>3
    <3> QED  BY <3>6, <3>7, <3>8, <1>13 DEF low, n, b
  <2> QED  BY <2>5, <2>6, <1>2, <1>7
<1> QED  BY <1>11, <1>12, <1>13 DEF Loads
-----------------------------------------------------------------------------
(* The integer instructions in terms of the numbers                         *)

Half == Size \div 2

LEMMA HalfSize ==
  /\ Half \in Nat /\ Half >= 2 /\ Size = 2 * Half /\ Half = 2^(W - 1)
<1>1. W \in 1..W /\ W - 1 \in 1..W /\ W - 1 - 1 = W - 2 /\ W \in Nat  BY WidthAssumption
<1>2. 2^(W - 1) \in Nat \ {0} /\ 2^W = 2 * 2^(W - 1)  BY <1>1, Powers
<1>3. 2^(W - 1 - 1) \in Nat \ {0} /\ 2^(W - 1) = 2 * 2^(W - 1 - 1)  BY <1>1, Powers
<1> DEFINE h == 2^(W - 1)
           k == 2^(W - 1 - 1)
<1>4. h \in Nat /\ k \in Nat \ {0} /\ h = 2 * k /\ Size = 2 * h  BY <1>2, <1>3 DEF Size
<1> HIDE DEF h, k
<1>5. Size \div 2 = h /\ h >= 2  BY <1>4
<1> QED  BY <1>4, <1>5 DEF Half, h

LEMMA SignedIs ==
  ASSUME NEW v \in Word
  PROVE  /\ v \in 0..((2 * Half) - 1)
         /\ v < Half => Signed(v) = v
         /\ v >= Half => Signed(v) = v - (2 * Half)
BY HalfSize DEF Signed, Word, Half

\* numbers that a word can hold, and those that are a turn away
LEMMA Wraps ==
  ASSUME NEW v \in Int
  PROVE  /\ v \in 0..(Size - 1) => Unsigned(v) = v
         /\ v \in Size..(Size + Size - 1) => Unsigned(v) = v - Size
         /\ v \in -Size..-1 => Unsigned(v) = v + Size
<1>0. Size \in Nat \ {0}  BY SizeType
<1>1. ASSUME v \in 0..(Size - 1)  PROVE Unsigned(v) = v
  BY <1>0, <1>1, Small DEF Unsigned
<1>2. ASSUME v \in Size..(Size + Size - 1)  PROVE Unsigned(v) = v - Size
  <2>1. v - Size \in 0..(Size - 1) /\ Size * 1 + (v - Size) = v /\ 1 \in Int  BY <1>0, <1>2
  <2>2. (Size * 1 + (v - Size)) % Size = v - Size  BY <2>1, <1>0, Residue
  <2> QED  BY <2>1, <2>2 DEF Unsigned
<1>3. ASSUME v \in -Size..-1  PROVE Unsigned(v) = v + Size
  <2>1. v + Size \in 0..(Size - 1) /\ Size * (-1) + (v + Size) = v /\ -1 \in Int
    BY <1>0, <1>3
  <2>2. (Size * (-1) + (v + Size)) % Size = v + Size  BY <2>1, <1>0, Residue
  <2> QED  BY <2>1, <2>2 DEF Unsigned
<1> QED  BY <1>1, <1>2, <1>3

\* what a word can hold of a number
LEMMA Reduced ==
  ASSUME NEW v \in Int
  PROVE  Unsigned(v) \in Word /\ Same(Unsigned(v), v)
<1> DEFINE q == v \div Size
           r == v % Size
<1>0. Size \in Nat \ {0}  BY SizeType
<1>1. q \in Int /\ r \in 0..(Size - 1) /\ v = Size * q + r  BY <1>0, DivMod
<1>2. Unsigned(v) = r  BY DEF Unsigned
<1> HIDE DEF q, r
<1>3. r - v = Size * (-q) + 0 /\ -q \in Int /\ 0 \in 0..(Size - 1)
  BY <1>0, <1>1
<1>4. (Size * (-q) + 0) % Size = 0  BY <1>3, <1>0, Residue
<1> QED  BY <1>1, <1>2, <1>3, <1>4 DEF Same, Word

LEMMA SignedBack ==
  ASSUME NEW v \in -Half..(Half - 1)
  PROVE  Signed(Unsigned(v)) = v /\ Unsigned(v) \in Word
<1>0. Half \in Nat /\ Size = 2 * Half /\ v \in Int  BY HalfSize
<1>1. CASE v >= 0
  <2>1. v \in 0..(Size - 1) /\ v < Half  BY <1>0, <1>1
  <2>2. Unsigned(v) = v  BY <2>1, <1>0, Wraps
  <2> QED  BY <2>1, <2>2, SignedIs DEF Word
<1>2. CASE v < 0
  <2>1. v \in -Size..-1 /\ v + Size \in 0..(Size - 1) /\ v + Size >= Half
        /\ v + Size - (2 * Half) = v
    BY <1>0, <1>2
  <2>2. Unsigned(v) = v + Size  BY <2>1, <1>0, Wraps
  <2>3. PICK u \in Word : u = v + Size  BY <2>1 DEF Word
  <2>4. Signed(u) = u - (2 * Half)  BY <2>1, <2>3, SignedIs
  <2> QED  BY <1>0, <2>1, <2>2, <2>3, <2>4
<1> QED  BY <1>0, <1>1, <1>2

\* carry and overflow of a sum, told from the wrapped result and the signs
LEMMA SumFlags ==
  ASSUME NEW a \in Word, NEW b \in Word, NEW c \in {0, 1}
  PROVE  LET r == Unsigned(a + b + c)
         IN  /\ (r < a) = (a + b + c >= Size /\ ~(b = Size - 1 /\ c = 1))
             /\ (SameSigns(a, b) /\ ~SameSigns(a, r)) = ~InRange(Signed(a) + Signed(b) + c)
<1> DEFINE r == Unsigned(a + b + c)
<1>0. Half \in Nat /\ Half >= 2 /\ Size = 2 * Half  BY HalfSize
<1>1. a \in 0..((2 * Half) - 1) /\ b \in 0..((2 * Half) - 1)  BY SignedIs
<1>2. a + b + c \in Int  BY <1>0, <1>1
<1>3. \/ a + b + c < Size /\ r = a + b + c
      \/ a + b + c >= Size /\ r = a + b + c - Size
  <2>1. CASE a + b + c < Size
    <3>1. a + b + c \in 0..(Size - 1)  BY <1>0, <1>1, <2>1
    <3> QED  BY <3>1, <1>2, <2>1, Wraps
  <2>2. CASE a + b + c >= Size
    <3>1. PICK s \in Int : s = a + b + c  BY <1>2
    <3>2. s \in Size..(Size + Size - 1)  BY <1>0, <1>1, <2>2, <3>1
    <3>3. Unsigned(s) = s - Size  BY <3>2, Wraps
    <3> QED  BY <1>0, <1>1, <3>1, <3>3, <2>2
  <2> QED  BY <2>1, <2>2, <1>0, <1>1
<1>4. r \in Word  BY <1>2, Reduced
<1>5. r \in 0..((2 * Half) - 1)  BY <1>4, SignedIs
<1>6. PICK sa \in Int : sa = Signed(a)  BY SignedType
<1>7. PICK sb \in Int : sb = Signed(b)  BY SignedType
<1>8. PICK sr \in Int : sr = Signed(r)  BY <1>4, SignedType
<1>9. /\ sa = IF a < Half THEN a ELSE a - (2 * Half)
      /\ sb = IF b < Half THEN b ELSE b - (2 * Half)
      /\ sr = IF r < Half THEN r ELSE r - (2 * Half)
  BY <1>0, <1>1, <1>4, <1>5, <1>6, <1>7, <1>8, SignedIs
<1> HIDE DEF r
<1>10. (r < a) = (a + b + c >= Size /\ ~(b = Size - 1 /\ c = 1))
  BY <1>0, <1>1, <1>3, <1>5
<1>11. ((sa < 0) = (sb < 0) /\ ~((sa < 0) = (sr < 0)))
          = ~(-Half <= sa + sb + c /\ sa + sb + c < Half)
  BY <1>0, <1>1, <1>3, <1>5, <1>9
<1>12. (SameSigns(a, b) /\ ~SameSigns(a, r)) = ~InRange(Signed(a) + Signed(b) + c)
  BY <1>6, <1>7, <1>8, <1>11 DEF SameSigns, InRange, Half
<1> QED  BY <1>10, <1>12 DEF r

LEMMA DifferenceFlags ==
  ASSUME NEW a \in Word, NEW b \in Word
  PROVE  LET r == Unsigned(a - b)
         IN  (~SameSigns(a, b) /\ SameSigns(b, r)) = ~InRange(Signed(a) - Signed(b))
<1> DEFINE r == Unsigned(a - b)
<1>0. Half \in Nat /\ Half >= 2 /\ Size = 2 * Half  BY HalfSize
<1>1. a \in 0..((2 * Half) - 1) /\ b \in 0..((2 * Half) - 1)  BY SignedIs
<1>2. a - b \in Int  BY <1>0, <1>1
<1>3. \/ a >= b /\ r = a - b
      \/ a < b /\ r = a - b + Size
  <2>1. CASE a >= b
    <3>1. a - b \in 0..(Size - 1)  BY <1>0, <1>1, <2>1
    <3> QED  BY <3>1, <1>2, <2>1, Wraps
  <2>2. CASE a < b
    <3>1. a - b \in -Size..-1  BY <1>0, <1>1, <2>2
    <3> QED  BY <3>1, <1>2, <2>2, Wraps
  <2> QED  BY <2>1, <2>2, <1>0, <1>1
<1>4. r \in Word  BY <1>2, Reduced
<1>5. r \in 0..((2 * Half) - 1)  BY <1>4, SignedIs
<1>6. PICK sa \in Int : sa = Signed(a)  BY SignedType
<1>7. PICK sb \in Int : sb = Signed(b)  BY SignedType
<1>8. PICK sr \in Int : sr = Signed(r)  BY <1>4, SignedType
<1>9. /\ sa = IF a < Half THEN a ELSE a - (2 * Half)
      /\ sb = IF b < Half THEN b ELSE b - (2 * Half)
      /\ sr = IF r < Half THEN r ELSE r - (2 * Half)
  BY <1>0, <1>1, <1>4, <1>5, <1>6, <1>7, <1>8, SignedIs
<1> HIDE DEF r
<1>10. (~((sa < 0) = (sb < 0)) /\ (sb < 0) = (sr < 0))
          = ~(-Half <= sa - sb /\ sa - sb < Half)
  BY <1>0, <1>1, <1>3, <1>5, <1>9
<1>11. (~SameSigns(a, b) /\ SameSigns(b, r)) = ~InRange(Signed(a) - Signed(b))
  BY <1>6, <1>7, <1>8, <1>10 DEF SameSigns, InRange, Half
<1> QED  BY <1>11 DEF r

LEMMA OutOfRangeIs ==
  ASSUME NEW v \in Int
  PROVE  OutOfRange(v) = ~InRange(v)
BY HalfSize DEF OutOfRange, InRange, Half
-----------------------------------------------------------------------------
(* Division                                                                 *)

\* rounded towards zero: the rest has the sign of the dividend
LEMMA Divides ==
  ASSUME NEW a \in Word, NEW b \in Word, b # 0,
         ~(Signed(a) = -(Size \div 2) /\ Signed(b) = -1)
  PROVE  LET q == Magnitude(Signed(a)) \div Magnitude(Signed(b))
             r == Unsigned(IF SameSigns(a, b) THEN q ELSE -q)
             rest == Signed(a) - Signed(r) * Signed(b)
         IN  /\ r \in Word
             /\ Magnitude(rest) < Magnitude(Signed(b))
             /\ rest = 0 \/ (rest < 0) = (Signed(a) < 0)
<1>0. Half \in Nat /\ Half >= 2 /\ Size = 2 * Half  BY HalfSize
<1>1. a \in 0..((2 * Half) - 1) /\ b \in 0..((2 * Half) - 1)  BY SignedIs
<1>2. PICK sa \in Int : sa = Signed(a)  BY SignedType
<1>3. PICK sb \in Int : sb = Signed(b)  BY SignedType
<1>4. sa \in -Half..(Half - 1) /\ sb \in -Half..(Half - 1) /\ sb # 0
      /\ ~(sa = -Half /\ sb = -1)
  BY <1>0, <1>1, <1>2, <1>3, SignedIs DEF Half
<1>5. PICK m \in Nat : m = Magnitude(sa) /\ m = (IF sa < 0 THEN -sa ELSE sa)
  BY <1>2 DEF Magnitude
<1>6. PICK n \in Nat \ {0} : n = Magnitude(sb) /\ n = (IF sb < 0 THEN -sb ELSE sb)
  BY <1>3, <1>4 DEF Magnitude
<1> DEFINE q == m \div n
           t == m % n
           same == ((sa < 0) = (sb < 0))
           v == IF same THEN q ELSE -q
<1>7. q \in Int /\ t \in 0..(n - 1) /\ m = n * q + t  BY DivMod
<1> HIDE DEF q, t
<1>8. q >= 0
  <2>1. CASE q < 0
    <3>1. n * q <= n * (-1)  BY <2>1, <1>7
    <3> QED  BY <3>1, <1>7
  <2> QED  BY <2>1, <1>7
<1>9. n * q >= q /\ q <= m  BY <1>7, <1>8
<1>10. v \in -Half..(Half - 1)
  <2>1. CASE same /\ q >= Half
    <3>1. m = Half /\ sa = -Half  BY <2>1, <1>4, <1>5, <1>9, <1>0, <1>7
    <3>2. n * q >= n * Half  BY <2>1, <1>0, <1>7
    <3>3. n * Half <= Half  BY <3>1, <3>2, <1>0, <1>7
    <3>4. n = 1
      <4>1. CASE n >= 2
        <5>1. n * Half >= 2 * Half  BY <4>1, <1>0
        <5> QED  BY <5>1, <3>3, <1>0
      <4> QED  BY <4>1
    <3>5. sb = -1  BY <2>1, <3>1, <3>4, <1>6, <1>0
    <3> QED  BY <3>1, <3>5, <1>4
  <2>2. CASE same /\ q < Half  BY <2>2, <1>0, <1>7, <1>8
  <2>3. CASE ~same
    <3>1. q <= Half  BY <1>0, <1>4, <1>5, <1>7, <1>9
    <3> QED  BY <2>3, <3>1, <1>0, <1>7, <1>8
  <2> QED  BY <2>1, <2>2, <2>3, <1>0, <1>7
<1>11. v \in Int /\ Signed(Unsigned(v)) = v /\ Unsigned(v) \in Word
  BY <1>10, SignedBack
<1>12. v * sb = IF sa < 0 THEN -(n * q) ELSE n * q
  <2>1. CASE sa < 0 /\ sb < 0
    <3>1. v = q /\ sb = -n  BY <2>1, <1>6
    <3>2. q * (-n) = -(n * q)  BY <1>7
    <3> QED  BY <2>1, <3>1, <3>2
  <2>2. CASE sa < 0 /\ ~(sb < 0)
    <3>1. v = -q /\ sb = n  BY <2>2, <1>6
    <3>2. (-q) * n = -(n * q)  BY <1>7
    <3> QED  BY <2>2, <3>1, <3>2
  <2>3. CASE ~(sa < 0) /\ sb < 0
    <3>1. v = -q /\ sb = -n  BY <2>3, <1>6
    <3>2. (-q) * (-n) = n * q  BY <1>7
    <3> QED  BY <2>3, <3>1, <3>2
  <2>4. CASE ~(sa < 0) /\ ~(sb < 0)
    <3>1. v = q /\ sb = n  BY <2>4, <1>6
    <3>2. q * n = n * q  BY <1>7
    <3> QED  BY <2>4, <3>1, <3>2
  <2> QED  BY <2>1, <2>2, <2>3, <2>4
<1>13. v = IF SameSigns(a, b) THEN Magnitude(Signed(a)) \div Magnitude(Signed(b))
           ELSE -(Magnitude(Signed(a)) \div Magnitude(Signed(b)))
  BY <1>2, <1>3, <1>5, <1>6 DEF q, SameSigns
<1> HIDE DEF v, same
<1> DEFINE rest == sa - v * sb
<1>14. rest = IF sa < 0 THEN -t ELSE t
  BY <1>2, <1>5, <1>7, <1>12
<1>15. Magnitude(rest) < n /\ (rest = 0 \/ (rest < 0) = (sa < 0))
  BY <1>7, <1>14 DEF Magnitude
<1> QED  BY <1>2, <1>3, <1>6, <1>11, <1>13, <1>15

LEMMA DividesUnsigned ==
  ASSUME NEW a \in Word, NEW b \in Word, b # 0
  PROVE  LET r == a \div b
         IN  r \in Word /\ r * b <= a /\ a < (r + 1) * b
<1> DEFINE q == a \div b
           t == a % b
<1>0. Size \in Nat \ {0} /\ a \in Nat /\ a < Size /\ b \in Nat \ {0} /\ a \in Int
  BY SizeType DEF Word
<1>1. q \in Int /\ t \in 0..(b - 1) /\ a = b * q + t  BY <1>0, DivMod
<1> HIDE DEF q, t
<1>2. q >= 0
  <2>1. CASE q < 0
    <3>1. b * q <= b * (-1)  BY <2>1, <1>0, <1>1
    <3> QED  BY <3>1, <1>0, <1>1
  <2> QED  BY <2>1, <1>1
<1>3. b * q >= q  BY <1>0, <1>1, <1>2
<1>4. q * b = b * q /\ (q + 1) * b = b * q + b  BY <1>0, <1>1
<1>5. q \in Word  BY <1>0, <1>1, <1>2, <1>3 DEF Word
<1> QED  BY <1>0, <1>1, <1>4, <1>5 DEF q
-----------------------------------------------------------------------------
(* Powers and bits                                                          *)

LEMMA Power ==
  ASSUME NEW n \in 0..W
  PROVE  2^n \in Nat \ {0}
BY PowerAssumption, WidthAssumption

LEMMA PowerOf0 == 2^0 = 1
BY SMT

LEMMA PowerSum ==
  ASSUME NEW m \in 0..W, NEW n \in 0..W, m + n <= W
  PROVE  2^(m + n) = 2^m * 2^n
BY PowerAssumption, WidthAssumption

LEMMA NextPower ==
  ASSUME NEW n \in 0..(W - 1)
  PROVE  2^(n + 1) = 2 * 2^n
<1>1. n + 1 \in 1..W /\ n + 1 - 1 = n  BY WidthAssumption
<1> QED  BY <1>1, Powers

\* the bit at a position is what is left of the number above it, modulo 2
LEMMA BitOf ==
  ASSUME NEW i \in 0..W, NEW u \in Int, NEW e \in {0, 1}, NEW t \in 0..(2^i - 1)
  PROVE  BitAt(2^i * (2 * u + e) + t, i) = e
<1>1. 2^i \in Nat \ {0}  BY Power
<1>2. 2 * u + e \in Int /\ e \in 0..(2 - 1)  OBVIOUS
<1>3. (2^i * (2 * u + e) + t) \div 2^i = 2 * u + e  BY <1>1, <1>2, Residue
<1>4. (2 * u + e) % 2 = e  BY <1>2, Residue
<1> QED  BY <1>3, <1>4 DEF BitAt

LEMMA Digits ==
  ASSUME NEW v \in Int, NEW i \in 0..W
  PROVE  /\ BitAt(v, i) \in {0, 1}
         /\ \E u \in Int, t \in 0..(2^i - 1) : v = 2^i * (2 * u + BitAt(v, i)) + t
<1> DEFINE q == v \div 2^i
           t == v % 2^i
           u == q \div 2
           e == q % 2
<1>0. 2^i \in Nat \ {0}  BY Power
<1>1. q \in Int /\ t \in 0..(2^i - 1) /\ v = 2^i * q + t  BY <1>0, DivMod
<1> HIDE DEF q, t
<1>2. u \in Int /\ e \in 0..(2 - 1) /\ q = 2 * u + e  BY <1>1, DivMod
<1>3. BitAt(v, i) = e  BY DEF BitAt, q
<1> HIDE DEF u, e
<1>4. e \in {0, 1}  BY <1>2
<1> QED  BY <1>1, <1>2, <1>3, <1>4

LEMMA HasLeast ==
  ASSUME NEW S \in SUBSET Nat, S # {}
  PROVE  \E m \in S : \A n \in S : m <= n
<1> DEFINE Below == OpToRel(<, Nat)
<1>1. IsWellFoundedOn(Below, Nat)  BY NatLessThanWellFounded
<1>2. \A n, m \in Nat : n < m => <<n, m>> \in Below  BY DEF OpToRel
<1> HIDE DEF Below
<1>3. PICK m \in S : \A n \in S : ~(<<n, m>> \in Below)  BY <1>1, WFMin
<1>4. \A n \in S : ~(n < m)  BY <1>2, <1>3
<1> QED  BY <1>4

LEMMA HasGreatest ==
  ASSUME NEW k \in Nat, NEW S \in SUBSET (0..k), S # {}
  PROVE  \E m \in S : \A n \in S : m >= n
<1> DEFINE T == {m \in Nat : k - m \in S}
<1>1. T \in SUBSET Nat /\ T # {}
  <2>1. PICK n \in S : TRUE  OBVIOUS
  <2>2. k - n \in T  BY <2>1
  <2> QED  BY <2>2
<1>2. PICK u \in T : \A z \in T : u <= z  BY <1>1, HasLeast
<1>3. ASSUME NEW n \in S  PROVE k - u >= n
  <2>1. k - n \in T  OBVIOUS
  <2> QED  BY <2>1, <1>2
<1> QED  BY <1>2, <1>3

\* a multiple of a higher power leaves the bit as it is
LEMMA BitBelow ==
  ASSUME NEW v \in Int, NEW i \in 0..W, NEW k \in 0..W, i < k, NEW m \in Int
  PROVE  BitAt(v + 2^k * m, i) = BitAt(v, i)
<1> DEFINE e == BitAt(v, i)
           p == 2^i
           g == 2^(k - (i + 1))
<1>1. e \in {0, 1} /\ \E u \in Int, t \in 0..(p - 1) : v = p * (2 * u + e) + t  BY Digits
<1>2. p \in Nat \ {0} /\ g \in Nat \ {0} /\ 2^k = (2 * p) * g
  <2>1. i + 1 \in 0..W /\ k - (i + 1) \in 0..W /\ (i + 1) + (k - (i + 1)) = k /\ k <= W
        /\ i \in 0..(W - 1)
    BY WidthAssumption
  <2>2. 2^k = 2^(i + 1) * g  BY <2>1, PowerSum
  <2>3. 2^(i + 1) = 2 * p  BY <2>1, NextPower
  <2> QED  BY <2>1, <2>2, <2>3, Power
<1> HIDE DEF e, g
<1>3. PICK u \in Int, t \in 0..(p - 1) : v = p * (2 * u + e) + t  BY <1>1
<1>4. v + 2^k * m = p * (2 * (u + g * m) + e) + t
  <2> HIDE DEF p
  <2>1. (2 * p) * g * m = p * (2 * (g * m))  BY <1>2
  <2>2. p * (2 * (u + g * m) + e) = p * (2 * u + e) + p * (2 * (g * m))
    <3> DEFINE z == g * m
    <3>1. z \in Int  BY <1>2
    <3> HIDE DEF z
    <3>2. p * (2 * (u + z) + e) = p * (2 * u + e) + p * (2 * z)  BY <3>1, <1>1, <1>2
    <3> QED  BY <3>2 DEF z
  <2> QED  BY <2>1, <2>2, <1>1, <1>2, <1>3
<1>5. u + g * m \in Int  BY <1>2
<1>6. BitAt(p * (2 * (u + g * m) + e) + t, i) = e  BY <1>1, <1>5, BitOf
<1> QED  BY <1>4, <1>6 DEF e

\* every set of bits is the bits of a word
LEMMA WordOf ==
  ASSUME NEW bits \in SUBSET (0..(W - 1))
  PROVE  WithOnes(bits) \in Word /\ Ones(WithOnes(bits)) = bits
<1> DEFINE Has(v, k) == \A i \in 0..(W - 1) : i < k => (BitAt(v, i) = 1 <=> i \in bits)
           Lacking == {k \in 0..W : ~(\E v \in 0..(2^k - 1) : Has(v, k))}
<1>0. W \in Nat \ {0}  BY WidthAssumption
<1>1. Lacking = {}
  <2> SUFFICES ASSUME Lacking # {}  PROVE FALSE
    OBVIOUS
  <2>1. Lacking \in SUBSET Nat  BY <1>0
  <2>2. PICK k \in Lacking : \A n \in Lacking : k <= n  BY <2>1, HasLeast
  <2>3. k \in 0..W  OBVIOUS
  <2>4. k # 0
    <3>1. 2^0 = 1 /\ 0 \in 0..(1 - 1)  BY PowerOf0
    <3>2. Has(0, 0)  BY <1>0
    <3> QED  BY <3>1, <3>2, <2>2
  <2>5. k - 1 \in 0..(W - 1) /\ k - 1 \in 0..W /\ k - 1 < k  BY <2>3, <2>4, <1>0
  <2>6. k - 1 \notin Lacking
    <3>1. k - 1 \in Lacking => k <= k - 1  BY <2>2
    <3> QED  BY <3>1, <2>5, <2>3
  <2> DEFINE j == k - 1
             e == IF j \in bits THEN 1 ELSE 0
             p == 2^j
  <2>7. PICK v \in 0..(p - 1) : Has(v, j)  BY <2>5, <2>6
  <2>8. p \in Nat \ {0} /\ 2^k = 2 * p
    <3>1. j + 1 = k  BY <2>3
    <3> QED  BY <2>5, <3>1, Power, NextPower
  <2>9. e \in {0, 1}  OBVIOUS
  <2> DEFINE w == v + p * e
  <2>10. w \in 0..(2^k - 1)
    <3> HIDE DEF p
    <3>1. p * 0 = 0 /\ p * 1 = p  BY <2>8
    <3> QED  BY <3>1, <2>7, <2>8, <2>9
  <2>11. BitAt(w, j) = e
    <3>1. w = p * (2 * 0 + e) + v
      <4> HIDE DEF p, e
      <4> QED  BY <2>7, <2>8, <2>9
    <3>2. 0 \in Int  OBVIOUS
    <3>3. BitAt(p * (2 * 0 + e) + v, j) = e  BY <2>5, <2>7, <2>9, <3>2, BitOf
    <3> QED  BY <3>1, <3>3
  <2>12. ASSUME NEW i \in 0..(W - 1), i < j  PROVE BitAt(w, i) = BitAt(v, i)
    <3>1. v \in Int /\ i \in 0..W /\ e \in Int  BY <2>7, <2>8, <1>0
    <3> HIDE DEF e, j
    <3>2. j \in 0..W /\ i < j  BY <2>5, <2>12 DEF j
    <3>3. BitAt(v + 2^j * e, i) = BitAt(v, i)  BY ZenonT(60), <3>1, <3>2, BitBelow
    <3> QED  BY <3>3
  <2>13. Has(w, k)
    <3> SUFFICES ASSUME NEW i \in 0..(W - 1), i < k  PROVE BitAt(w, i) = 1 <=> i \in bits
      OBVIOUS
    <3>1. CASE i = j  BY <3>1, <2>11
    <3>2. CASE i < j  BY <3>2, <2>12, <2>7
    <3> QED  BY <3>1, <3>2, <2>3
  <2> QED  BY <2>2, <2>10, <2>13
<1>2. W \in 0..W  BY <1>0
<1>3. PICK v \in 0..(2^W - 1) : Has(v, W)  BY <1>1, <1>2
<1>4. \A i \in 0..(W - 1) : BitAt(v, i) = 1 <=> i \in bits  BY <1>0, <1>3
<1> HIDE DEF Has, Lacking
<1>5. v \in Word /\ Ones(v) = bits  BY <1>3, <1>4 DEF Word, Size, Ones
<1> QED  BY <1>5 DEF WithOnes

\* the operators of the bits, bit by bit
LEMMA BitOperators ==
  ASSUME NEW a \in Word, NEW b \in Word, NEW i \in 0..(W - 1)
  PROVE  /\ And(a, b) \in Word /\ Or(a, b) \in Word /\ Xor(a, b) \in Word
         /\ BitAt(And(a, b), i) = 1 <=> BitAt(a, i) + BitAt(b, i) \in {2}
         /\ BitAt(Or(a, b), i) = 1 <=> BitAt(a, i) + BitAt(b, i) \in {1, 2}
         /\ BitAt(Xor(a, b), i) = 1 <=> BitAt(a, i) + BitAt(b, i) \in {1}
<1>1. \A v : Ones(v) \in SUBSET (0..(W - 1)) /\ (i \in Ones(v) <=> BitAt(v, i) = 1)
  BY DEF Ones
<1>2. i \in 0..W /\ a \in Int /\ b \in Int  BY SizeType, WidthAssumption DEF Word
<1>3. BitAt(a, i) \in {0, 1} /\ BitAt(b, i) \in {0, 1}  BY <1>2, Digits
<1>4. /\ And(a, b) \in Word /\ Ones(And(a, b)) = Ones(a) \cap Ones(b)
      /\ Or(a, b) \in Word /\ Ones(Or(a, b)) = Ones(a) \cup Ones(b)
      /\ Xor(a, b) \in Word
      /\ Ones(Xor(a, b)) = (Ones(a) \cup Ones(b)) \ (Ones(a) \cap Ones(b))
  BY <1>1, WordOf DEF And, Or, Xor
<1>5. /\ BitAt(And(a, b), i) = 1 <=> BitAt(a, i) = 1 /\ BitAt(b, i) = 1
      /\ BitAt(Or(a, b), i) = 1 <=> BitAt(a, i) = 1 \/ BitAt(b, i) = 1
      /\ BitAt(Xor(a, b), i) = 1 <=>
           (BitAt(a, i) = 1 \/ BitAt(b, i) = 1) /\ ~(BitAt(a, i) = 1 /\ BitAt(b, i) = 1)
  BY <1>1, <1>4
<1> QED  BY <1>3, <1>4, <1>5
-----------------------------------------------------------------------------
(* Shifts and extensions                                                    *)

LEMMA ShiftType ==
  ASSUME NEW b \in Word
  PROVE  Shift(b) \in 0..(W - 1) /\ Shift(b) = b % W
<1>1. W \in Nat \ {0} /\ b \in Int  BY WidthAssumption, SizeType DEF Word
<1> QED  BY <1>1, DivMod DEF Shift

LEMMA ShiftedLeft ==
  ASSUME NEW a \in Word, NEW n \in 0..(W - 1), NEW i \in 0..(W - 1)
  PROVE  /\ Left(a, n) \in Word
         /\ BitAt(Left(a, n), i) = IF i < n THEN 0 ELSE BitAt(a, i - n)
<1> DEFINE p == 2^n
           v == a * p
           q == v \div Size
<1>0. W \in Nat \ {0} /\ Size \in Nat \ {0} /\ a \in Int /\ a >= 0 /\ n \in 0..W /\ i \in 0..W
  BY WidthAssumption, SizeType DEF Word
<1>1. p \in Nat \ {0}  BY <1>0, Power
<1> HIDE DEF p
<1>2. v \in Int  BY <1>0, <1>1
<1> HIDE DEF v
<1>3. q \in Int /\ v % Size \in 0..(Size - 1) /\ v = Size * q + (v % Size)
  BY <1>0, <1>2, DivMod
<1>4. Left(a, n) = v % Size  BY DEF Left, Unsigned, v, p
<1> HIDE DEF q
<1> DEFINE r == v % Size
<1> HIDE DEF r
<1>5. r \in Word /\ r = v + Size * (-q) /\ -q \in Int
  <2>1. r \in 0..(Size - 1) /\ v = Size * q + r  BY <1>3 DEF r
  <2>2. Size * (-q) = -(Size * q)  BY <1>0, <1>3
  <2> QED  BY <2>1, <2>2, <1>0, <1>2, <1>3 DEF Word
<1>6. BitAt(r, i) = BitAt(v, i)
  <2>1. W \in 0..W /\ i < W /\ Size = 2^W  BY <1>0 DEF Size
  <2>2. \A m \in Int : BitAt(v + 2^W * m, i) = BitAt(v, i)  BY <2>1, <1>0, <1>2, BitBelow
  <2>3. BitAt(v + 2^W * (-q), i) = BitAt(v, i)  BY <2>2, <1>5
  <2> QED  BY <2>1, <2>3, <1>5
<1>7. CASE i < n
  <2>1. v = 0 + p * a /\ 0 \in Int  BY <1>0, <1>1 DEF v
  <2>2. BitAt(v, i) = BitAt(0, i)  BY <2>1, <1>0, <1>7, BitBelow DEF p
  <2>3. PICK u \in Int, e \in {0, 1}, t \in 0..(2^i - 1) : u = 0 /\ e = 0 /\ t = 0
    <3>1. 2^i \in Nat \ {0}  BY <1>0, Power
    <3> QED  BY <3>1
  <2>4. BitAt(0, i) = 0
    <3>1. BitAt(2^i * (2 * u + e) + t, i) = e  BY <1>0, BitOf
    <3>2. 2^i * (2 * u + e) + t = 0
      <4>1. 2^i \in Nat  BY <1>0, Power
      <4> QED  BY <4>1, <2>3
    <3> QED  BY <3>1, <3>2, <2>3
  <2> QED  BY <1>4, <1>5, <1>6, <1>7, <2>2, <2>4 DEF r
<1>8. CASE ~(i < n)
  <2> DEFINE j == i - n
             e == BitAt(a, j)
             g == 2^j
  <2>1. j \in 0..W /\ n + j = i /\ i <= W  BY <1>0, <1>8
  <2> HIDE DEF j
  <2>2. g \in Nat \ {0} /\ 2^i = p * g
    <3>1. 2^(n + j) = 2^n * 2^j  BY <2>1, <1>0, PowerSum
    <3> QED  BY <3>1, <2>1, Power DEF p
  <2>3. e \in {0, 1} /\ \E u \in Int, t \in 0..(g - 1) : a = g * (2 * u + e) + t
    BY <2>1, <1>0, Digits
  <2> HIDE DEF e, g
  <2>4. PICK u \in Int, t \in 0..(g - 1) : a = g * (2 * u + e) + t  BY <2>3
  <2>5. v = 2^i * (2 * u + e) + p * t
    <3> DEFINE z == 2 * u + e
    <3>1. z \in Int  BY <2>3
    <3> HIDE DEF z
    <3>2. (g * z + t) * p = (p * g) * z + p * t  BY <3>1, <1>1, <2>2
    <3>3. a = g * z + t  BY <2>4 DEF z
    <3>4. v = (g * z + t) * p  BY <3>3 DEF v
    <3> QED  BY <3>2, <3>4, <2>2 DEF z
  <2>6. p * t \in 0..(2^i - 1)
    <3>1. p * t <= p * (g - 1)  BY <1>1, <2>2
    <3>2. p * (g - 1) = p * g - p /\ p * t >= 0 /\ p * t \in Int  BY <1>1, <2>2
    <3>3. PICK s \in Int : s = p * g  BY <1>1, <2>2
    <3> QED  BY <3>1, <3>2, <3>3, <1>1, <2>2
  <2>7. BitAt(2^i * (2 * u + e) + p * t, i) = e  BY <1>0, <2>3, <2>6, BitOf
  <2> QED  BY <1>4, <1>5, <1>6, <1>8, <2>5, <2>7 DEF r, e, j
<1> QED  BY <1>7, <1>8

\* the low n bits of a word, taken as a number with a sign, in a word
LEMMA ExtendedIs ==
  ASSUME NEW v \in Int, NEW n \in 0..(W - 1)
  PROVE  LET h == 2^n
             m == v % (2 * h)
         IN  /\ h \in Nat \ {0} /\ m \in 0..(2 * h - 1)
             /\ Extended(v, n) \in Word
             /\ Signed(Extended(v, n)) = IF m >= h THEN m - 2 * h ELSE m
<1> DEFINE h == 2^n
           m == v % (2 * h)
           s == IF m >= h THEN m - 2 * h ELSE m
<1>0. W \in Nat \ {0} /\ n \in 0..W  BY WidthAssumption
<1>1. h \in Nat \ {0} /\ 2^(n + 1) = 2 * h  BY <1>0, Power, NextPower
<1>2. h <= Half
  <2>1. W - 1 \in 0..W /\ W - 1 - n \in 0..W /\ n + (W - 1 - n) = W - 1 /\ W - 1 <= W
    BY <1>0
  <2>2. Half = h * 2^(W - 1 - n)
    <3>1. 2^(n + (W - 1 - n)) = 2^n * 2^(W - 1 - n)  BY <2>1, <1>0, PowerSum
    <3> QED  BY <3>1, <2>1, HalfSize
  <2>3. PICK k \in Nat \ {0} : k = 2^(W - 1 - n)  BY <2>1, Power
  <2> HIDE DEF h
  <2>4. h * k >= h * 1  BY <2>3, <1>1
  <2> QED  BY <2>2, <2>3, <2>4, <1>1
<1>3. Extended(v, n) = Unsigned(s)  BY <1>1 DEF Extended, SignExtend
<1> HIDE DEF h
<1>4. m \in 0..(2 * h - 1)
  <2>1. 2 * h \in Nat \ {0}  BY <1>1
  <2> QED  BY <2>1, DivMod
<1> HIDE DEF m
<1>5. s \in -Half..(Half - 1)  BY <1>1, <1>2, <1>4, HalfSize
<1> HIDE DEF s
<1>6. Signed(Unsigned(s)) = s /\ Unsigned(s) \in Word  BY <1>5, SignedBack
<1> QED  BY <1>1, <1>3, <1>4, <1>6 DEF s, m, h

LEMMA SignExtends ==
  ASSUME NEW v \in Int, NEW n \in 0..(W - 1)
  PROVE  LET h == 2^n
         IN  /\ Extended(v, n) \in Word
             /\ Signed(Extended(v, n)) \in -h..(h - 1)
             /\ (Signed(Extended(v, n)) - v) % (2 * h) = 0
<1> DEFINE h == 2^n
           m == v % (2 * h)
           q == v \div (2 * h)
           s == Signed(Extended(v, n))
<1>1. /\ h \in Nat \ {0} /\ m \in 0..(2 * h - 1) /\ Extended(v, n) \in Word
      /\ s = IF m >= h THEN m - 2 * h ELSE m
  BY ExtendedIs
<1> HIDE DEF h, s
<1>2. 2 * h \in Nat \ {0}  BY <1>1
<1>3. q \in Int /\ v = (2 * h) * q + m  BY <1>2, DivMod
<1> HIDE DEF m, q
<1>4. s \in -h..(h - 1)  BY <1>1
<1>5. PICK e \in Int : e \in {0, 1} /\ s = m - (2 * h) * e
  <2>1. CASE m >= h
    <3>1. (2 * h) * 1 = 2 * h  BY <1>1
    <3> QED  BY <2>1, <3>1, <1>1
  <2>2. CASE ~(m >= h)
    <3>1. (2 * h) * 0 = 0  BY <1>1
    <3> QED  BY <2>2, <3>1, <1>1
  <2> QED  BY <2>1, <2>2
<1>6. s - v = (2 * h) * (-(q + e)) + 0
  <2>1. (2 * h) * (-(q + e)) = -((2 * h) * q) - (2 * h) * e  BY <1>1, <1>3, <1>5
  <2>2. PICK a \in Int : a = (2 * h) * q  BY <1>2, <1>3
  <2>3. PICK b \in Int : b = (2 * h) * e  BY <1>2, <1>5
  <2> QED  BY <2>1, <2>2, <2>3, <1>1, <1>3, <1>5
<1>7. -(q + e) \in Int /\ 0 \in 0..(2 * h - 1)  BY <1>1, <1>3, <1>5
<1>8. ((2 * h) * (-(q + e)) + 0) % (2 * h) = 0  BY <1>2, <1>7, Residue
<1> QED  BY <1>1, <1>4, <1>6, <1>8 DEF s, h

\* what is shifted right and extended is divided, rounding down
LEMMA ShiftedRight ==
  ASSUME NEW a \in Word, NEW n \in 0..(W - 1)
  PROVE  LET r == Extended(Right(a, n), W - 1 - n)
         IN  r \in Word /\ Signed(r) = Signed(a) \div 2^n
<1> DEFINE p == 2^n
           k == 2^(W - 1 - n)
           q == a \div p
           t == a % p
           m == q % (2 * k)
<1>0. /\ W \in Nat \ {0} /\ n \in 0..W /\ W - 1 - n \in 0..(W - 1) /\ W - 1 - n \in 0..W
      /\ n + (W - 1 - n) = W - 1 /\ W - 1 <= W
  BY WidthAssumption
<1>1. p \in Nat \ {0} /\ k \in Nat \ {0} /\ Half = p * k
  <2>1. 2^(n + (W - 1 - n)) = p * k  BY <1>0, PowerSum
  <2> QED  BY <2>1, <1>0, Power, HalfSize
<1> HIDE DEF p, k
<1>2. Half \in Nat /\ a \in Int /\ a \in 0..(2 * Half - 1)  BY HalfSize, SignedIs
<1>3. q \in Int /\ t \in 0..(p - 1) /\ a = p * q + t  BY <1>1, <1>2, DivMod
<1> HIDE DEF q, t
<1>4. q >= 0
  <2>1. CASE q < 0
    <3>1. p * q <= p * (-1)  BY <2>1, <1>1, <1>3
    <3> QED  BY <3>1, <1>1, <1>2, <1>3
  <2> QED  BY <2>1, <1>3
<1>5. q < 2 * k
  <2>1. CASE q >= 2 * k
    <3>1. p * q >= p * (2 * k)  BY <2>1, <1>1, <1>3
    <3>2. p * (2 * k) = 2 * Half  BY <1>1
    <3>3. PICK b \in Int : b = p * q  BY <1>1, <1>3
    <3> QED  BY <3>1, <3>2, <3>3, <1>1, <1>2, <1>3
  <2> QED  BY <2>1, <1>1, <1>3
<1>6. m = q
  <2>1. 2 * k \in Nat \ {0} /\ q \in 0..(2 * k - 1)  BY <1>1, <1>3, <1>4, <1>5
  <2> QED  BY <2>1, Small
<1>7. /\ Extended(q, W - 1 - n) \in Word
      /\ Signed(Extended(q, W - 1 - n)) = IF q >= k THEN q - 2 * k ELSE q
  <2>1. /\ Extended(q, W - 1 - n) \in Word
        /\ Signed(Extended(q, W - 1 - n)) = IF m >= k THEN m - 2 * k ELSE m
    BY <1>0, <1>3, ExtendedIs DEF k
  <2> QED  BY <2>1, <1>6
<1>8. Right(a, n) = q  BY DEF Right, q, p
<1>9. CASE q < k
  <2>1. p * q <= p * (k - 1)  BY <1>1, <1>3, <1>9
  <2>2. p * (k - 1) = Half - p  BY <1>1
  <2>3. PICK b \in Int : b = p * q  BY <1>1, <1>3
  <2>4. a < Half  BY <2>1, <2>2, <2>3, <1>1, <1>2, <1>3
  <2>5. Signed(a) = a /\ ~(q >= k)  BY <2>4, <1>1, <1>3, <1>9, SignedIs
  <2> QED  BY <2>5, <1>7, <1>8 DEF q, p
<1>10. CASE q >= k
  <2>1. p * q >= p * k  BY <1>1, <1>3, <1>10
  <2>2. PICK b \in Int : b = p * q  BY <1>1, <1>3
  <2>3. a >= Half  BY <2>1, <2>2, <1>1, <1>2, <1>3
  <2>4. Signed(a) = a - 2 * Half  BY <2>3, SignedIs
  <2>5. Signed(a) = p * (q - 2 * k) + t
    <3>1. p * (q - 2 * k) = p * q - 2 * (p * k)  BY <1>1, <1>3
    <3> QED  BY <3>1, <2>2, <2>4, <1>1, <1>2, <1>3
  <2>6. q - 2 * k \in Int  BY <1>1, <1>3
  <2>7. (p * (q - 2 * k) + t) \div p = q - 2 * k  BY <2>6, <1>1, <1>3, Residue
  <2> QED  BY <2>5, <2>7, <1>7, <1>8, <1>10 DEF p
<1> QED  BY <1>9, <1>10, <1>1, <1>3
-----------------------------------------------------------------------------
(* The first and the last bit that is set                                   *)

\* nothing is left of a number below its lowest bits that are clear
LEMMA ClearBelow ==
  ASSUME NEW a \in Word, NEW k \in 0..W,
         \A i \in 0..(W - 1) : i < k => BitAt(a, i) = 0
  PROVE  a % 2^k = 0
<1>0. W \in Nat \ {0} /\ a \in Int  BY WidthAssumption, SizeType DEF Word
<1> DEFINE Wrong == {j \in 0..k : a % 2^j # 0}
<1> SUFFICES ASSUME a % 2^k # 0  PROVE FALSE
  OBVIOUS
<1>1. k \in Wrong /\ Wrong \in SUBSET Nat  BY <1>0
<1>2. PICK j \in Wrong : \A n \in Wrong : j <= n  BY <1>1, HasLeast
<1>3. j \in 0..k /\ a % 2^j # 0  OBVIOUS
<1>4. j # 0
  <2>1. a % 1 = 0  BY <1>0
  <2> QED  BY <2>1, <1>3, PowerOf0
<1>5. j - 1 \in 0..(W - 1) /\ j - 1 \in 0..W /\ j - 1 < k /\ j - 1 < j /\ j - 1 \in 0..k
      /\ j - 1 + 1 = j
  BY <1>3, <1>4, <1>0
<1>6. j - 1 \notin Wrong
  <2>1. j - 1 \in Wrong => j <= j - 1  BY <1>2
  <2> QED  BY <2>1, <1>5, <1>3
<1> DEFINE p == 2^(j - 1)
<1>7. a % p = 0 /\ BitAt(a, j - 1) = 0 /\ p \in Nat \ {0} /\ 2^j = 2 * p
  BY <1>5, <1>6, Power, NextPower
<1> DEFINE q == a \div p
           u == q \div 2
<1>8. q \in Int /\ a = p * q + 0
  <2> HIDE DEF p
  <2> QED  BY <1>0, <1>7, DivMod
<1>9. q % 2 = 0  BY <1>7 DEF BitAt
<1> HIDE DEF q
<1>10. u \in Int /\ q = 2 * u + 0  BY <1>8, <1>9, DivMod
<1> HIDE DEF u, p
<1>11. a = (2 * p) * u + 0  BY <1>7, <1>8, <1>10
<1>12. ((2 * p) * u + 0) % (2 * p) = 0
  <2>1. 2 * p \in Nat \ {0} /\ 0 \in 0..(2 * p - 1)  BY <1>7
  <2> QED  BY <2>1, <1>10, Residue
<1> QED  BY <1>3, <1>7, <1>11, <1>12

\* and nothing from its highest bits
LEMMA ClearAbove ==
  ASSUME NEW a \in Word, NEW k \in 0..W,
         \A i \in 0..(W - 1) : i >= k => BitAt(a, i) = 0
  PROVE  a < 2^k
<1>0. W \in Nat \ {0} /\ a \in Int /\ a >= 0 /\ a < 2^W
  BY WidthAssumption, SizeType DEF Word, Size
<1> DEFINE Above == {j \in 0..(W - k) : ~(a < 2^(W - j))}
<1>1. W - (W - k) = k /\ W - k \in 0..(W - k) /\ W - 0 = W  BY <1>0
<1> SUFFICES ASSUME ~(a < 2^k)  PROVE FALSE
  OBVIOUS
<1>2. W - k \in Above /\ Above \in SUBSET Nat  BY <1>0, <1>1
<1>3. PICK j \in Above : \A n \in Above : j <= n  BY <1>2, HasLeast
<1>4. j \in 0..(W - k) /\ ~(a < 2^(W - j)) /\ j # 0  BY <1>0, <1>1
<1>5. j - 1 \in 0..(W - k) /\ j - 1 < j /\ W - (j - 1) = W - j + 1
      /\ W - j \in 0..(W - 1) /\ W - j \in 0..W /\ W - j >= k
  BY <1>4, <1>0
<1>6. j - 1 \notin Above
  <2>1. j - 1 \in Above => j <= j - 1  BY <1>3
  <2> QED  BY <2>1, <1>5, <1>4
<1> DEFINE p == 2^(W - j)
<1>7. p \in Nat \ {0} /\ a < 2 * p /\ BitAt(a, W - j) = 0
  <2>1. 2^(W - j + 1) = 2 * p  BY <1>5, NextPower
  <2> QED  BY <2>1, <1>5, <1>6, Power
<1> DEFINE e == BitAt(a, W - j)
<1>8. \E u \in Int, t \in 0..(p - 1) : a = p * (2 * u + e) + t  BY <1>0, <1>5, Digits
<1> HIDE DEF p, e
<1>9. PICK u \in Int, t \in 0..(p - 1) : a = p * (2 * u + e) + t  BY <1>8
<1>10. e = 0  BY <1>7 DEF e
<1>11. PICK m \in Nat \ {0} : m = 2 * p  BY <1>7
<1>12. u = 0
  <2>1. a = m * u + t  BY <1>7, <1>9, <1>10, <1>11
  <2>2. t \in 0..(m - 1) /\ a \in 0..(m - 1)  BY <1>0, <1>7, <1>9, <1>11
  <2>3. PICK z \in Int : z = 0 /\ m * u + t = m * z + a  BY <2>1, <1>0, <1>11
  <2>4. u = z  BY <2>2, <2>3, <1>11, Unique
  <2> QED  BY <2>3, <2>4
<1>13. a < p  BY <1>7, <1>9, <1>10, <1>12
<1> QED  BY <1>13, <1>4 DEF p

LEMMA SomeOne ==
  ASSUME NEW a \in Word, a # 0
  PROVE  Ones(a) # {} /\ Ones(a) \in SUBSET (0..(W - 1))
<1>0. W \in Nat \ {0} /\ W \in 0..W /\ a \in Int /\ a \in 0..(Size - 1) /\ Size \in Nat \ {0}
  BY WidthAssumption, SizeType DEF Word
<1> SUFFICES ASSUME Ones(a) = {}  PROVE FALSE
  BY DEF Ones
<1>1. ASSUME NEW i \in 0..(W - 1)  PROVE BitAt(a, i) = 0
  <2>1. BitAt(a, i) \in {0, 1}  BY <1>0, Digits
  <2> QED  BY <2>1 DEF Ones
<1>2. a % Size = 0  BY <1>0, <1>1, ClearBelow DEF Size
<1>3. a % Size = a  BY <1>0, Small
<1> QED  BY <1>2, <1>3

LEMMA FirstOneIs ==
  ASSUME NEW a \in Word, a # 0
  PROVE  LET r == FirstOne(a)
         IN  r \in 1..W /\ a % 2^r = 2^(r - 1)
<1>0. W \in Nat \ {0} /\ a \in Int  BY WidthAssumption, SizeType DEF Word
<1>1. Ones(a) # {} /\ Ones(a) \in SUBSET (0..(W - 1))  BY SomeOne
<1>2. \E i \in Ones(a) : \A j \in Ones(a) : i <= j
  <2>1. Ones(a) \in SUBSET Nat  BY <1>0, <1>1
  <2> QED  BY <1>1, <2>1, HasLeast
<1>3. PICK i \in Ones(a) : FirstOne(a) = 1 + i /\ \A j \in Ones(a) : i <= j
  BY <1>2 DEF FirstOne
<1>4. i \in 0..(W - 1) /\ i \in 0..W /\ BitAt(a, i) = 1  BY <1>0, <1>1 DEF Ones
<1>5. ASSUME NEW j \in 0..(W - 1), j < i  PROVE BitAt(a, j) = 0
  <2>1. BitAt(a, j) \in {0, 1}  BY <1>0, Digits
  <2>2. j \notin Ones(a)  BY <1>3, <1>4, <1>5
  <2> QED  BY <2>1, <2>2 DEF Ones
<1> DEFINE p == 2^i
           e == BitAt(a, i)
<1>6. a % p = 0  BY <1>4, <1>5, ClearBelow
<1>7. p \in Nat \ {0} /\ 2^(i + 1) = 2 * p  BY <1>4, Power, NextPower
<1>8. \E u \in Int, t \in 0..(p - 1) : a = p * (2 * u + e) + t  BY <1>0, <1>4, Digits
<1>9. e = 1  BY <1>4
<1> HIDE DEF p, e
<1>10. PICK u \in Int, t \in 0..(p - 1) : a = p * (2 * u + e) + t  BY <1>8
<1>11. t = 0
  <2>1. 2 * u + e \in Int  BY <1>9
  <2>2. (p * (2 * u + e) + t) % p = t  BY <2>1, <1>7, Residue
  <2> QED  BY <2>2, <1>6, <1>10
<1>12. a = (2 * p) * u + p  BY <1>7, <1>9, <1>10, <1>11
<1>13. ((2 * p) * u + p) % (2 * p) = p
  <2>1. 2 * p \in Nat \ {0} /\ p \in 0..(2 * p - 1)  BY <1>7
  <2> QED  BY <2>1, Residue
<1>14. PICK r \in 1..W : r = FirstOne(a) /\ r = i + 1 /\ r - 1 = i  BY <1>0, <1>3, <1>4
<1> QED  BY <1>7, <1>12, <1>13, <1>14 DEF p

LEMMA LastOneIs ==
  ASSUME NEW a \in Word, a # 0
  PROVE  LET r == LastOne(a)
         IN  r \in 1..W /\ 2^(r - 1) <= a /\ a < 2^r
<1>0. W \in Nat \ {0} /\ a \in Int /\ a >= 0 /\ W - 1 \in Nat
  BY WidthAssumption, SizeType DEF Word
<1>1. Ones(a) # {} /\ Ones(a) \in SUBSET (0..(W - 1))  BY SomeOne
<1>2. \E i \in Ones(a) : \A j \in Ones(a) : i >= j  BY <1>0, <1>1, HasGreatest
<1>3. PICK i \in Ones(a) : LastOne(a) = 1 + i /\ \A j \in Ones(a) : i >= j
  BY <1>2 DEF LastOne
<1>4. i \in 0..(W - 1) /\ i \in 0..W /\ BitAt(a, i) = 1 /\ i + 1 \in 0..W
  BY <1>0, <1>1 DEF Ones
<1>5. ASSUME NEW j \in 0..(W - 1), j >= i + 1  PROVE BitAt(a, j) = 0
  <2>1. BitAt(a, j) \in {0, 1}  BY <1>0, Digits
  <2>2. j \notin Ones(a)  BY <1>3, <1>4, <1>5
  <2> QED  BY <2>1, <2>2 DEF Ones
<1>6. a < 2^(i + 1)  BY <1>4, <1>5, ClearAbove
<1> DEFINE p == 2^i
           e == BitAt(a, i)
<1>7. p \in Nat \ {0}  BY <1>4, Power
<1>8. \E u \in Int, t \in 0..(p - 1) : a = p * (2 * u + e) + t  BY <1>0, <1>4, Digits
<1>9. e = 1  BY <1>4
<1> HIDE DEF p, e
<1>10. PICK u \in Int, t \in 0..(p - 1) : a = p * (2 * u + e) + t  BY <1>8
<1>11. p <= a
  <2>1. a = (2 * p) * u + (p + t)  BY <1>7, <1>9, <1>10
  <2>2. CASE u < 0
    <3>1. (2 * p) * u <= (2 * p) * (-1)  BY <2>2, <1>7
    <3> QED  BY <3>1, <2>1, <1>0, <1>7, <1>10
  <2>3. CASE u >= 0
    <3>1. (2 * p) * u >= 0  BY <2>3, <1>7
    <3> QED  BY <3>1, <2>1, <1>7, <1>10
  <2> QED  BY <2>2, <2>3
<1>12. PICK r \in 1..W : r = LastOne(a) /\ r = i + 1 /\ r - 1 = i  BY <1>0, <1>3, <1>4
<1> QED  BY <1>6, <1>11, <1>12 DEF p
-----------------------------------------------------------------------------
(* The invariant                                                            *)

Zero == [hi |-> 0, lo |-> 0]

\* the compiled instruction is that of the word
Compiles ==
  /\ phase = "idle" => ci = Nothing
  /\ ci # Nothing => word \in InsnWords /\ DecodeWord(word) \in Instructions /\ ci = Compiled(word)

Ready ==
  /\ phase \in {"idle", "execute"} => Quiet(cpu)
  /\ phase = "execute" => setup.unit # "decode" /\ x \in Word /\ y \in Word /\ d \in Word

Accumulated ==
  /\ mac \in [hi : Word, lo : Word] /\ acc \in [sum : Int, terms : Nat]
  /\ MacIsSum
  /\ setup.unit = "decode" => mac = Zero

Kept ==
  /\ DOMAIN spr = Stored /\ DOMAIN kept = Stored
  /\ \A r \in Stored \ Unreadable : spr[r] = ReadsAs(r, kept[r])

\* the last request, and the flags of the floating point unit and of the host
Beside ==
  /\ dreq \in [write : BOOLEAN, excl : BOOLEAN, size : {1, 2, 4}]
  /\ fp \in [flags : SUBSET FpFlagNames, host : SUBSET FpFlagNames,
             raised : SUBSET FpFlagNames]

InsnInv ==
  /\ setup \in Setups
  /\ phase \in {"idle", "execute", "done", "thrown", "killed"}
  /\ cpu \in Cpus /\ cpu.aesr \subseteq setup.aecr
  /\ Compiles /\ Ready /\ Accumulated /\ Kept /\ Beside

LEMMA NothingFields ==
  Nothing.exec = "none" /\ Nothing.op = Invalid
BY DEF Nothing, Ci, None

LEMMA UnitsOfExec ==
  /\ "l.macrc" \in MacExecs
  /\ "l.macrc" \notin IntegerExecs \cup Loads \cup Stores \cup {"l.mfspr", "l.mtspr", "l.rfe"}
                      \cup FpArithmetic \cup FpOthers
BY UnitsApart DEF MacExecs, MacOps, DoubleOps

LEMMA InitInv ==
  ASSUME Init
  PROVE  InsnInv
<1> USE DEF Init
<1>1. setup \in Setups /\ phase = "idle" /\ ci = Nothing /\ cpu = CpuInit(setup)  OBVIOUS
<1>2. cpu \in Cpus /\ cpu.aesr \subseteq setup.aecr /\ Quiet(cpu)
  BY <1>1, CpuInitType
<1>3. Compiles  BY <1>1 DEF Compiles
<1>4. Ready  BY <1>1, <1>2 DEF Ready
<1>5. Accumulated
  <2>1. Size \in Nat \ {0} /\ Double \in Nat \ {0}  BY SizeType
  <2>2. mac = Zero /\ acc = [sum |-> 0, terms |-> 0] /\ 0 \in Word
    BY <2>1 DEF Zero, Word
  <2>3. 0 \in 0..(Double - 1)  BY <2>1
  <2>4. 0 % Double = 0  BY <2>1, <2>3, Small
  <2>5. 0 * Size + 0 = 0  BY <2>1
  <2> QED  BY <1>1, <2>2, <2>4, <2>5 DEF Accumulated, MacIsSum, Zero
<1>6. Kept
  <2>1. ASSUME NEW r \in Stored \ Unreadable  PROVE SprInit[r] = ReadsAs(r, SprInit[r])
    BY SMT, <2>1 DEF SprInit, ReadsAs, Unreadable
  <2>2. spr = SprInit /\ kept = SprInit /\ DOMAIN SprInit = Stored  BY DEF SprInit
  <2> QED  BY <2>1, <2>2 DEF Kept
<1>7. Beside  BY DEF Beside
<1> QED  BY <1>1, <1>2, <1>3, <1>4, <1>5, <1>6, <1>7 DEF InsnInv
-----------------------------------------------------------------------------
(* A step at a time.  An action that executes leaves the code as it is.     *)

LEMMA DonePreserves ==
  ASSUME InsnInv, UNCHANGED code, phase = "execute", phase' = "done",
         cpu' \in Cpus, cpu'.aesr \subseteq setup.aecr,
         (UNCHANGED <<mac, acc>> /\ ci.exec # "l.macrc") \/ Accumulated',
         UNCHANGED <<spr, kept>> \/ Kept',
         UNCHANGED <<dreq, fp>> \/ Beside'
  PROVE  InsnInv'
<1> USE DEF code
<1>1. setup' = setup /\ ci' = ci /\ word' = word  OBVIOUS
<1>2. Compiles'  BY <1>1 DEF InsnInv, Compiles
<1>3. Ready'  BY DEF Ready
<1>4. Accumulated'
  <2>1. CASE UNCHANGED <<mac, acc>> /\ ci.exec # "l.macrc"
    BY <1>1, <2>1 DEF InsnInv, Accumulated, MacIsSum
  <2> QED  BY <2>1
<1>5. Kept'
  <2>1. CASE UNCHANGED <<spr, kept>>  BY <2>1 DEF InsnInv, Kept
  <2> QED  BY <2>1
<1>6. Beside'  BY DEF InsnInv, Beside
<1> QED  BY <1>1, <1>2, <1>3, <1>4, <1>5, <1>6 DEF InsnInv

LEMMA CompileIllegalInv ==
  ASSUME InsnInv, NEW w, CompileIllegal(w)
  PROVE  InsnInv'
<1> USE DEF CompileIllegal, code
<1>1. cpu' \in Cpus /\ cpu'.aesr = cpu.aesr  BY RaiseFields DEF InsnInv
<1>2. ci = Nothing  BY DEF InsnInv, Compiles
<1>3. Compiles'  BY <1>2 DEF Compiles
<1>4. Ready'  BY DEF Ready
<1>5. Accumulated'  BY <1>2, NothingFields DEF InsnInv, Accumulated, MacIsSum
<1>6. Kept'  BY DEF InsnInv, Kept
<1>7. Beside'  BY DEF InsnInv, Beside
<1> QED  BY <1>1, <1>3, <1>4, <1>5, <1>6, <1>7 DEF InsnInv

LEMMA CompileCustomInv ==
  ASSUME InsnInv, NEW w, CompileCustom(w)
  PROVE  InsnInv'
<1> USE DEF CompileCustom, code
<1>1. Compiles'  BY DEF InsnInv, Compiles
<1>2. Ready'  BY DEF Ready
<1>3. Accumulated'  BY DEF InsnInv, Accumulated, MacIsSum
<1>4. Kept'  BY DEF InsnInv, Kept
<1>5. Beside'  BY DEF InsnInv, Beside
<1> QED  BY <1>1, <1>2, <1>3, <1>4, <1>5 DEF InsnInv

LEMMA WordUnsigned ==
  ASSUME NEW v \in Int
  PROVE  Unsigned(v) \in Word
BY SizeType, DivMod DEF Unsigned, Word

LEMMA CompileInv ==
  ASSUME InsnInv, NEW w \in Words(setup.unit), Compile(w)
  PROVE  InsnInv'
<1> USE DEF Compile
<1>0. setup \in Setups /\ setup' = setup /\ cpu' = cpu /\ word' = w /\ phase = "idle"
      /\ phase' \in {"done", "execute"}
  BY DEF InsnInv
<1>1. w \in InsnWords  BY <1>0, SetupType
<1>2. DecodeWord(w) \in Instructions  BY <1>1, KnownWord DEF Known
<1>3. ci' = Compiled(w)  OBVIOUS
<1>4. Compiles'  BY <1>0, <1>1, <1>2, <1>3 DEF Compiles
<1>5. Ready'
  <2>1. PICK v \in Operands(setup.unit) :
          /\ x' = v.x /\ d' = v.d
          /\ y' = IF ci'.src2 = Imm /\ setup.unit = "int" THEN Unsigned(ci'.imm) ELSE v.y
    OBVIOUS
  <2>2. v \in [x : Word, y : Word, d : Word, reg : SPRs \cup {None}]  BY <1>0, SetupType
  <2>3. v.x \in Word /\ v.y \in Word /\ v.d \in Word  BY <2>2
  <2>4. ci'.imm \in Int  BY <1>1, <1>2, <1>3, UsableWord DEF Usable
  <2>5. Unsigned(ci'.imm) \in Word  BY <2>4, WordUnsigned
  <2>6. x' \in Word /\ y' \in Word /\ d' \in Word  BY <2>1, <2>3, <2>5
  <2>7. phase' = "execute" => setup.unit # "decode"  OBVIOUS
  <2>8. Quiet(cpu)'  BY <1>0 DEF InsnInv, Ready, Quiet
  <2> QED  BY <1>0, <2>6, <2>7, <2>8 DEF Ready
<1>6. Accumulated'
  <2>1. UNCHANGED <<mac, acc>>  OBVIOUS
  <2>2. phase' = "done" => mac = Zero  BY <1>0 DEF InsnInv, Accumulated
  <2> QED  BY <1>0, <2>1, <2>2 DEF InsnInv, Accumulated, MacIsSum, Zero
<1>7. Kept'  BY DEF InsnInv, Kept
<1>8. Beside'  BY DEF InsnInv, Beside
<1> QED  BY <1>0, <1>4, <1>5, <1>6, <1>7, <1>8 DEF InsnInv

LEMMA RetireInv ==
  ASSUME InsnInv, Retire
  PROVE  InsnInv'
<1> USE DEF Retire
<1>0. setup \in Setups /\ setup' = setup  BY DEF InsnInv
<1>1. cpu' \in Cpus /\ cpu'.aesr = {} /\ Quiet(cpu')
  <2> DEFINE c == CpuInit(setup)
             sr == IF cpu.epc = None THEN cpu.sr ELSE cpu.esr
  <2>1. c \in Cpus /\ c.aesr = {} /\ Quiet(c)  BY <1>0, CpuInitType
  <2>2. sr \in Statuses  BY DEF InsnInv, Cpus
  <2>3. cpu' = [c EXCEPT !.sr = sr]  OBVIOUS
  <2> HIDE DEF c, sr
  <2> QED  BY <2>1, <2>2, <2>3 DEF Cpus, Quiet
<1>2. Quiet(cpu)'  BY <1>0, <1>1 DEF Quiet
<1>3. Compiles'  BY DEF Compiles
<1>4. Ready'  BY <1>2 DEF Ready
<1>5. Accumulated'  BY <1>0 DEF InsnInv, Accumulated, MacIsSum
<1>6. Kept'
  <2>1. spr' = [spr EXCEPT !.NPC = 0, !.PPC = 0] /\ kept' = kept  OBVIOUS
  <2> QED  BY <2>1 DEF InsnInv, Kept, Unreadable
<1>7. Beside'
  <2>1. dreq' = dreq /\ fp' = [fp EXCEPT !.raised = {}]  OBVIOUS
  <2> QED  BY <2>1 DEF InsnInv, Beside
<1> QED  BY <1>0, <1>1, <1>3, <1>4, <1>5, <1>6, <1>7 DEF InsnInv

LEMMA KilledInv ==
  ASSUME InsnInv, Killed
  PROVE  InsnInv'
<1> USE DEF Killed, code
<1>1. Compiles'  BY DEF InsnInv, Compiles
<1>2. Ready'  BY DEF Ready
<1>3. Accumulated'  BY DEF InsnInv, Accumulated, MacIsSum
<1>4. Kept'  BY DEF InsnInv, Kept
<1>5. Beside'  BY DEF InsnInv, Beside
<1> QED  BY <1>1, <1>2, <1>3, <1>4, <1>5 DEF InsnInv
-----------------------------------------------------------------------------
(* The functions of execute.cpp                                             *)

LEMMA Executing ==
  ASSUME InsnInv, phase = "execute"
  PROVE  /\ setup \in Setups /\ cpu \in Cpus /\ cpu.aesr \subseteq setup.aecr /\ Quiet(cpu)
         /\ x \in Word /\ y \in Word /\ d \in Word /\ setup.unit # "decode"
         /\ cpu.sr \in Statuses /\ cpu.epc = None
BY DEF InsnInv, Ready, Cpus, Quiet

\* what a step says about the status
StatusStep ==
  /\ cpu'.epc = None => cpu'.sr.sm = cpu.sr.sm
  /\ Faults /\ RaisedOnce => SavedExactly(cpu, cpu', IF ci.exec \in FpArithmetic THEN "next"
                                                     ELSE Place)

LEMMA IntegerStep ==
  ASSUME InsnInv, ExecInteger
  PROVE  InsnInv' /\ StatusStep
<1> DEFINE e == Integer(ci.exec, x, y, cpu.sr)
<1>1. /\ phase = "execute" /\ phase' = "done" /\ ci.exec \in IntegerExecs
      /\ cpu' = Effects(cpu, e)
      /\ UNCHANGED code /\ UNCHANGED <<mac, acc>> /\ UNCHANGED <<spr, kept>>
      /\ UNCHANGED <<dreq, fp>>
  BY DEF ExecInteger, Executes
<1>2. /\ setup \in Setups /\ cpu \in Cpus /\ cpu.aesr \subseteq setup.aecr /\ Quiet(cpu)
  BY <1>1, Executing
<1>3. /\ IsEffect(e)
      /\ ci.exec \notin {"l.addc", "l.sub"} => Once(e)
      /\ ci.exec \in {"l.addc", "l.sub"} =>
           e.first.flag = "cy" /\ e.second.flag = "ov" /\ e.first.cause = "CYADDE"
  BY <1>1, <1>2, IntegerEffect
<1>4. ci.exec # "l.macrc" /\ ci.exec \notin FpArithmetic
  BY <1>1, UnitsApart, UnitsOfExec
<1> HIDE DEF e
<1>5. /\ cpu' \in Cpus /\ cpu'.aesr \subseteq setup.aecr
      /\ cpu'.epc = None => cpu'.sr.sm = cpu.sr.sm
      /\ e.first.hit /\ e.second.hit /\ e.first.flag = "cy" /\ e.second.flag = "ov"
           => cpu'.sr.cy /\ cpu'.sr.ov
      /\ cpu'.epc # None /\ ~(e.first.cause \in setup.aecr /\ e.first.hit /\ e.second.hit)
           => SavedExactly(cpu, cpu', Place)
  BY <1>1, <1>2, <1>3, EffectsFields
<1>6. InsnInv'  BY <1>1, <1>4, <1>5, DonePreserves
<1>7. Faults /\ RaisedOnce => SavedExactly(cpu, cpu', Place)
  <2> SUFFICES ASSUME Faults, RaisedOnce  PROVE SavedExactly(cpu, cpu', Place)
    OBVIOUS
  <2>1. Once(e)
    <3>1. CASE ci.exec \in {"l.addc", "l.sub"}
      <4>1. ~(cpu'.sr.cy /\ cpu'.sr.ov) \/ "CYADDE" \notin setup.aecr
        BY <3>1, <1>4 DEF RaisedOnce
      <4> QED  BY <4>1, <3>1, <1>3, <1>5 DEF Once
    <3>2. CASE ci.exec \notin {"l.addc", "l.sub"}  BY <3>2, <1>3
    <3> QED  BY <3>1, <3>2
  <2> QED  BY <2>1, <1>5 DEF Once, Faults
<1> QED  BY <1>4, <1>5, <1>6, <1>7 DEF StatusStep

LEMMA MacStep ==
  ASSUME InsnInv, ExecMac
  PROVE  InsnInv' /\ StatusStep
<1> DEFINE m == MacValue(mac)
           e == MacResult(ci.exec, x, y, m)
           fresh == ci.exec \in DoubleOps \cup {"l.macrc"}
           term == MacTerm(ci.exec, x, y)
<1>1. /\ phase = "execute" /\ phase' = "done" /\ ci.exec \in MacExecs
      /\ cpu' = Effects(cpu, e)
      /\ mac' = [hi |-> e.d \div Size, lo |-> e.d % Size]
      /\ UNCHANGED code /\ UNCHANGED <<spr, kept>> /\ UNCHANGED <<dreq, fp>>
  BY DEF ExecMac, Executes, MacExecs
<1>2. /\ setup \in Setups /\ cpu \in Cpus /\ cpu.aesr \subseteq setup.aecr /\ Quiet(cpu)
      /\ x \in Word /\ y \in Word /\ setup.unit # "decode"
  BY <1>1, Executing
<1>3. IsEffect(e) /\ Once(e)  BY <1>1, MacEffect
<1>4. ci.exec \notin FpArithmetic  BY <1>1, UnitsApart
<1>5. Term = term
  BY SMT, <1>1 DEF Term, MacTerm, MacExecs, MacOps, DoubleOps
<1>6. acc' = [sum |-> IF fresh THEN term ELSE acc.sum + term,
              terms |-> CASE ci.exec = "l.macrc" -> 0
                          [] ci.exec \in DoubleOps -> 1
                          [] OTHER -> acc.terms + 1]
  BY <1>5 DEF ExecMac
<1>7. m \in Nat /\ acc.sum \in Int /\ acc.terms \in Nat /\ acc.sum % Double = m
  <2>1. mac.hi \in Nat /\ mac.lo \in Nat  BY SizeType DEF InsnInv, Accumulated, Word
  <2> QED  BY <2>1, SizeType DEF InsnInv, Accumulated, MacIsSum, MacValue
<1>8. term \in Int /\ e.d = (IF fresh THEN term ELSE m + term) % Double
  BY <1>1, <1>2, <1>7, MacAdds
<1>9. Double \in Nat \ {0}  BY SizeType
<1>10. "l.macrc" \notin DoubleOps  BY DEF DoubleOps
<1>11. ci.exec = "l.macrc" => term = 0  BY SMT DEF MacTerm
<1> HIDE DEF e, term, m
<1>12. /\ cpu' \in Cpus /\ cpu'.aesr \subseteq setup.aecr
       /\ cpu'.epc = None => cpu'.sr.sm = cpu.sr.sm
       /\ cpu'.epc # None /\ ~(e.first.cause \in setup.aecr /\ e.first.hit /\ e.second.hit)
            => SavedExactly(cpu, cpu', Place)
  BY <1>1, <1>2, <1>3, EffectsFields
<1>13. acc'.sum \in Int /\ acc'.terms \in Nat /\ acc' \in [sum : Int, terms : Nat]
       /\ acc'.sum = IF fresh THEN term ELSE acc.sum + term
  BY <1>6, <1>7, <1>8
<1>14. acc'.sum % Double = e.d
  <2>1. CASE fresh  BY <2>1, <1>8, <1>13
  <2>2. CASE ~fresh
    <3>1. ((acc.sum % Double) + term) % Double = (acc.sum + term) % Double
      BY <1>7, <1>8, <1>9, SumReduced
    <3> QED  BY <3>1, <2>2, <1>7, <1>8, <1>13
  <2> QED  BY <2>1, <2>2
<1>15. e.d \in Nat /\ e.d < Double
  <2>1. PICK s \in Int : s = acc'.sum  BY <1>13
  <2>2. s % Double \in Nat /\ s % Double < Double  BY <1>9, DivMod
  <2> QED  BY <2>1, <2>2, <1>14
<1>16. /\ mac'.hi \in Word /\ mac'.lo \in Word /\ mac' \in [hi : Word, lo : Word]
       /\ mac'.hi * Size + mac'.lo = e.d
  BY <1>1, <1>15, TwoWords
<1>17. ci.exec = "l.macrc" => mac' = Zero
  <2> SUFFICES ASSUME ci.exec = "l.macrc"  PROVE mac' = Zero  OBVIOUS
  <2>1. 0 \in 0..(Double - 1) /\ 0 \in 0..(Size - 1)  BY <1>9, SizeType
  <2>2. e.d = 0  BY <2>1, <1>8, <1>9, <1>11, Small
  <2>3. 0 \div Size = 0 /\ 0 % Size = 0  BY <2>1, SizeType, Small
  <2> QED  BY <2>2, <2>3, <1>1 DEF Zero
<1>18. Accumulated'
  <2>1. setup' = setup /\ ci' = ci  BY <1>1 DEF code
  <2> QED
    BY <2>1, <1>2, <1>13, <1>14, <1>16, <1>17 DEF Accumulated, MacIsSum, Zero
<1>19. InsnInv'  BY <1>1, <1>12, <1>18, DonePreserves
<1> QED  BY <1>3, <1>4, <1>12, <1>19 DEF StatusStep, Once, Faults

LEMMA RaisedSaves ==
  ASSUME setup \in Setups, NEW c \in Cpus, Quiet(c), NEW type
  PROVE  SavedExactly(c, Raise(c, type), IF type = "FP" THEN "next" ELSE Place)
<1> DEFINE r == Raise(c, type)
           now == (c.jump = "now")
<1>1. /\ setup.slot \in BOOLEAN /\ now \in BOOLEAN /\ (now <=> setup.slot)
  BY SetupType DEF Quiet, None
<1>2. c.sr \in Statuses  BY DEF Cpus
<1>3. /\ r.esr = c.sr /\ r.sr = Handling(c.sr, now)
      /\ r.epc = IF type = "FP" THEN "next" ELSE IF now THEN "prev" ELSE "here"
  BY RaiseFields
<1> HIDE DEF r, now
<1>4. /\ r.sr.f = c.sr.f /\ r.sr.cy = c.sr.cy /\ r.sr.ov = c.sr.ov
      /\ r.sr.dsx = (c.sr.dsx \/ now)
  BY <1>1, <1>2, <1>3, HandlingType
<1>5. c.sr = [c.sr EXCEPT !.f = c.sr.f, !.cy = c.sr.cy, !.ov = c.sr.ov] /\ c.sr.dsx \in BOOLEAN
  BY <1>2 DEF Statuses
<1>6. r.esr = [c.sr EXCEPT !.f = r.sr.f, !.cy = r.sr.cy, !.ov = r.sr.ov]
  BY <1>3, <1>4, <1>5
<1>7. r.sr.dsx = (setup.slot \/ c.sr.dsx)  BY <1>1, <1>4, <1>5
<1>8. r.epc = IF type = "FP" THEN "next" ELSE Place  BY <1>1, <1>3 DEF Place
<1> QED  BY <1>6, <1>7, <1>8 DEF SavedExactly, r
-----------------------------------------------------------------------------
(* Loads and stores, moves between registers, l.rfe                         *)

LEMMA MemoryNames ==
  /\ DataFaults \cap {"SUCCESS", "FAILED", "FP", "DATA_ALIGNMENT"} = {}
  /\ Loads \cap Stores = {}
  /\ ExclusiveExecs = {"l.lwa", "l.swa"} /\ "l.lwa" \in Loads /\ "l.swa" \in Stores
BY SMT DEF DataFaults, Loads, Stores, ExclusiveExecs

\* what a load or store leaves: AccessExact is about this
Accessed ==
  LET n == 2^BitsOf(ci.exec)
  IN  /\ dreq' = [write |-> ci.exec \in Stores, excl |-> ci.exec \in ExclusiveExecs,
                  size |-> Bytes(ci.exec)]
      /\ (Faults \/ ci.exec \notin ExclusiveExecs) => cpu'.sr.f = cpu.sr.f
      /\ (Faults \/ ci.exec \in Stores) => d' = d
      /\ ~(Faults \/ ci.exec \in Stores) =>
           /\ d' % n = y % n
           /\ IF ci.exec \in {"l.lhs", "l.lbs"}
              THEN Signed(d') \in -(n \div 2)..((n \div 2) - 1) ELSE d' < n

\* a fault is an exception, and otherwise only the flag may change
LEMMA RespondedFields ==
  ASSUME setup \in Setups, NEW c \in Cpus, Quiet(c),
         dreq'.excl \in BOOLEAN, dreq'.write \in BOOLEAN, NEW answer \in Answers
  PROVE  LET r == Responded(c, answer)
         IN  /\ r \in Cpus /\ r.aesr = c.aesr
             /\ answer \in {"SUCCESS", "FAILED"} =>
                  /\ r.epc = None /\ r.sr.sm = c.sr.sm
                  /\ ~dreq'.excl => r.sr.f = c.sr.f
             /\ answer \notin {"SUCCESS", "FAILED"} =>
                  r.epc # None /\ r.sr.f = c.sr.f /\ SavedExactly(c, r, Place)
             /\ answer = "FAILED" => dreq'.write
<1> DEFINE r == Responded(c, answer)
           now == (c.jump = "now")
<1>1. c.sr \in Statuses /\ c.epc = None  BY DEF Cpus, Quiet
<1>2. \/ answer \in DataFaults \cup {"DATA_ALIGNMENT", "SUCCESS"}
      \/ answer = "FAILED" /\ dreq'.excl /\ dreq'.write
  <2>1. CASE Misaligned
    <3>1. Answers = {"DATA_ALIGNMENT"}  BY <2>1 DEF Answers
    <3> QED  BY <3>1
  <2>2. CASE ~Misaligned /\ (dreq'.excl /\ dreq'.write)  BY <2>2 DEF Answers
  <2>3. CASE ~Misaligned /\ ~(dreq'.excl /\ dreq'.write)
    <3>1. Answers = DataFaults \cup {"SUCCESS"}  BY <2>3 DEF Answers
    <3> QED  BY <3>1
  <2> QED  BY <2>1, <2>2, <2>3
<1>3. CASE answer = "FAILED"
  <2> DEFINE s == [c.sr EXCEPT !.f = FALSE]
  <2>1. r = [c EXCEPT !.sr = s]  BY <1>1, <1>3 DEF Responded, Cpus
  <2>2. r \in Cpus /\ r.aesr = c.aesr /\ r.epc = None /\ r.sr.sm = c.sr.sm
    <3>1. c.sr \in Statuses /\ s \in Statuses /\ s.sm = c.sr.sm  BY DEF Cpus, Statuses
    <3> HIDE DEF r, s
    <3> QED  BY <2>1, <3>1, <1>1 DEF Cpus
  <2>3. dreq'.excl /\ dreq'.write  BY <1>2, <1>3, MemoryNames
  <2> QED  BY <1>3, <2>2, <2>3
<1>4. CASE answer = "SUCCESS"
  <2>1. r = IF dreq'.excl THEN [c EXCEPT !.sr.f = TRUE] ELSE c  BY <1>4 DEF Responded
  <2> HIDE DEF r
  <2>2. CASE dreq'.excl
    <3> DEFINE s == [c.sr EXCEPT !.f = TRUE]
    <3>1. r = [c EXCEPT !.sr = s]  BY <2>1, <2>2 DEF Cpus
    <3>2. s \in Statuses /\ s.sm = c.sr.sm  BY <1>1 DEF Statuses
    <3> HIDE DEF s
    <3>3. r \in Cpus /\ r.aesr = c.aesr /\ r.epc = None /\ r.sr.sm = c.sr.sm
      BY <3>1, <3>2, <1>1 DEF Cpus
    <3> QED  BY <1>4, <2>2, <3>3 DEF r
  <2>3. CASE ~dreq'.excl
    <3>1. r = c  BY <2>1, <2>3
    <3> QED  BY <1>1, <1>4, <3>1 DEF r
  <2> QED  BY <2>2, <2>3
<1>5. CASE answer \notin {"SUCCESS", "FAILED"}
  <2>1. r = Raise(c, answer)  BY <1>5 DEF Responded
  <2>2. answer # "FP"  BY <1>2, <1>5, MemoryNames
  <2>3. /\ r \in Cpus /\ r.aesr = c.aesr /\ r.epc # None
        /\ r.sr = Handling(c.sr, now)
    BY <2>1, RaiseFields
  <2>4. now \in BOOLEAN  OBVIOUS
  <2>5. SavedExactly(c, r, Place)  BY <2>1, <2>2, RaisedSaves
  <2> HIDE DEF now, r
  <2>6. r.sr.f = c.sr.f  BY <2>3, <2>4, <1>1, HandlingType
  <2> QED  BY <1>5, <2>3, <2>5, <2>6 DEF r
<1> QED  BY <1>3, <1>4, <1>5

LEMMA MemoryStep ==
  ASSUME InsnInv, ExecMemory
  PROVE  InsnInv' /\ StatusStep /\ Accessed
<1>1. /\ phase = "execute" /\ phase' = "done" /\ ci.exec \in Loads \cup Stores
      /\ dreq' = Request
      /\ UNCHANGED code /\ UNCHANGED <<mac, acc>> /\ UNCHANGED <<spr, kept>> /\ fp' = fp
  BY DEF ExecMemory, Executes
<1>2. PICK answer \in Answers :
        /\ cpu' = Responded(cpu, answer)
        /\ d' = IF answer = "SUCCESS" /\ ~dreq'.write THEN Loaded(y) ELSE d
  BY DEF ExecMemory
<1>3. /\ setup \in Setups /\ cpu \in Cpus /\ cpu.aesr \subseteq setup.aecr /\ Quiet(cpu)
      /\ y \in Word /\ d \in Word
  BY <1>1, Executing
<1>4. Bytes(ci.exec) \in {1, 2, 4}  BY SMT, <1>1 DEF Bytes, Loads, Stores
<1>5. dreq \in [write : BOOLEAN, excl : BOOLEAN, size : {1, 2, 4}]  BY DEF InsnInv, Beside
<1>6. /\ dreq' = [write |-> ci.exec \in Stores, excl |-> ci.exec \in ExclusiveExecs,
                  size |-> Bytes(ci.exec)]
      /\ dreq' \in [write : BOOLEAN, excl : BOOLEAN, size : {1, 2, 4}]
  <2> DEFINE store == ci.exec \in Stores
             excl  == ci.exec \in ExclusiveExecs
  <2>1. store \in BOOLEAN /\ excl \in BOOLEAN  OBVIOUS
  <2>2. dreq' = [dreq EXCEPT !.write = store, !.size = Bytes(ci.exec), !.excl = excl]
    BY <1>1 DEF Request
  <2> HIDE DEF store, excl
  <2>3. dreq' = [write |-> store, excl |-> excl, size |-> Bytes(ci.exec)]
    BY <2>2, <1>5
  <2>4. dreq' \in [write : BOOLEAN, excl : BOOLEAN, size : {1, 2, 4}]
    BY <2>1, <2>3, <1>4
  <2> QED  BY <2>3, <2>4 DEF store, excl
<1>7. /\ dreq'.write \in BOOLEAN /\ dreq'.excl \in BOOLEAN
      /\ dreq'.write = (ci.exec \in Stores) /\ dreq'.excl = (ci.exec \in ExclusiveExecs)
  BY <1>6
<1>8. /\ cpu' \in Cpus /\ cpu'.aesr = cpu.aesr
      /\ answer \in {"SUCCESS", "FAILED"} =>
           /\ cpu'.epc = None /\ cpu'.sr.sm = cpu.sr.sm
           /\ ~dreq'.excl => cpu'.sr.f = cpu.sr.f
      /\ answer \notin {"SUCCESS", "FAILED"} =>
           cpu'.epc # None /\ cpu'.sr.f = cpu.sr.f /\ SavedExactly(cpu, cpu', Place)
      /\ answer = "FAILED" => dreq'.write
  BY <1>2, <1>3, <1>7, RespondedFields
<1>9. ci.exec # "l.macrc" /\ ci.exec \notin FpArithmetic
  BY <1>1, UnitsApart, UnitsOfExec
<1>10. Beside'  BY <1>1, <1>6 DEF InsnInv, Beside
<1>11. InsnInv'  BY <1>1, <1>3, <1>8, <1>9, <1>10, DonePreserves
<1>12. StatusStep  BY <1>8, <1>9 DEF StatusStep, Faults
<1>13. Accessed
  <2> DEFINE n == 2^BitsOf(ci.exec)
  <2>1. (Faults \/ ci.exec \notin ExclusiveExecs) => cpu'.sr.f = cpu.sr.f
    BY <1>7, <1>8 DEF Faults
  <2>2. (Faults \/ ci.exec \in Stores) => d' = d
    BY <1>2, <1>7, <1>8 DEF Faults
  <2>3. ASSUME ~(Faults \/ ci.exec \in Stores)
        PROVE  /\ d' % n = y % n
               /\ IF ci.exec \in {"l.lhs", "l.lbs"}
                  THEN Signed(d') \in -(n \div 2)..((n \div 2) - 1) ELSE d' < n
    <3>1. ~dreq'.write /\ answer = "SUCCESS"  BY <2>3, <1>7, <1>8 DEF Faults
    <3>2. d' = Loaded(y)  BY <3>1, <1>2
    <3>3. ci.exec \in Loads  BY <2>3, <1>1
    <3> QED  BY <3>2, <3>3, <1>3, LoadedExactly
  <2> QED  BY <1>6, <2>1, <2>2, <2>3 DEF Accessed
<1> QED  BY <1>11, <1>12, <1>13

\* a granted write of the supervisor to a register is kept, another write is none
LEMMA SprKept ==
  ASSUME Kept, NEW sr \in Statuses, NEW r, NEW val, NEW level,
         spr' = SetSpr(spr, sr, r, val, level).spr,
         kept' = IF sr.sm /\ r \in Stored THEN [kept EXCEPT ![r] = val] ELSE kept
  PROVE  Kept'
<1> DEFINE after == SetSpr(spr, sr, r, val, level)
           new == Written(spr, r, val, level)
<1>1. /\ after.spr = spr \/ after.spr = new
      /\ sr.sm /\ r \in Stored => after.spr = new
      /\ ~sr.sm => after.spr = spr
  BY SetSprFields
<1>2. /\ DOMAIN new = Stored
      /\ \A g \in Stored \ Unreadable : new[g] = IF g = r THEN ReadsAs(r, val) ELSE spr[g]
  BY OwnPlace DEF Kept
<1>3. spr' = after.spr  OBVIOUS
<1> HIDE DEF after, new
<1>4. CASE sr.sm /\ r \in Stored
  <2>1. spr' = new  BY <1>1, <1>3, <1>4
  <2>2. kept' = [kept EXCEPT ![r] = val]  BY <1>4
  <2> QED  BY <2>1, <2>2, <1>2, <1>4 DEF Kept
<1>5. CASE ~(sr.sm /\ r \in Stored)
  <2>1. kept' = kept  BY <1>5
  <2>2. spr' = spr \/ (r \notin Stored /\ spr' = new)
    <3>1. CASE sr.sm  BY <3>1, <1>1, <1>3, <1>5
    <3>2. CASE ~sr.sm  BY <3>2, <1>1, <1>3
    <3> QED  BY <3>1, <3>2
  <2> QED  BY <2>1, <2>2, <1>2 DEF Kept
<1> QED  BY <1>4, <1>5

LEMMA MfsprStep ==
  ASSUME InsnInv, ExecMfspr
  PROVE  InsnInv' /\ StatusStep
<1>1. /\ phase = "execute" /\ phase' = "done" /\ ci.exec = "l.mfspr" /\ cpu' = cpu
      /\ UNCHANGED code /\ UNCHANGED <<mac, acc>> /\ UNCHANGED <<spr, kept>>
      /\ UNCHANGED <<dreq, fp>>
  BY DEF ExecMfspr, Executes
<1>2. cpu' \in Cpus /\ cpu'.aesr \subseteq setup.aecr /\ cpu'.epc = None
  BY <1>1, Executing
<1>3. ci.exec # "l.macrc"  BY <1>1
<1>4. InsnInv'  BY <1>1, <1>2, <1>3, DonePreserves
<1> QED  BY <1>1, <1>2, <1>4 DEF StatusStep, Faults

LEMMA MtsprStep ==
  ASSUME InsnInv, ExecMtspr
  PROVE  /\ InsnInv' /\ cpu'.epc = None
         /\ ~cpu.sr.sm => spr' = spr /\ cpu'.sr = cpu.sr
<1> DEFINE after == SetSpr(spr, cpu.sr, reg, x, setup.level)
<1>1. /\ phase = "execute" /\ phase' = "done" /\ ci.exec = "l.mtspr"
      /\ spr' = after.spr /\ cpu' = [cpu EXCEPT !.sr = after.sr]
      /\ kept' = IF cpu.sr.sm /\ reg \in Stored THEN [kept EXCEPT ![reg] = x] ELSE kept
      /\ UNCHANGED code /\ UNCHANGED <<mac, acc>> /\ UNCHANGED <<dreq, fp>>
  BY DEF ExecMtspr, Executes
<1>2. cpu \in Cpus /\ cpu.sr \in Statuses /\ cpu.epc = None /\ cpu.aesr \subseteq setup.aecr
  BY <1>1, Executing
<1>3. after.sr \in Statuses /\ (~cpu.sr.sm => after.spr = spr /\ after.sr = cpu.sr)
  BY <1>2, SetSprFields
<1>4. Kept'  BY <1>1, <1>2, SprKept DEF InsnInv
<1> HIDE DEF after
<1>5. /\ cpu' \in Cpus /\ cpu'.sr = after.sr /\ cpu'.epc = None
      /\ cpu'.aesr \subseteq setup.aecr
  BY <1>1, <1>2, <1>3 DEF Cpus
<1>6. ci.exec # "l.macrc"  BY <1>1
<1>7. InsnInv'  BY <1>1, <1>4, <1>5, <1>6, DonePreserves
<1> QED  BY <1>1, <1>3, <1>5, <1>7

LEMMA RfeStep ==
  ASSUME InsnInv, ExecRfe
  PROVE  /\ InsnInv' /\ cpu'.epc = None
         /\ spr' = spr /\ (~cpu.sr.sm => cpu'.sr = cpu.sr)
<1> DEFINE status == GetSpr(spr, cpu.sr, "ESR")
           after  == SetSpr(spr, cpu.sr, "SR", status, setup.level)
<1>1. /\ phase = "execute" /\ phase' = "done" /\ ci.exec = "l.rfe"
      /\ spr' = after.spr /\ cpu' = [cpu EXCEPT !.sr = after.sr, !.jump = "now"]
      /\ kept' = kept
      /\ UNCHANGED code /\ UNCHANGED <<mac, acc>> /\ UNCHANGED <<dreq, fp>>
  BY DEF ExecRfe, Executes
<1>2. cpu \in Cpus /\ cpu.sr \in Statuses /\ cpu.epc = None /\ cpu.aesr \subseteq setup.aecr
  BY <1>1, Executing
<1>3. /\ after.sr \in Statuses /\ after.spr = spr
      /\ ~cpu.sr.sm => after.sr = cpu.sr
  BY <1>2, SetSprFields
<1> HIDE DEF after
<1>4. /\ cpu' \in Cpus /\ cpu'.sr = after.sr /\ cpu'.epc = None
      /\ cpu'.aesr \subseteq setup.aecr
  BY <1>1, <1>2, <1>3 DEF Cpus
<1>5. ci.exec # "l.macrc" /\ UNCHANGED <<spr, kept>>  BY <1>1, <1>3
<1>6. InsnInv'  BY <1>1, <1>4, <1>5, DonePreserves
<1> QED  BY <1>1, <1>3, <1>4, <1>6
-----------------------------------------------------------------------------
(* Floating point                                                           *)

LEMMA IfSetFields ==
  ASSUME NEW c \in Cpus, NEW flag, NEW flags
  PROVE  LET r == IfSet(flag, flags, c)
         IN  r \in Cpus /\ r.aesr = c.aesr /\ (r.epc = None => r = c)
<1>1. CASE flag \in flags
  <2>1. IfSet(flag, flags, c) = Raise(c, "FP")  BY <1>1 DEF IfSet
  <2> QED  BY <2>1, RaiseFields
<1>2. CASE flag \notin flags
  <2>1. IfSet(flag, flags, c) = c  BY <1>2 DEF IfSet
  <2> QED  BY <2>1
<1> QED  BY <1>1, <1>2

LEMMA FpRaisedFields ==
  ASSUME NEW c \in Cpus, NEW flags
  PROVE  LET r == FpRaised(c, flags)
         IN  r \in Cpus /\ r.aesr = c.aesr /\ (r.epc = None => r = c)
<1> DEFINE c1 == IfSet("ZF", flags, c)
           c2 == IfSet("INF", flags, c1)
           c3 == IfSet("QNF", flags, c2)
           c4 == IfSet("OV", flags, c3)
           c5 == IfSet("UNF", flags, c4)
           c6 == IfSet("DZF", flags, c5)
<1>1. c1 \in Cpus /\ c1.aesr = c.aesr /\ (c1.epc = None => c1 = c)  BY IfSetFields
<1> HIDE DEF c1
<1>2. c2 \in Cpus /\ c2.aesr = c.aesr /\ (c2.epc = None => c2 = c1)  BY <1>1, IfSetFields
<1> HIDE DEF c2
<1>3. c3 \in Cpus /\ c3.aesr = c.aesr /\ (c3.epc = None => c3 = c2)  BY <1>2, IfSetFields
<1> HIDE DEF c3
<1>4. c4 \in Cpus /\ c4.aesr = c.aesr /\ (c4.epc = None => c4 = c3)  BY <1>3, IfSetFields
<1> HIDE DEF c4
<1>5. c5 \in Cpus /\ c5.aesr = c.aesr /\ (c5.epc = None => c5 = c4)  BY <1>4, IfSetFields
<1> HIDE DEF c5
<1>6. c6 \in Cpus /\ c6.aesr = c.aesr /\ (c6.epc = None => c6 = c5)  BY <1>5, IfSetFields
<1>7. FpRaised(c, flags) = c6  BY DEF FpRaised, c1, c2, c3, c4, c5
<1> HIDE DEF c6
<1>8. c6.epc = None => c6 = c
  <2> SUFFICES ASSUME c6.epc = None  PROVE c6 = c  OBVIOUS
  <2>1. c5.epc = None /\ c6 = c5  BY <1>6
  <2>2. c4.epc = None /\ c5 = c4  BY <2>1, <1>5
  <2>3. c3.epc = None /\ c4 = c3  BY <2>2, <1>4
  <2>4. c2.epc = None /\ c3 = c2  BY <2>3, <1>3
  <2>5. c1.epc = None /\ c2 = c1  BY <2>4, <1>2
  <2> QED  BY <2>1, <2>2, <2>3, <2>4, <2>5, <1>1
<1> QED  BY <1>6, <1>7, <1>8

\* a single flag is a single exception
LEMMA FpRaisedOnce ==
  ASSUME NEW c, NEW g \in FpFlagNames
  PROVE  FpRaised(c, {g}) = Raise(c, "FP")
BY SMT DEF FpRaised, IfSet, FpFlagNames

LEMMA FpFlagsType ==
  ASSUME NEW out \in FpOutcomes
  PROVE  out.raised \subseteq FpFlagNames /\ KindFlag(out.kind) \subseteq FpFlagNames
<1>1. out.raised \subseteq FpFlagNames /\ out.kind \in {"finite", "zero", "inf", "nan"}
  BY SMT DEF FpOutcomes, Outcome, FpFlagNames
<1>2. \A kind \in {"finite", "zero", "inf", "nan"} : KindFlag(kind) \subseteq FpFlagNames
  BY SMT DEF KindFlag, FpFlagNames
<1> QED  BY <1>1, <1>2

LEMMA FpFlagNamesFinite == IsFiniteSet(FpFlagNames)
<1>1. FpFlagNames = {"ZF"} \cup {"INF"} \cup {"QNF"} \cup {"OV"} \cup {"UNF"} \cup {"DZF"}
  BY DEF FpFlagNames
<1>2. \A g : IsFiniteSet({g})  BY FS_Singleton
<1> QED  BY <1>1, <1>2, FS_Union

\* what an operation leaves in FPCSR: FpFlagsTell is about this
Told ==
  /\ fp'.raised \subseteq fp'.flags
  /\ fp'.flags \subseteq fp'.raised \cup fp.host

LEMMA FpStep ==
  ASSUME InsnInv, ExecFp
  PROVE  InsnInv' /\ StatusStep /\ Told
<1>1. /\ phase = "execute" /\ phase' = "done" /\ ci.exec \in FpArithmetic
      /\ UNCHANGED code /\ UNCHANGED <<mac, acc>> /\ UNCHANGED <<spr, kept>> /\ dreq' = dreq
  BY DEF ExecFp, Executes
<1>2. PICK out \in FpOutcomes :
        LET host  == fp.host \cup out.raised
            flags == FpFlags(out, host)
        IN  /\ fp' = [flags |-> flags, host |-> host,
                      raised |-> KindFlag(out.kind) \cup out.raised]
            /\ cpu' = IF setup.fpee THEN FpRaised(cpu, flags) ELSE cpu
  BY DEF ExecFp
<1>3. /\ setup \in Setups /\ cpu \in Cpus /\ cpu.aesr \subseteq setup.aecr /\ Quiet(cpu)
      /\ cpu.epc = None
  BY <1>1, Executing
<1>4. /\ fp'.host = fp.host \cup out.raised
      /\ fp'.flags = KindFlag(out.kind) \cup (fp.host \cup out.raised)
      /\ fp'.raised = KindFlag(out.kind) \cup out.raised
      /\ DOMAIN fp' = {"flags", "host", "raised"}
      /\ cpu' = IF setup.fpee THEN FpRaised(cpu, fp'.flags) ELSE cpu
  BY <1>2 DEF FpFlags
<1>5. fp.host \subseteq FpFlagNames  BY DEF InsnInv, Beside
<1>6. out.raised \subseteq FpFlagNames /\ KindFlag(out.kind) \subseteq FpFlagNames
  BY FpFlagsType
<1>7. fp' \in [flags : SUBSET FpFlagNames, host : SUBSET FpFlagNames,
               raised : SUBSET FpFlagNames]
  BY <1>2, <1>5, <1>6 DEF FpFlags
<1>8. Beside'  BY <1>1, <1>7 DEF InsnInv, Beside
<1>9. cpu' \in Cpus /\ cpu'.aesr = cpu.aesr /\ (cpu'.epc = None => cpu' = cpu)
  BY <1>3, <1>4, FpRaisedFields
<1>10. ci.exec # "l.macrc"  BY <1>1, UnitsApart, UnitsOfExec
<1>11. InsnInv'  BY <1>1, <1>3, <1>8, <1>9, <1>10, DonePreserves
<1>12. ASSUME Faults, RaisedOnce
       PROVE  SavedExactly(cpu, cpu', "next")
  <2>1. cpu' = FpRaised(cpu, fp'.flags)  BY <1>12, <1>3, <1>4 DEF Faults
  <2>2. ci.exec \notin {"l.addc", "l.sub"}
    <3>1. {"l.addc", "l.sub"} \subseteq IntegerExecs  BY DEF IntegerExecs
    <3> QED  BY <3>1, <1>1, UnitsApart
  <2>3. Cardinality(fp'.flags) = 1  BY <1>1, <1>12, <2>2 DEF RaisedOnce
  <2>4. fp'.flags \subseteq FpFlagNames  BY <1>7
  <2>5. IsFiniteSet(fp'.flags)  BY <2>4, FpFlagNamesFinite, FS_Subset
  <2>6. PICK g : fp'.flags = {g}  BY <2>3, <2>5, FS_Singleton
  <2>7. g \in FpFlagNames  BY <2>4, <2>6
  <2>8. cpu' = Raise(cpu, "FP")  BY <2>1, <2>6, <2>7, FpRaisedOnce
  <2> QED  BY <2>8, <1>3, RaisedSaves
<1>13. StatusStep  BY <1>1, <1>9, <1>12 DEF StatusStep
<1>14. Told  BY <1>4 DEF Told
<1> QED  BY <1>11, <1>13, <1>14

LEMMA FpOtherStep ==
  ASSUME InsnInv, ExecFpOther
  PROVE  InsnInv' /\ StatusStep
<1>1. /\ phase = "execute" /\ phase' = "done" /\ ci.exec \in FpOthers
      /\ UNCHANGED code /\ UNCHANGED <<mac, acc>> /\ UNCHANGED <<spr, kept>>
      /\ UNCHANGED <<dreq, fp>>
  BY DEF ExecFpOther, Executes, FpOthers
<1>2. PICK flag \in BOOLEAN :
        cpu' = IF ci.exec \in FpCompareOps THEN [cpu EXCEPT !.sr.f = flag] ELSE cpu
  BY DEF ExecFpOther
<1>3. cpu \in Cpus /\ cpu.aesr \subseteq setup.aecr /\ cpu.epc = None /\ cpu.sr \in Statuses
  BY <1>1, Executing
<1>4. cpu' = cpu \/ cpu' = [cpu EXCEPT !.sr.f = flag]  BY <1>2
<1>5. cpu' \in Cpus /\ cpu'.aesr = cpu.aesr /\ cpu'.epc = None /\ cpu'.sr.sm = cpu.sr.sm
  BY <1>3, <1>4 DEF Cpus, Statuses
<1>6. ci.exec # "l.macrc"  BY <1>1, UnitsApart, UnitsOfExec DEF FpOthers
<1>7. InsnInv'  BY <1>1, <1>3, <1>5, <1>6, DonePreserves
<1> QED  BY <1>5, <1>7 DEF StatusStep, Faults
-----------------------------------------------------------------------------
(* The invariant holds, and what every execution does                       *)

LEMMA ExecuteStep ==
  ASSUME InsnInv, Execute
  PROVE  /\ InsnInv'
         /\ Faults /\ RaisedOnce =>
              SavedExactly(cpu, cpu', IF ci.exec \in FpArithmetic THEN "next" ELSE Place)
         /\ ~cpu.sr.sm => spr' = spr /\ (cpu'.sr.sm => Faults)
<1>1. CASE ExecInteger
  BY <1>1, IntegerStep DEF StatusStep, Faults, ExecInteger
<1>2. CASE ExecMac
  BY <1>2, MacStep DEF StatusStep, Faults, ExecMac
<1>3. CASE ExecMemory
  BY <1>3, MemoryStep DEF StatusStep, Faults, ExecMemory
<1>4. CASE ExecMfspr
  BY <1>4, MfsprStep DEF StatusStep, Faults, ExecMfspr
<1>5. CASE ExecMtspr
  BY <1>5, MtsprStep DEF Faults
<1>6. CASE ExecRfe
  BY <1>6, RfeStep DEF Faults
<1>7. CASE ExecFp
  BY <1>7, FpStep DEF StatusStep, Faults, ExecFp
<1>8. CASE ExecFpOther
  BY <1>8, FpOtherStep DEF StatusStep, Faults, ExecFpOther
<1> QED  BY <1>1, <1>2, <1>3, <1>4, <1>5, <1>6, <1>7, <1>8 DEF Execute

LEMMA NextInv ==
  ASSUME InsnInv, [Next]_vars
  PROVE  InsnInv'
<1>1. ASSUME NEW w \in Words(setup.unit), CompileIllegal(w)  PROVE InsnInv'
  BY <1>1, CompileIllegalInv
<1>2. ASSUME NEW w \in Words(setup.unit), CompileCustom(w)  PROVE InsnInv'
  BY <1>2, CompileCustomInv
<1>3. ASSUME NEW w \in Words(setup.unit), Compile(w)  PROVE InsnInv'
  BY <1>3, CompileInv
<1>4. CASE Execute  BY <1>4, ExecuteStep
<1>5. CASE Killed  BY <1>5, KilledInv
<1>6. CASE Retire  BY <1>6, RetireInv
<1>7. CASE UNCHANGED vars
  <2> USE <1>7 DEF vars, code
  <2>1. Compiles'  BY DEF InsnInv, Compiles
  <2>2. Ready'  BY DEF InsnInv, Ready, Quiet
  <2>3. Accumulated'  BY DEF InsnInv, Accumulated, MacIsSum
  <2>4. Kept'  BY DEF InsnInv, Kept
  <2>5. Beside'  BY DEF InsnInv, Beside
  <2> QED  BY <2>1, <2>2, <2>3, <2>4, <2>5 DEF InsnInv
<1> QED  BY <1>1, <1>2, <1>3, <1>4, <1>5, <1>6, <1>7 DEF Next

\* In every reachable state of every program the compiled instruction is that
\* of its word, no exception is pending where a step begins, the accumulator
\* holds the sum of its products, and each register that can be read back holds
\* what was written to it (decode.cpp:423-1555, execute.cpp, spr.cpp:160-458).
THEOREM SpecInvariant == Spec => []InsnInv
<1>1. Init => InsnInv  BY InitInv
<1>2. InsnInv /\ [Next]_vars => InsnInv'  BY NextInv
<1> QED  BY <1>1, <1>2, PTL DEF Spec

\* only an action that executes takes a step from "execute" to "done"
LEMMA WhichStep ==
  ASSUME Next, phase = "execute", phase' = "done"
  PROVE  Execute
BY DEF Next, CompileIllegal, CompileCustom, Compile, Killed, Retire

\* the function that was compiled chooses the action
LEMMA WhichAction ==
  ASSUME Execute
  PROVE  /\ ci.exec \in Loads \cup Stores => ExecMemory
         /\ ci.exec = "l.mfspr" => ExecMfspr
         /\ ci.exec \in FpArithmetic => ExecFp
         /\ ci.exec \in IntegerExecs => ExecInteger
<1>1. ASSUME ExecInteger  PROVE ci.exec \in IntegerExecs  BY <1>1 DEF ExecInteger, Executes
<1>2. ASSUME ExecMac  PROVE ci.exec \in MacExecs  BY <1>2 DEF ExecMac, Executes, MacExecs
<1>3. ASSUME ExecMemory  PROVE ci.exec \in Loads \cup Stores
  BY <1>3 DEF ExecMemory, Executes
<1>4. ASSUME ExecMfspr  PROVE ci.exec = "l.mfspr"  BY <1>4 DEF ExecMfspr, Executes
<1>5. ASSUME ExecMtspr  PROVE ci.exec = "l.mtspr"  BY <1>5 DEF ExecMtspr, Executes
<1>6. ASSUME ExecRfe  PROVE ci.exec = "l.rfe"  BY <1>6 DEF ExecRfe, Executes
<1>7. ASSUME ExecFp  PROVE ci.exec \in FpArithmetic  BY <1>7 DEF ExecFp, Executes
<1>8. ASSUME ExecFpOther  PROVE ci.exec \in FpOthers
  BY <1>8 DEF ExecFpOther, Executes, FpOthers
<1>9. ExecInteger \/ ExecMac \/ ExecMemory \/ ExecMfspr \/ ExecMtspr \/ ExecRfe \/ ExecFp
      \/ ExecFpOther
  BY DEF Execute
<1>10. ci.exec \in Loads \cup Stores => ExecMemory
  BY <1>1, <1>2, <1>4, <1>5, <1>6, <1>7, <1>8, <1>9, UnitsApart
<1>11. ci.exec = "l.mfspr" => ExecMfspr
  BY <1>1, <1>2, <1>3, <1>5, <1>6, <1>7, <1>8, <1>9, UnitsApart
<1>12. ci.exec \in FpArithmetic => ExecFp
  BY <1>1, <1>2, <1>3, <1>4, <1>5, <1>6, <1>8, <1>9, UnitsApart
<1>13. ci.exec \in IntegerExecs => ExecInteger
  BY <1>2, <1>3, <1>4, <1>5, <1>6, <1>7, <1>8, <1>9, UnitsApart
<1> QED  BY <1>10, <1>11, <1>12, <1>13
-----------------------------------------------------------------------------
(* What the decoder leaves                                                  *)

\* For every word, and not only for those a run tries: the function that the
\* decoder chose finds none of its pointers null, and each points into gpr, but
\* for l.macrc (decode.cpp:423-1555, execute.cpp).
THEOREM OperandsUsableHolds == Spec => []OperandsUsable
<1>1. ASSUME InsnInv  PROVE OperandsUsable
  <2> SUFFICES ASSUME ci # Nothing
               PROVE  /\ Null \notin Dereferenced(ci.exec)
                      /\ ci.exec # "l.macrc" =>
                           \A o \in {ci.dest, ci.src1, ci.src2} : IsReg(o) => o.n < 32
    BY DEF OperandsUsable
  <2>1. word \in InsnWords /\ DecodeWord(word) \in Instructions /\ ci = Compiled(word)
    BY <1>1 DEF InsnInv, Compiles
  <2>2. Usable(ci)  BY <2>1, UsableWord
  <2>3. Null \notin Dereferenced(ci.exec)  BY <2>2, UsableDereferenced
  <2>4. ASSUME NEW o, Operand(o), IsReg(o)  PROVE o.n < 32
    <3>1. Null.kind # "reg" /\ Imm.kind # "reg"  BY DEF Null, Imm
    <3>2. PICK n \in 0..31 : o = Reg(n)  BY <3>1, <2>4 DEF Operand, IsReg
    <3>3. o.n = n  BY <3>2 DEF Reg
    <3> QED  BY <3>3
  <2>5. ci.exec # "l.macrc" => Operand(ci.dest) /\ Operand(ci.src1) /\ Operand(ci.src2)
    BY <2>2 DEF Usable
  <2> QED  BY <2>3, <2>4, <2>5
<1> QED  BY <1>1, SpecInvariant, PTL
-----------------------------------------------------------------------------
(* What the functions do                                                    *)

\* The two words of the accumulator hold the sum of all the products since it
\* was last set or read, modulo what they can hold, for every mix of signed and
\* unsigned instructions (execute.cpp:591-634, 773-859).
THEOREM MacIsSumHolds == Spec => []MacIsSum
<1>1. InsnInv => MacIsSum  BY DEF InsnInv, Accumulated
<1> QED  BY <1>1, SpecInvariant, PTL

\* An exception of any instruction that raises one saves the status that the
\* instruction left, and where it is (execute.cpp:397-423, or1k.cpp:388-398).
THEOREM SavedStateExactHolds == Spec => SavedStateExact
<1> DEFINE A == (phase = "execute" /\ phase' = "done" /\ Faults /\ RaisedOnce) =>
       /\ cpu'.esr = [cpu.sr EXCEPT !.f = cpu'.sr.f, !.cy = cpu'.sr.cy, !.ov = cpu'.sr.ov]
       /\ cpu'.epc = CASE ci.exec \in FpArithmetic -> "next"
                       [] ci.exec \notin FpArithmetic /\ setup.slot -> "prev"
                       [] OTHER -> "here"
       /\ cpu'.sr.dsx = (setup.slot \/ cpu.sr.dsx)
<1>1. ASSUME InsnInv, Next  PROVE A
  <2> SUFFICES ASSUME phase = "execute", phase' = "done", Faults, RaisedOnce  PROVE A
    OBVIOUS
  <2>1. Execute  BY <1>1, WhichStep
  <2>2. SavedExactly(cpu, cpu', IF ci.exec \in FpArithmetic THEN "next" ELSE Place)
    BY <1>1, <2>1, ExecuteStep
  <2>3. (IF ci.exec \in FpArithmetic THEN "next" ELSE Place)
          = CASE ci.exec \in FpArithmetic -> "next"
              [] ci.exec \notin FpArithmetic /\ setup.slot -> "prev"
              [] OTHER -> "here"
    BY DEF Place
  <2> QED  BY <2>2, <2>3 DEF SavedExactly
<1>2. InsnInv /\ [Next]_vars => [A]_vars  BY <1>1
<1> QED  BY <1>2, SpecInvariant, PTL DEF Spec, SavedStateExact

\* Whatever accesses came before, a load or store asks for what it needs, a
\* load delivers it, extended, and one that faults can be repeated
\* (execute.cpp:168-310, or1k.cpp:204-222).
THEOREM AccessExactHolds == Spec => AccessExact
<1> DEFINE A == Stepped(Loads \cup Stores) =>
       LET n == 2^BitsOf(ci.exec)
       IN  /\ dreq' = [write |-> ci.exec \in Stores, excl |-> ci.exec \in ExclusiveExecs,
                       size |-> Bytes(ci.exec)]
           /\ (Faults \/ ci.exec \notin ExclusiveExecs) => cpu'.sr.f = cpu.sr.f
           /\ (Faults \/ ci.exec \in Stores) => d' = d
           /\ ~(Faults \/ ci.exec \in Stores) =>
                /\ d' % n = y % n
                /\ IF ci.exec \in {"l.lhs", "l.lbs"}
                   THEN Signed(d') \in -(n \div 2)..((n \div 2) - 1) ELSE d' < n
<1>1. ASSUME InsnInv, Next  PROVE A
  <2> SUFFICES ASSUME Stepped(Loads \cup Stores)  PROVE Accessed
    BY DEF Accessed
  <2>1. phase = "execute" /\ phase' = "done" /\ ci.exec \in Loads \cup Stores  BY DEF Stepped
  <2>2. ExecMemory  BY <1>1, <2>1, WhichStep, WhichAction
  <2> QED  BY <1>1, <2>2, MemoryStep
<1>2. InsnInv /\ [Next]_vars => [A]_vars  BY <1>1
<1> QED  BY <1>2, SpecInvariant, PTL DEF Spec, AccessExact

\* No instruction of a user program writes a special purpose register, and only
\* an exception leads to supervisor mode (spr.cpp:291-297, execute.cpp:883-891).
THEOREM UserConfinedHolds == Spec => UserConfined
<1> DEFINE A == (phase = "execute" /\ ~cpu.sr.sm) => spr' = spr /\ (cpu'.sr.sm => Faults)
<1>1. ASSUME InsnInv, Next  PROVE A
  <2> SUFFICES ASSUME phase = "execute", ~cpu.sr.sm
               PROVE  spr' = spr /\ (cpu'.sr.sm => Faults)
    OBVIOUS
  <2>1. CASE Execute  BY <1>1, <2>1, ExecuteStep
  <2>2. CASE Killed  BY <2>2 DEF Killed
  <2> QED
    BY <1>1, <2>1, <2>2 DEF Next, CompileIllegal, CompileCustom, Compile, Retire
<1>2. InsnInv /\ [Next]_vars => [A]_vars  BY <1>1
<1> QED  BY <1>2, SpecInvariant, PTL DEF Spec, UserConfined

\* What supervisor code wrote to a register is what l.mfspr reads, whatever was
\* written elsewhere in between, but for a flush request (spr.cpp:160-458,
\* mmu.cpp:73-78).
THEOREM RegistersKeepHolds == Spec => RegistersKeep
<1> DEFINE A == Stepped({"l.mfspr"}) /\ reg \in Stored \ Unreadable =>
                  d' = IF cpu.sr.sm \/ cpu.sr.sumra THEN ReadsAs(reg, kept[reg]) ELSE 0
<1>1. ASSUME InsnInv, Next  PROVE A
  <2> SUFFICES ASSUME Stepped({"l.mfspr"}), reg \in Stored \ Unreadable  PROVE A
    OBVIOUS
  <2>1. phase = "execute" /\ phase' = "done" /\ ci.exec = "l.mfspr"  BY DEF Stepped
  <2>2. ExecMfspr  BY <1>1, <2>1, WhichStep, WhichAction
  <2>3. d' = GetSpr(spr, cpu.sr, reg)  BY <2>2 DEF ExecMfspr
  <2>4. GetSpr(spr, cpu.sr, reg) = IF cpu.sr.sm \/ cpu.sr.sumra THEN spr[reg] ELSE 0
    BY ReadBack
  <2>5. spr[reg] = ReadsAs(reg, kept[reg])  BY <1>1 DEF InsnInv, Kept
  <2> QED  BY <2>3, <2>4, <2>5
<1>2. InsnInv /\ [Next]_vars => [A]_vars  BY <1>1
<1> QED  BY <1>2, SpecInvariant, PTL DEF Spec, RegistersKeep

\* After an operation FPCSR shows what it raised, and nothing else that the
\* host was not told of before (or1k.h:774-866).
THEOREM FpFlagsTellHolds == Spec => FpFlagsTell
<1> DEFINE A == Stepped(FpArithmetic) =>
                  /\ fp'.raised \subseteq fp'.flags
                  /\ fp'.flags \subseteq fp'.raised \cup fp.host
<1>1. ASSUME InsnInv, Next  PROVE A
  <2> SUFFICES ASSUME Stepped(FpArithmetic)  PROVE Told  BY DEF Told
  <2>1. phase = "execute" /\ phase' = "done" /\ ci.exec \in FpArithmetic  BY DEF Stepped
  <2>2. ExecFp  BY <1>1, <2>1, WhichStep, WhichAction
  <2> QED  BY <1>1, <2>2, FpStep
<1>2. InsnInv /\ [Next]_vars => [A]_vars  BY <1>1
<1> QED  BY <1>2, SpecInvariant, PTL DEF Spec, FpFlagsTell
-----------------------------------------------------------------------------
(* The meaning of the integer instructions                                  *)

Tells(e, g) == \/ e.first.hit /\ e.first.flag = g
               \/ e.second.hit /\ e.second.flag = g

LEMMA CheckedFlags ==
  ASSUME setup \in Setups, NEW c \in Cpus, NEW check, IsCheck(check), NEW g \in Flags
  PROVE  Checked(c, check).sr[g] <=> (c.sr[g] \/ (check.hit /\ check.flag = g))
<1> DEFINE s == [c.sr EXCEPT ![check.flag] = TRUE]
           r == Checked(c, check)
<1>1. /\ s \in Statuses
      /\ ~check.hit => r = c
      /\ check.hit /\ ~Hits(c, check) => r.sr = s
      /\ Hits(c, check) => r.sr = Handling(s, c.jump = "now")
  BY CheckedFields
<1>2. c.sr \in Statuses /\ check.flag \in Flags  BY DEF Cpus, IsCheck
<1>3. s[check.flag] = TRUE /\ \A h \in Flags \ {check.flag} : s[h] = c.sr[h]
  BY <1>2, FlagSet
<1> DEFINE now == (c.jump = "now")
<1>4. now \in BOOLEAN  OBVIOUS
<1> HIDE DEF s, r, now
<1>5. Hits(c, check) => r.sr[g] = s[g]
  <2>1. Handling(s, now)[g] = s[g]
    <3>1. /\ Handling(s, now).f = s.f /\ Handling(s, now).cy = s.cy
          /\ Handling(s, now).ov = s.ov
      BY <1>1, <1>4, HandlingType
    <3> QED  BY <3>1 DEF Flags
  <2> QED  BY <2>1, <1>1 DEF now
<1>6. s[g] <=> (c.sr[g] \/ check.flag = g)
  <2>1. CASE g = check.flag  BY <2>1, <1>3
  <2>2. CASE g # check.flag  BY <2>2, <1>3
  <2> QED  BY <2>1, <2>2
<1>7. CASE ~check.hit  BY <1>7, <1>1 DEF r
<1>8. CASE check.hit /\ ~Hits(c, check)  BY <1>8, <1>1, <1>6 DEF r
<1>9. CASE Hits(c, check)
  <2>1. check.hit  BY <1>9 DEF Hits
  <2> QED  BY <2>1, <1>5, <1>6, <1>9 DEF r
<1> QED  BY <1>7, <1>8, <1>9

\* a flag is set when a check that sets it hits, or when it was and stays
LEMMA EffectsFlags ==
  ASSUME setup \in Setups, NEW c \in Cpus, NEW e, IsEffect(e), NEW g \in Flags
  PROVE  Effects(c, e).sr[g] <=> ((c.sr[g] /\ g \notin e.clear) \/ Tells(e, g))
<1> DEFINE c1 == Cleared(c, e.clear)
           c2 == Checked(c1, e.first)
<1>1. c1 \in Cpus  BY ClearedFields
<1>2. c1.sr[g] <=> (c.sr[g] /\ g \notin e.clear)
  <2>1. c.sr \in Statuses  BY DEF Cpus
  <2> DEFINE s == [c.sr EXCEPT !.f = @ /\ "f" \notin e.clear, !.cy = @ /\ "cy" \notin e.clear,
                               !.ov = @ /\ "ov" \notin e.clear]
  <2>2. c1 = [c EXCEPT !.sr = s]  BY <2>1 DEF Cleared, Cpus, Statuses
  <2>3. /\ s.f = (c.sr.f /\ "f" \notin e.clear)
        /\ s.cy = (c.sr.cy /\ "cy" \notin e.clear)
        /\ s.ov = (c.sr.ov /\ "ov" \notin e.clear)
    BY <2>1 DEF Statuses
  <2> HIDE DEF s, c1
  <2>4. c1.sr = s  BY <2>2 DEF Cpus
  <2>5. CASE g = "f"  BY <2>3, <2>4, <2>5
  <2>6. CASE g = "cy"  BY <2>3, <2>4, <2>6
  <2>7. CASE g = "ov"  BY <2>3, <2>4, <2>7
  <2> QED  BY <2>5, <2>6, <2>7 DEF Flags
<1>3. IsCheck(e.first) /\ IsCheck(e.second)  BY DEF IsEffect
<1> HIDE DEF c1
<1>4. c2 \in Cpus  BY <1>1, <1>3, CheckedFields
<1>5. c2.sr[g] <=> (c1.sr[g] \/ (e.first.hit /\ e.first.flag = g))
  BY <1>1, <1>3, CheckedFlags
<1> HIDE DEF c2
<1>6. Checked(c2, e.second).sr[g] <=> (c2.sr[g] \/ (e.second.hit /\ e.second.flag = g))
  BY <1>3, <1>4, CheckedFlags
<1>7. Effects(c, e) = Checked(c2, e.second)  BY DEF Effects, c1, c2
<1> QED  BY <1>2, <1>5, <1>6, <1>7 DEF Tells

LEMMA IntegerDoes ==
  ASSUME InsnInv, ExecInteger
  PROVE  LET e == Integer(ci.exec, x, y, cpu.sr)
         IN  /\ x \in Word /\ y \in Word /\ d \in Word /\ ~HostTraps
             /\ cpu.sr \in Statuses /\ cpu'.sr \in Statuses
             /\ d' = IF e.d = NoResult THEN d ELSE e.d
             /\ cpu'.sr.f <=> ((cpu.sr.f /\ "f" \notin e.clear) \/ Tells(e, "f"))
             /\ cpu'.sr.cy <=> ((cpu.sr.cy /\ "cy" \notin e.clear) \/ Tells(e, "cy"))
             /\ cpu'.sr.ov <=> ((cpu.sr.ov /\ "ov" \notin e.clear) \/ Tells(e, "ov"))
<1> DEFINE e == Integer(ci.exec, x, y, cpu.sr)
<1>1. /\ phase = "execute" /\ phase' = "done" /\ ci.exec \in IntegerExecs /\ ~HostTraps
      /\ d' = IF e.d = NoResult THEN d ELSE e.d
      /\ cpu' = Effects(cpu, e)
  BY DEF ExecInteger, Executes
<1>2. /\ setup \in Setups /\ cpu \in Cpus /\ x \in Word /\ y \in Word /\ d \in Word
      /\ cpu.sr \in Statuses
  BY <1>1, Executing
<1>3. IsEffect(e)  BY <1>1, <1>2, IntegerEffect
<1>4. cpu' \in Cpus  BY IntegerStep DEF InsnInv
<1>5. cpu'.sr \in Statuses  BY <1>4 DEF Cpus
<1> HIDE DEF e
<1>6. \A g \in Flags : cpu'.sr[g] <=> ((cpu.sr[g] /\ g \notin e.clear) \/ Tells(e, g))
  BY <1>1, <1>2, <1>3, EffectsFlags
<1>7. {"f", "cy", "ov"} = Flags  BY DEF Flags
<1> QED  BY <1>1, <1>2, <1>5, <1>6, <1>7 DEF e

\* nothing is told by an instruction that only writes a register
LEMMA PlainIs ==
  ASSUME NEW v
  PROVE  Plain(v).d = v /\ Plain(v).clear = {} /\ \A g : ~Tells(Plain(v), g)
BY NoCheckIs DEF Plain, Does, Tells

LEMMA WordIsResult ==
  ASSUME NEW v \in Word
  PROVE  v # NoResult
BY SizeType DEF Word, NoResult

LEMMA SumsMean ==
  ASSUME InsnInv, ExecInteger, ci.exec \in {"l.add", "l.addc"}
  PROVE  IntegerMeaning
<1> DEFINE e == Integer(ci.exec, x, y, cpu.sr)
<1>1. /\ x \in Word /\ y \in Word /\ cpu.sr \in Statuses /\ cpu'.sr \in Statuses
      /\ d' = IF e.d = NoResult THEN d ELSE e.d
      /\ cpu'.sr.cy <=> ((cpu.sr.cy /\ "cy" \notin e.clear) \/ Tells(e, "cy"))
      /\ cpu'.sr.ov <=> ((cpu.sr.ov /\ "ov" \notin e.clear) \/ Tells(e, "ov"))
  BY IntegerDoes
<1>2. PICK c \in {0, 1} : c = IF ci.exec = "l.addc" /\ cpu.sr.cy THEN 1 ELSE 0  OBVIOUS
<1> DEFINE r == Unsigned(x + y + c)
<1>3. x + y + c \in Int /\ x \in Nat /\ y \in Nat  BY <1>1, SizeType DEF Word
<1>4. r \in Word /\ Same(r, x + y + c)  BY <1>3, Reduced
<1>5. /\ (r < x) = (x + y + c >= Size /\ ~(y = Size - 1 /\ c = 1))
      /\ (SameSigns(x, y) /\ ~SameSigns(x, r)) = ~InRange(Signed(x) + Signed(y) + c)
  BY <1>1, SumFlags
<1>6. /\ e.d = r /\ e.clear = {"cy", "ov"}
      /\ e.first.hit = (r < x) /\ e.first.flag = "cy"
      /\ e.second.hit = (SameSigns(x, y) /\ ~SameSigns(x, r)) /\ e.second.flag = "ov"
  <2>1. CASE ci.exec = "l.add"
    <3>1. e = Add(x, y)
      BY SMT, <2>1, CompareSets DEF Integer, LogicExecs, UnaryExecs
    <3>2. c = 0 /\ x + y = x + y + c  BY <1>2, <1>3, <2>1
    <3> HIDE DEF e
    <3> QED  BY <3>1, <3>2 DEF Add, Does, Check
  <2>2. CASE ci.exec = "l.addc"
    <3>1. e = Addc(x, y, cpu.sr.cy)
      BY SMT, <2>2, CompareSets DEF Integer, LogicExecs, UnaryExecs
    <3>2. c = IF cpu.sr.cy THEN 1 ELSE 0  BY <1>2, <2>2
    <3> HIDE DEF e
    <3> QED  BY <3>1, <3>2 DEF Addc, Does, Check
  <2> QED  BY <2>1, <2>2
<1> HIDE DEF e, r
<1>7. d' = r  BY <1>1, <1>4, <1>6, WordIsResult
<1>8. cpu'.sr.cy <=> (x + y + c >= Size /\ ~(y = Size - 1 /\ c = 1))
  BY <1>1, <1>5, <1>6 DEF Tells
<1>9. cpu'.sr.ov <=> ~InRange(Signed(x) + Signed(y) + c)
  BY <1>1, <1>5, <1>6 DEF Tells
<1>10. cpu'.sr.cy \in BOOLEAN /\ cpu'.sr.ov \in BOOLEAN  BY <1>1 DEF Statuses
<1>11. PICK sx \in Int : sx = Signed(x)  BY <1>1, SignedType
<1>12. PICK sy \in Int : sy = Signed(y)  BY <1>1, SignedType
<1>13. CASE ci.exec = "l.add"
  <2>1. c = 0  BY <1>2, <1>13
  <2>2. x + y + c = x + y /\ sx + sy + c = sx + sy  BY <2>1, <1>3
  <2>3. /\ Same(d', x + y)
        /\ cpu'.sr.cy = (x + y >= Size)
        /\ cpu'.sr.ov = ~InRange(Signed(x) + Signed(y))
    BY <2>1, <2>2, <1>4, <1>7, <1>8, <1>9, <1>10, <1>11, <1>12
  <2> QED  BY <2>3, <1>13 DEF IntegerMeaning
<1>14. CASE ci.exec = "l.addc"
  <2>1. c = IF cpu.sr.cy THEN 1 ELSE 0  BY <1>2, <1>14
  <2>2. CarryMissed \/ ~(y = Size - 1 /\ c = 1)  BY <2>1, <1>14 DEF CarryMissed
  <2>3. /\ Same(d', x + y + c)
        /\ CarryMissed \/ cpu'.sr.cy = (x + y + c >= Size)
        /\ cpu'.sr.ov = ~InRange(Signed(x) + Signed(y) + c)
    BY <2>2, <1>4, <1>7, <1>8, <1>9, <1>10
  <2> QED  BY <2>1, <2>3, <1>14 DEF IntegerMeaning
<1> QED  BY <1>13, <1>14

LEMMA DifferenceMeans ==
  ASSUME InsnInv, ExecInteger, ci.exec = "l.sub"
  PROVE  IntegerMeaning
<1> DEFINE e == Integer(ci.exec, x, y, cpu.sr)
           r == Unsigned(x - y)
<1>1. /\ x \in Word /\ y \in Word /\ cpu'.sr \in Statuses
      /\ d' = IF e.d = NoResult THEN d ELSE e.d
      /\ cpu'.sr.cy <=> ((cpu.sr.cy /\ "cy" \notin e.clear) \/ Tells(e, "cy"))
      /\ cpu'.sr.ov <=> ((cpu.sr.ov /\ "ov" \notin e.clear) \/ Tells(e, "ov"))
  BY IntegerDoes
<1>2. x - y \in Int /\ x \in Nat /\ y \in Nat  BY <1>1, SizeType DEF Word
<1>3. r \in Word /\ Same(r, x - y)  BY <1>2, Reduced
<1>4. (~SameSigns(x, y) /\ SameSigns(y, r)) = ~InRange(Signed(x) - Signed(y))
  BY <1>1, DifferenceFlags
<1>5. e = Sub(x, y)
  BY SMT, CompareSets DEF Integer, LogicExecs, UnaryExecs
<1> HIDE DEF e
<1>6. /\ e.d = r /\ e.clear = {"cy", "ov"}
      /\ e.first.hit = (y > x) /\ e.first.flag = "cy"
      /\ e.second.hit = (~SameSigns(x, y) /\ SameSigns(y, r)) /\ e.second.flag = "ov"
  BY <1>5 DEF Sub, Does, Check
<1> HIDE DEF r
<1>7. d' = r  BY <1>1, <1>3, <1>6, WordIsResult
<1>8. cpu'.sr.cy <=> y > x  BY <1>1, <1>6 DEF Tells
<1>9. cpu'.sr.ov <=> ~InRange(Signed(x) - Signed(y))  BY <1>1, <1>4, <1>6 DEF Tells
<1>10. cpu'.sr.cy \in BOOLEAN /\ cpu'.sr.ov \in BOOLEAN  BY <1>1 DEF Statuses
<1>11. (y > x) <=> (x < y)  BY <1>2
<1>12. /\ Same(d', x - y) /\ cpu'.sr.cy = (x < y)
       /\ cpu'.sr.ov = ~InRange(Signed(x) - Signed(y))
  BY <1>3, <1>7, <1>8, <1>9, <1>10, <1>11
<1> QED  BY <1>12 DEF IntegerMeaning

LEMMA ProductsMean ==
  ASSUME InsnInv, ExecInteger, ci.exec \in {"l.mul", "l.mulu"}
  PROVE  IntegerMeaning
<1> DEFINE e == Integer(ci.exec, x, y, cpu.sr)
<1>1. /\ x \in Word /\ y \in Word /\ cpu'.sr \in Statuses
      /\ d' = IF e.d = NoResult THEN d ELSE e.d
      /\ cpu'.sr.cy <=> ((cpu.sr.cy /\ "cy" \notin e.clear) \/ Tells(e, "cy"))
      /\ cpu'.sr.ov <=> ((cpu.sr.ov /\ "ov" \notin e.clear) \/ Tells(e, "ov"))
  BY IntegerDoes
<1>2. cpu'.sr.cy \in BOOLEAN /\ cpu'.sr.ov \in BOOLEAN  BY <1>1 DEF Statuses
<1>3. CASE ci.exec = "l.mul"
  <2>1. PICK p \in Int : p = Signed(x) * Signed(y)  BY <1>1, SignedType
  <2>2. e = Mul(x, y)
    BY SMT, <1>3, CompareSets DEF Integer, LogicExecs, UnaryExecs
  <2> HIDE DEF e
  <2>3. /\ e.d = Unsigned(p) /\ e.clear = {"ov"}
        /\ e.first.hit = OutOfRange(p) /\ e.first.flag = "ov" /\ ~e.second.hit
    BY <2>1, <2>2, NoCheckIs DEF Mul, Does, Check
  <2>4. Unsigned(p) \in Word /\ Same(Unsigned(p), p) /\ OutOfRange(p) = ~InRange(p)
    BY Reduced, OutOfRangeIs
  <2>5. d' = Unsigned(p)  BY <1>1, <2>3, <2>4, WordIsResult
  <2>6. cpu'.sr.ov <=> ~InRange(p)  BY <1>1, <2>3, <2>4 DEF Tells
  <2>7. Same(d', Signed(x) * Signed(y)) /\ cpu'.sr.ov = ~InRange(Signed(x) * Signed(y))
    BY <1>2, <2>1, <2>4, <2>5, <2>6
  <2> QED  BY <2>7, <1>3 DEF IntegerMeaning
<1>4. CASE ci.exec = "l.mulu"
  <2>1. PICK p \in Int : p = x * y  BY <1>1, SignedType
  <2>2. e = Mulu(x, y)
    BY SMT, <1>4, CompareSets DEF Integer, LogicExecs, UnaryExecs
  <2> HIDE DEF e
  <2>3. /\ e.d = Unsigned(p) /\ e.clear = {"cy"}
        /\ e.first.hit = (p >= Size) /\ e.first.flag = "cy" /\ ~e.second.hit
    BY <2>1, <2>2, NoCheckIs DEF Mulu, Does, Check
  <2>4. Unsigned(p) \in Word /\ Same(Unsigned(p), p)  BY Reduced
  <2>5. d' = Unsigned(p)  BY <1>1, <2>3, <2>4, WordIsResult
  <2>6. cpu'.sr.cy <=> p >= Size  BY <1>1, <2>3 DEF Tells
  <2>7. Same(d', x * y) /\ cpu'.sr.cy = (x * y >= Size)  BY <1>2, <2>1, <2>4, <2>5, <2>6
  <2> QED  BY <2>7, <1>4 DEF IntegerMeaning
<1> QED  BY <1>3, <1>4

LEMMA QuotientsMean ==
  ASSUME InsnInv, ExecInteger, ci.exec \in {"l.div", "l.divu"}
  PROVE  IntegerMeaning
<1> DEFINE e == Integer(ci.exec, x, y, cpu.sr)
<1>1. /\ x \in Word /\ y \in Word /\ cpu'.sr \in Statuses /\ ~HostTraps
      /\ d' = IF e.d = NoResult THEN d ELSE e.d
      /\ cpu'.sr.cy <=> ((cpu.sr.cy /\ "cy" \notin e.clear) \/ Tells(e, "cy"))
      /\ cpu'.sr.ov <=> ((cpu.sr.ov /\ "ov" \notin e.clear) \/ Tells(e, "ov"))
  BY IntegerDoes
<1>2. e = IF ci.exec = "l.div" THEN Div(x, y) ELSE Divu(x, y)
  BY SMT, CompareSets DEF Integer, LogicExecs, UnaryExecs
<1> HIDE DEF e
<1>3. CASE y = 0
  <2>1. /\ e.d = NoResult /\ e.first.hit = TRUE
        /\ e.first.flag = IF ci.exec = "l.div" THEN "ov" ELSE "cy"
    BY <1>2, <1>3 DEF Div, Divu, Does, Check
  <2>2. d' = d  BY <1>1, <2>1
  <2>3. CASE ci.exec = "l.div"
    <3>1. cpu'.sr.ov  BY <1>1, <2>1, <2>3 DEF Tells
    <3> QED  BY <3>1, <2>2, <2>3, <1>3 DEF IntegerMeaning
  <2>4. CASE ci.exec = "l.divu"
    <3>1. cpu'.sr.cy  BY <1>1, <2>1, <2>4 DEF Tells
    <3> QED  BY <3>1, <2>2, <2>4, <1>3 DEF IntegerMeaning
  <2> QED  BY <2>3, <2>4
<1>4. CASE y # 0 /\ ci.exec = "l.div"
  <2> DEFINE q == Magnitude(Signed(x)) \div Magnitude(Signed(y))
             r == Unsigned(IF SameSigns(x, y) THEN q ELSE -q)
             rest == Signed(x) - Signed(r) * Signed(y)
  <2>1. ~(Signed(x) = -(Size \div 2) /\ Signed(y) = -1)  BY <1>1, <1>4 DEF HostTraps
  <2>2. /\ r \in Word
        /\ Magnitude(rest) < Magnitude(Signed(y))
        /\ rest = 0 \/ (rest < 0) = (Signed(x) < 0)
    BY <1>1, <1>4, <2>1, Divides
  <2>3. e.d = r /\ e.clear = {"ov"} /\ ~e.first.hit /\ ~e.second.hit
    BY <1>2, <1>4, NoCheckIs DEF Div, Does
  <2>4. d' = r  BY <1>1, <2>2, <2>3, WordIsResult
  <2>5. ~cpu'.sr.ov  BY <1>1, <2>3 DEF Tells
  <2> HIDE DEF r
  <2> QED  BY <2>2, <2>4, <2>5, <1>4 DEF IntegerMeaning
<1>5. CASE y # 0 /\ ci.exec = "l.divu"
  <2> DEFINE r == x \div y
  <2>1. r \in Word /\ r * y <= x /\ x < (r + 1) * y  BY <1>1, <1>5, DividesUnsigned
  <2>2. e.d = r /\ e.clear = {"cy"} /\ ~e.first.hit /\ ~e.second.hit
    BY <1>2, <1>5, NoCheckIs DEF Divu, Does
  <2>3. d' = r  BY <1>1, <2>1, <2>2, WordIsResult
  <2>4. ~cpu'.sr.cy  BY <1>1, <2>2 DEF Tells
  <2> HIDE DEF r
  <2> QED  BY <2>1, <2>3, <2>4, <1>5 DEF IntegerMeaning
<1> QED  BY <1>3, <1>4, <1>5

\* what is written by an instruction that does nothing else
LEMMA WrittenPlainly ==
  ASSUME InsnInv, ExecInteger, NEW v \in Nat, Integer(ci.exec, x, y, cpu.sr) = Plain(v)
  PROVE  d' = v
<1>1. d' = IF Plain(v).d = NoResult THEN d ELSE Plain(v).d  BY IntegerDoes
<1>2. v # NoResult  BY DEF NoResult
<1> QED  BY <1>1, <1>2, PlainIs

LEMMA ShiftsMean ==
  ASSUME InsnInv, ExecInteger, ci.exec \in {"l.sra", "l.sll"}
  PROVE  IntegerMeaning
<1>1. x \in Word /\ y \in Word  BY IntegerDoes
<1>2. PICK n \in 0..(W - 1) : n = y % W /\ n = Shift(y)  BY <1>1, ShiftType
<1>3. \A v \in Word : v \in Nat  BY SizeType DEF Word
<1>4. CASE ci.exec = "l.sra"
  <2> DEFINE r == Extended(Right(x, n), W - 1 - n)
  <2>1. r \in Word /\ Signed(r) = Signed(x) \div 2^n  BY <1>1, ShiftedRight
  <2>2. Integer(ci.exec, x, y, cpu.sr) = Plain(Logic(ci.exec, x, y, cpu.sr.f))
    BY SMT, <1>4, CompareSets DEF Integer, LogicExecs, UnaryExecs
  <2>3. Logic(ci.exec, x, y, cpu.sr.f) = r  BY SMT, <1>2, <1>4 DEF Logic
  <2> HIDE DEF r
  <2>4. d' = r  BY <2>1, <2>2, <2>3, <1>3, WrittenPlainly
  <2> QED  BY <2>1, <2>4, <1>2, <1>4 DEF IntegerMeaning
<1>5. CASE ci.exec = "l.sll"
  <2> DEFINE r == Left(x, n)
  <2>1. /\ r \in Word
        /\ \A i \in 0..(W - 1) : BitAt(r, i) = IF i < n THEN 0 ELSE BitAt(x, i - n)
    <3>1. 0 \in 0..(W - 1)  BY WidthAssumption
    <3> QED  BY <3>1, <1>1, ShiftedLeft
  <2>2. Integer(ci.exec, x, y, cpu.sr) = Plain(Logic(ci.exec, x, y, cpu.sr.f))
    BY SMT, <1>5, CompareSets DEF Integer, LogicExecs, UnaryExecs
  <2>3. Logic(ci.exec, x, y, cpu.sr.f) = r  BY SMT, <1>2, <1>5 DEF Logic
  <2> HIDE DEF r
  <2>4. d' = r  BY <2>1, <2>2, <2>3, <1>3, WrittenPlainly
  <2> QED  BY <2>1, <2>4, <1>2, <1>5 DEF IntegerMeaning
<1> QED  BY <1>4, <1>5

LEMMA BitsMean ==
  ASSUME InsnInv, ExecInteger, ci.exec \in {"l.and", "l.or", "l.xor"}
  PROVE  IntegerMeaning
<1> DEFINE r == CASE ci.exec = "l.and" -> And(x, y)
                  [] ci.exec = "l.or"  -> Or(x, y)
                  [] ci.exec = "l.xor" -> Xor(x, y)
           S == CASE ci.exec = "l.and" -> {2}
                  [] ci.exec = "l.or"  -> {1, 2}
                  [] ci.exec = "l.xor" -> {1}
<1>1. x \in Word /\ y \in Word  BY IntegerDoes
<1>2. \A v \in Word : v \in Nat  BY SizeType DEF Word
<1>3. ASSUME NEW i \in 0..(W - 1)
      PROVE  r \in Word /\ (BitAt(r, i) = 1 <=> BitAt(x, i) + BitAt(y, i) \in S)
  <2>1. /\ And(x, y) \in Word /\ Or(x, y) \in Word /\ Xor(x, y) \in Word
        /\ BitAt(And(x, y), i) = 1 <=> BitAt(x, i) + BitAt(y, i) \in {2}
        /\ BitAt(Or(x, y), i) = 1 <=> BitAt(x, i) + BitAt(y, i) \in {1, 2}
        /\ BitAt(Xor(x, y), i) = 1 <=> BitAt(x, i) + BitAt(y, i) \in {1}
    BY <1>1, BitOperators
  <2>2. CASE ci.exec = "l.and"
    <3>1. r = And(x, y) /\ S = {2}  BY <2>2
    <3> QED  BY <3>1, <2>1
  <2>3. CASE ci.exec = "l.or"
    <3>1. r = Or(x, y) /\ S = {1, 2}  BY <2>3
    <3> QED  BY <3>1, <2>1
  <2>4. CASE ci.exec = "l.xor"
    <3>1. r = Xor(x, y) /\ S = {1}  BY <2>4
    <3> QED  BY <3>1, <2>1
  <2> QED  BY <2>2, <2>3, <2>4
<1>4. Integer(ci.exec, x, y, cpu.sr) = Plain(Logic(ci.exec, x, y, cpu.sr.f))
  BY SMT, CompareSets DEF Integer, LogicExecs, UnaryExecs
<1>5. Logic(ci.exec, x, y, cpu.sr.f) = r  BY SMT DEF Logic
<1> HIDE DEF r
<1>6. 0 \in 0..(W - 1)  BY WidthAssumption
<1>7. d' = r
  <2>1. r \in Word  BY <1>3, <1>6
  <2> QED  BY <2>1, <1>2, <1>4, <1>5, WrittenPlainly
<1>8. \A i \in 0..(W - 1) : BitAt(d', i) = 1 <=> BitAt(x, i) + BitAt(y, i) \in S
  BY <1>3, <1>7
<1> QED  BY <1>8 DEF IntegerMeaning

LEMMA ExtensionsMean ==
  ASSUME InsnInv, ExecInteger, ci.exec \in {"l.exths", "l.extbs"}
  PROVE  IntegerMeaning
<1> DEFINE n == (IF ci.exec = "l.exths" THEN Halfword ELSE Byte) - 1
           r == Extended(x, n)
           half == 2^n
<1>1. x \in Word /\ x \in Int  BY IntegerDoes, SizeType DEF Word
<1>2. \A v \in Word : v \in Nat  BY SizeType DEF Word
<1>3. n \in 0..(W - 1)  BY WidthAssumption DEF Halfword, Byte
<1>4. Integer(ci.exec, x, y, cpu.sr) = Plain(Unary(ci.exec, x))
  BY SMT, CompareSets DEF Integer, LogicExecs, UnaryExecs
<1>5. Unary(ci.exec, x) = r  BY SMT DEF Unary
<1>6. half = 2^((IF ci.exec = "l.exths" THEN Halfword ELSE Byte) - 1)  OBVIOUS
<1> HIDE DEF n
<1>7. /\ r \in Word /\ Signed(r) \in -half..(half - 1)
      /\ (Signed(r) - x) % (2 * half) = 0
  BY <1>1, <1>3, SignExtends
<1> HIDE DEF r, half
<1>8. d' = r  BY <1>2, <1>4, <1>5, <1>7, WrittenPlainly
<1> QED  BY <1>6, <1>7, <1>8 DEF IntegerMeaning

LEMMA FindsMean ==
  ASSUME InsnInv, ExecInteger, ci.exec \in {"l.ff1", "l.fl1"}
  PROVE  IntegerMeaning
<1> DEFINE r == IF ci.exec = "l.ff1" THEN FirstOne(x) ELSE LastOne(x)
<1>1. x \in Word  BY IntegerDoes
<1>2. Integer(ci.exec, x, y, cpu.sr) = Plain(Unary(ci.exec, x))
  BY SMT, CompareSets DEF Integer, LogicExecs, UnaryExecs
<1>3. Unary(ci.exec, x) = r  BY SMT DEF Unary
<1>4. CASE x = 0
  <2>1. r = 0  BY <1>4 DEF FirstOne, LastOne
  <2>2. d' = 0  BY <2>1, <1>2, <1>3, WrittenPlainly
  <2> QED  BY <2>2, <1>4 DEF IntegerMeaning
<1>5. CASE x # 0
  <2>1. /\ FirstOne(x) \in 1..W /\ x % 2^FirstOne(x) = 2^(FirstOne(x) - 1)
        /\ LastOne(x) \in 1..W /\ 2^(LastOne(x) - 1) <= x /\ x < 2^LastOne(x)
    BY <1>1, <1>5, FirstOneIs, LastOneIs
  <2>2. r \in Nat  BY <2>1, WidthAssumption
  <2> HIDE DEF r
  <2>3. d' = r  BY <2>2, <1>2, <1>3, WrittenPlainly
  <2>4. CASE ci.exec = "l.ff1"
    <3>1. x % 2^d' = 2^(d' - 1)  BY <2>1, <2>3, <2>4 DEF r
    <3> QED  BY <3>1, <2>4, <1>5 DEF IntegerMeaning
  <2>5. CASE ci.exec = "l.fl1"
    <3>1. 2^(d' - 1) <= x /\ x < 2^d'  BY <2>1, <2>3, <2>5 DEF r
    <3> QED  BY <3>1, <2>5, <1>5 DEF IntegerMeaning
  <2> QED  BY <2>4, <2>5
<1> QED  BY <1>4, <1>5

LEMMA ComparisonsMean ==
  ASSUME InsnInv, ExecInteger, ci.exec \in {"l.sfgts", "l.sflts"}
  PROVE  IntegerMeaning
<1> DEFINE e == Integer(ci.exec, x, y, cpu.sr)
           greater == (ci.exec = "l.sfgts")
<1>1. /\ x \in Word /\ y \in Word /\ cpu'.sr \in Statuses
      /\ cpu'.sr.f <=> ((cpu.sr.f /\ "f" \notin e.clear) \/ Tells(e, "f"))
  BY IntegerDoes
<1>2. PICK sx \in Int : sx = Signed(x)  BY <1>1, SignedType
<1>3. PICK sy \in Int : sy = Signed(y)  BY <1>1, SignedType
<1>4. e = Does(NoResult, {"f"}, Check(Compares(ci.exec, x, y), "f", None), NoCheck)
  BY SMT, CompareSets DEF Integer, LogicExecs, UnaryExecs
<1> HIDE DEF e
<1>5. cpu'.sr.f <=> Compares(ci.exec, x, y)  BY <1>1, <1>4, NoCheckIs DEF Does, Check, Tells
<1>6. Compares(ci.exec, x, y) <=> (IF greater THEN sx > sy ELSE sx < sy)
  <2>1. CASE ci.exec = "l.sfgts"  BY SMT, <2>1, <1>2, <1>3 DEF Compares
  <2>2. CASE ci.exec = "l.sflts"  BY SMT, <2>2, <1>2, <1>3 DEF Compares
  <2> QED  BY <2>1, <2>2
<1>7. x = y <=> sx = sy  BY <1>1, <1>2, <1>3, SignedIs, HalfSize
<1>8. cpu'.sr.f \in BOOLEAN /\ greater \in BOOLEAN  BY <1>1 DEF Statuses
<1>9. (IF greater THEN sx > sy ELSE sx < sy) <=> ((greater <=> sx - sy > 0) /\ sx # sy)
  BY <1>8
<1>10. cpu'.sr.f <=> ((greater <=> sx - sy > 0) /\ x # y)  BY <1>5, <1>6, <1>7, <1>9
<1>11. cpu'.sr.f = (greater = (Signed(x) - Signed(y) > 0) /\ x # y)
  BY <1>2, <1>3, <1>8, <1>10
<1> QED  BY <1>11 DEF IntegerMeaning

\* The result and the flags of every integer instruction are what they mean in
\* terms of the numbers, for words of every width and all operands: what the
\* code tells from signs and wrapped results is the carry and the overflow, a
\* quotient is rounded towards zero, l.sra divides, and l.ff1 and l.fl1 count
\* (execute.cpp:312-771).
THEOREM ArithmeticExactHolds == Spec => ArithmeticExact
<1>1. ASSUME InsnInv, Next, Stepped(IntegerExecs)  PROVE IntegerMeaning
  <2>1. phase = "execute" /\ phase' = "done" /\ ci.exec \in IntegerExecs
    BY <1>1 DEF Stepped
  <2>2. ExecInteger  BY <1>1, <2>1, WhichStep, WhichAction
  <2>3. CASE ci.exec \in {"l.add", "l.addc"}  BY <1>1, <2>2, <2>3, SumsMean
  <2>4. CASE ci.exec = "l.sub"  BY <1>1, <2>2, <2>4, DifferenceMeans
  <2>5. CASE ci.exec \in {"l.mul", "l.mulu"}  BY <1>1, <2>2, <2>5, ProductsMean
  <2>6. CASE ci.exec \in {"l.div", "l.divu"}  BY <1>1, <2>2, <2>6, QuotientsMean
  <2>7. CASE ci.exec \in {"l.sra", "l.sll"}  BY <1>1, <2>2, <2>7, ShiftsMean
  <2>8. CASE ci.exec \in {"l.and", "l.or", "l.xor"}  BY <1>1, <2>2, <2>8, BitsMean
  <2>9. CASE ci.exec \in {"l.exths", "l.extbs"}  BY <1>1, <2>2, <2>9, ExtensionsMean
  <2>10. CASE ci.exec \in {"l.ff1", "l.fl1"}  BY <1>1, <2>2, <2>10, FindsMean
  <2>11. CASE ci.exec \in {"l.sfgts", "l.sflts"}  BY <1>1, <2>2, <2>11, ComparisonsMean
  <2>12. CASE ci.exec \notin {"l.add", "l.addc", "l.sub", "l.mul", "l.mulu", "l.div", "l.divu",
                              "l.sra", "l.sll", "l.and", "l.or", "l.xor", "l.exths", "l.extbs",
                              "l.ff1", "l.fl1", "l.sfgts", "l.sflts"}
    BY <2>12 DEF IntegerMeaning
  <2> QED  BY <2>3, <2>4, <2>5, <2>6, <2>7, <2>8, <2>9, <2>10, <2>11, <2>12
<1>2. InsnInv /\ [Next]_vars => [Stepped(IntegerExecs) => IntegerMeaning]_vars  BY <1>1
<1> QED  BY <1>2, SpecInvariant, PTL DEF Spec, ArithmeticExact
-----------------------------------------------------------------------------
(* What the variables hold                                                  *)

\* registers hold words, the interrupts that cannot be masked never are, and
\* the bound on the products is kept where the next one is added
Values ==
  /\ x \in Word /\ y \in Word /\ d \in Word
  /\ spr \in [Stored -> Word] /\ kept \in [Stored -> Word]
  /\ spr.PICMR \in {NMI, NMI + 1}
  /\ acc.terms <= MaxTerms
  /\ phase = "execute" /\ ci.exec \in MacOps \ {"l.macrc"} => acc.terms < MaxTerms

\* the values of the special purpose registers that the model tells apart
LEMMA SmallWords ==
  {0, 1, NMI, NMI + 1} \subseteq Word
<1>1. Half \in Nat /\ Half >= 2 /\ Size = 2 * Half  BY HalfSize
<1>2. 0 \in Word /\ 1 \in Word /\ 2 \in Word /\ 3 \in Word  BY <1>1 DEF Word
<1> QED  BY <1>2 DEF NMI

\* a word has more values than bits
LEMMA MoreThanBits ==
  ASSUME NEW n \in 0..W
  PROVE  n < 2^n
<1> DEFINE S == {k \in 0..W : ~(k < 2^k)}
<1> SUFFICES ASSUME S # {}  PROVE FALSE
  OBVIOUS
<1>1. W \in Nat /\ S \in SUBSET Nat  BY WidthAssumption
<1>2. PICK m \in S : \A k \in S : m <= k  BY <1>1, HasLeast
<1>3. m \in 0..W /\ ~(m < 2^m)  OBVIOUS
<1> HIDE DEF S
<1>4. CASE m = 0
  <2>1. 2^m = 1  BY <1>4, PowerOf0
  <2> QED  BY <2>1, <1>3, <1>4
<1>5. CASE m # 0
  <2>1. m - 1 \in 0..(W - 1) /\ m - 1 \in 0..W /\ m - 1 + 1 = m  BY <1>1, <1>3, <1>5
  <2>2. m - 1 < 2^(m - 1)
    <3>1. m - 1 \notin S  BY <1>2, <2>1
    <3> QED  BY <3>1, <2>1 DEF S
  <2>3. 2^(m - 1) \in Nat  BY <2>1, Power
  <2>4. 2^m = 2 * 2^(m - 1)  BY <2>1, NextPower
  <2> QED  BY <2>1, <2>2, <2>3, <2>4, <1>3
<1> QED  BY <1>4, <1>5

LEMMA PositionWord ==
  ASSUME NEW n \in 0..W
  PROVE  n \in Word
<1>1. W \in Nat /\ W \in 0..W  BY WidthAssumption
<1>2. W < Size  BY <1>1, MoreThanBits DEF Size
<1> QED  BY <1>1, <1>2, SizeType DEF Word

\* what is left of a word when it is divided or shifted right
LEMMA QuotientWord ==
  ASSUME NEW a \in Word, NEW m \in Nat \ {0}
  PROVE  a \div m \in Word /\ a % m \in Word
<1> DEFINE q == a \div m
           r == a % m
<1>1. Size \in Nat \ {0} /\ a \in Int /\ 0 <= a /\ a < Size  BY SizeType DEF Word
<1>2. q \in Int /\ r \in 0..(m - 1) /\ a = m * q + r  BY <1>1, DivMod
<1> HIDE DEF q, r
<1>3. q >= 0
  <2>1. CASE q < 0
    <3>1. m * q <= m * (-1)  BY <2>1, <1>2
    <3> QED  BY <3>1, <1>1, <1>2
  <2> QED  BY <2>1, <1>2
<1>4. q <= m * q
  <2>1. 1 * q <= m * q  BY <1>2, <1>3
  <2> QED  BY <2>1, <1>2
<1>5. 0 <= m * q /\ m * q \in Int  BY <1>2, <1>3
<1>6. q < Size /\ r < Size  BY <1>1, <1>2, <1>4, <1>5
<1> QED  BY <1>1, <1>2, <1>3, <1>6 DEF Word, q, r

\* the result of an integer instruction, when it writes one
LEMMA IntegerWord ==
  ASSUME NEW exec \in IntegerExecs, NEW a \in Word, NEW b \in Word, NEW sr,
         ~(exec = "l.div" /\ Signed(a) = -(Size \div 2) /\ Signed(b) = -1)
  PROVE  Integer(exec, a, b, sr).d \in Word \cup {NoResult}
<1> DEFINE e == Integer(exec, a, b, sr)
           r == e.d
<1> SUFFICES r \in Word \cup {NoResult}
  OBVIOUS
<1> USE CompareSets DEF LogicExecs, UnaryExecs
<1>0. /\ a \in Int /\ b \in Int /\ Signed(a) \in Int /\ Signed(b) \in Int
      /\ Size \in Nat \ {0} /\ W \in Nat \ {0}
  BY SizeType, SignedType, WidthAssumption DEF Word
<1>1. CASE exec \in {"l.add", "l.addc", "l.sub"}
  <2> DEFINE c == IF sr.cy THEN 1 ELSE 0
  <2>1. e \in {Add(a, b), Addc(a, b, sr.cy), Sub(a, b)}  BY SMT, <1>1 DEF Integer
  <2>3. /\ Add(a, b).d = Unsigned(a + b) /\ Sub(a, b).d = Unsigned(a - b)
        /\ Addc(a, b, sr.cy).d = Unsigned(a + b + c)
    BY DEF Add, Addc, Sub, Does
  <2>2. a + b \in Int /\ a + b + c \in Int /\ a - b \in Int  BY <1>0
  <2>4. Unsigned(a + b) \in Word /\ Unsigned(a + b + c) \in Word /\ Unsigned(a - b) \in Word
    BY <2>2, WordUnsigned
  <2> HIDE DEF e, c
  <2> QED  BY <2>1, <2>3, <2>4
<1>2. CASE exec \in {"l.mul", "l.mulu"}
  <2>1. e \in {Mul(a, b), Mulu(a, b)}  BY SMT, <1>2 DEF Integer
  <2>3. Mul(a, b).d = Unsigned(Signed(a) * Signed(b)) /\ Mulu(a, b).d = Unsigned(a * b)
    BY DEF Mul, Mulu, Does
  <2>2. Signed(a) * Signed(b) \in Int /\ a * b \in Int  BY <1>0
  <2>4. Unsigned(Signed(a) * Signed(b)) \in Word /\ Unsigned(a * b) \in Word
    BY <2>2, WordUnsigned
  <2> HIDE DEF e
  <2> QED  BY <2>1, <2>3, <2>4
<1>3. CASE exec = "l.div"
  <2> DEFINE q == Magnitude(Signed(a)) \div Magnitude(Signed(b))
  <2>1. r = IF b = 0 THEN NoResult ELSE Unsigned(IF SameSigns(a, b) THEN q ELSE -q)
    <3>1. e = Div(a, b)  BY SMT, <1>3 DEF Integer
    <3> HIDE DEF e
    <3> QED  BY <3>1 DEF Div, Does
  <2>2. b # 0 => Unsigned(IF SameSigns(a, b) THEN q ELSE -q) \in Word  BY <1>3, Divides
  <2> HIDE DEF e, r, q
  <2> QED  BY <2>1, <2>2
<1>4. CASE exec = "l.divu"
  <2>1. r = IF b = 0 THEN NoResult ELSE a \div b
    <3>1. e = Divu(a, b)  BY SMT, <1>4 DEF Integer
    <3> HIDE DEF e
    <3> QED  BY <3>1 DEF Divu, Does
  <2>2. b # 0 => a \div b \in Word  BY DividesUnsigned
  <2> HIDE DEF e, r
  <2> QED  BY <2>1, <2>2
<1>5. CASE exec \in CompareOps
  <2>1. r = NoResult
    <3>1. e = Does(NoResult, {"f"}, Check(Compares(exec, a, b), "f", None), NoCheck)
      BY SMT, <1>5 DEF Integer
    <3> HIDE DEF e
    <3> QED  BY <3>1 DEF Does
  <2> QED  BY <2>1
<1>6. CASE exec \in LogicExecs
  <2> DEFINE n == Shift(b)
             m == W - 1 - n
  <2>1. r = Logic(exec, a, b, sr.f)
    <3>1. e = Plain(Logic(exec, a, b, sr.f))  BY SMT, <1>6 DEF Integer
    <3> HIDE DEF e
    <3> QED  BY <3>1, PlainIs
  <2>2. 0 \in 0..(W - 1) /\ n \in 0..(W - 1) /\ m \in 0..(W - 1) /\ n \in 0..W
    BY <1>0, ShiftType
  <2>3. And(a, b) \in Word /\ Or(a, b) \in Word /\ Xor(a, b) \in Word
    BY <2>2, BitOperators
  <2>4. Left(a, n) \in Word /\ Left(a, m) \in Word  BY <2>2, ShiftedLeft
  <2>5. Right(a, n) \in Word
    <3>1. 2^n \in Nat \ {0}  BY <2>2, Power
    <3> QED  BY <3>1, QuotientWord DEF Right
  <2>6. Extended(Right(a, n), m) \in Word  BY <2>2, ShiftedRight
  <2>7. Or(Right(a, n), Left(a, m)) \in Word  BY <2>2, <2>4, <2>5, BitOperators
  <2>8. Logic(exec, a, b, sr.f) \in {And(a, b), Or(a, b), Xor(a, b), a, b, Left(a, n),
                                     Right(a, n), Extended(Right(a, n), m),
                                     Or(Right(a, n), Left(a, m))}
    BY SMT, <1>6 DEF Logic
  <2> HIDE DEF e, r, n, m
  <2> QED  BY <2>1, <2>3, <2>4, <2>5, <2>6, <2>7, <2>8
<1>7. CASE exec \in UnaryExecs
  <2>1. r = Unary(exec, a)
    <3>1. e = Plain(Unary(exec, a))  BY SMT, <1>7 DEF Integer
    <3> HIDE DEF e
    <3> QED  BY <3>1, PlainIs
  <2>2. /\ Halfword \in 1..W /\ Halfword - 1 \in 0..(W - 1)
        /\ Byte \in 1..W /\ Byte - 1 \in 0..(W - 1)
    BY WidthAssumption DEF Halfword, Byte
  <2>3. a % 2^Halfword \in Word /\ a % 2^Byte \in Word
    <3>1. Halfword \in 0..W /\ Byte \in 0..W  BY <2>2, <1>0
    <3>2. 2^Halfword \in Nat \ {0} /\ 2^Byte \in Nat \ {0}  BY <3>1, Power
    <3> QED  BY <3>2, QuotientWord
  <2>4. Extended(a, Halfword - 1) \in Word /\ Extended(a, Byte - 1) \in Word
    BY <2>2, <1>0, SignExtends
  <2>5. FirstOne(a) \in Word /\ LastOne(a) \in Word
    <3>1. CASE a = 0
      <4>1. FirstOne(a) = 0 /\ LastOne(a) = 0  BY <3>1 DEF FirstOne, LastOne
      <4> QED  BY <4>1, <3>1
    <3>2. CASE a # 0
      <4>1. FirstOne(a) \in 1..W /\ LastOne(a) \in 1..W  BY <3>2, FirstOneIs, LastOneIs
      <4>2. FirstOne(a) \in 0..W /\ LastOne(a) \in 0..W  BY <4>1, <1>0
      <4> QED  BY <4>2, PositionWord
    <3> QED  BY <3>1, <3>2
  <2>6. Unary(exec, a) \in {a, a % 2^Halfword, Extended(a, Halfword - 1), a % 2^Byte,
                            Extended(a, Byte - 1), FirstOne(a), LastOne(a)}
    BY SMT, <1>7 DEF Unary
  <2> HIDE DEF e, r
  <2> QED  BY <2>1, <2>3, <2>4, <2>5, <2>6
<1> HIDE CompareSets DEF LogicExecs, UnaryExecs
<1> QED  BY <1>1, <1>2, <1>3, <1>4, <1>5, <1>6, <1>7 DEF IntegerExecs

\* without its bit 0
LEMMA Stripped ==
  ASSUME NEW val \in Word
  PROVE  val - (val % 2) \in Word
<1>1. PICK size \in Nat : size = Size  BY SizeType
<1>2. val \in 0..(size - 1)  BY <1>1 DEF Word
<1>3. val % 2 \in {0, 1} /\ (val % 2 = 1 => val > 0)  BY <1>2
<1>4. val - (val % 2) \in 0..(size - 1)  BY <1>2, <1>3
<1> QED  BY <1>1, <1>4 DEF Word

\* what a granted write leaves in the registers
LEMMA WrittenType ==
  ASSUME NEW s \in [Stored -> Word], s.PICMR \in {NMI, NMI + 1}, NEW r, NEW val \in Word,
         NEW level
  PROVE  /\ Written(s, r, val, level) \in [Stored -> Word]
         /\ Written(s, r, val, level).PICMR \in {NMI, NMI + 1}
<1>0. 0 \in Word /\ NMI \in Word /\ NMI + 1 \in Word  BY SmallWords
<1>1. CASE r = "PICMR"
  <2> DEFINE bits == (val % 2) + NMI
  <2>1. Written(s, r, val, level) = [s EXCEPT !.PICMR = bits]
    BY SMT, <1>1, StoredNames DEF Written
  <2>2. bits \in {NMI, NMI + 1}
    <3>1. val \in Int /\ val % 2 \in {0, 1}  BY SizeType DEF Word
    <3> QED  BY <3>1 DEF NMI
  <2>3. "PICMR" \in Stored  BY StoredNames
  <2> HIDE DEF bits
  <2> QED  BY <2>1, <2>2, <2>3, <1>0
<1>2. CASE r = "PICSR"
  <2>1. Written(s, r, val, level) \in {s, [s EXCEPT !.PICSR = 0]}
    BY SMT, <1>2, StoredNames DEF Written
  <2>2. [s EXCEPT !.PICSR = 0] \in [Stored -> Word]  BY <1>0
  <2>3. [s EXCEPT !.PICSR = 0].PICMR = s.PICMR  BY StoredNames
  <2> QED  BY <2>1, <2>2, <2>3
<1>3. CASE r \in {"DTLBEIR", "ITLBEIR"}
  <2>1. PICK tlb \in {"DTLB", "ITLB"} :
          Written(s, r, val, level) = [s EXCEPT ![tlb] = Invalidated(s[tlb], val)]
    BY <1>3, EntryWrite
  <2>2. tlb \in Stored /\ tlb # "PICMR"  BY StoredNames
  <2>3. Invalidated(s[tlb], val) \in Word
    <3>1. PICK entry \in Word : entry = s[tlb]  BY <2>2
    <3>2. entry - (entry % 2) \in Word  BY Stripped
    <3> QED  BY <3>1, <3>2 DEF Invalidated
  <2> QED  BY <2>1, <2>2, <2>3
<1>4. CASE r \in {"DMMUCR", "IMMUCR"}
  <2>0. PICK tlb \in {"DTLB", "ITLB"} : \E entry \in {0, s[tlb]} :
          Written(s, r, val, level) = [s EXCEPT ![r] = ReadsAs(r, val), ![tlb] = entry]
    BY <1>4, MmuWrite
  <2>1. PICK entry \in {0, s[tlb]} :
          Written(s, r, val, level) = [s EXCEPT ![r] = ReadsAs(r, val), ![tlb] = entry]
    BY <2>0
  <2>2. tlb \in Stored /\ tlb # "PICMR" /\ r # "PICMR"  BY <1>4, StoredNames
  <2>3. ReadsAs(r, val) \in Word
    <3>1. ReadsAs(r, val) = val - (val % 2)  BY <1>4 DEF ReadsAs
    <3> QED  BY <3>1, Stripped
  <2>4. entry \in Word  BY <2>2, <1>0
  <2> DEFINE first == [s EXCEPT ![r] = ReadsAs(r, val)]
             both  == [first EXCEPT ![tlb] = entry]
  <2>5. first \in [Stored -> Word] /\ first.PICMR = s.PICMR
    <3>1. PICK v \in Word : v = ReadsAs(r, val)  BY <2>3
    <3>2. first = [s EXCEPT ![r] = v]  BY <3>1
    <3>3. [s EXCEPT ![r] = v] \in [Stored -> Word]  OBVIOUS
    <3>4. "PICMR" \in Stored  BY StoredNames
    <3>5. [s EXCEPT ![r] = v].PICMR = s.PICMR  BY <2>2, <3>4
    <3> QED  BY <3>2, <3>3, <3>5
  <2>6. Written(s, r, val, level) = both  BY <2>1
  <2> HIDE DEF first
  <2>7. both \in [Stored -> Word] /\ both.PICMR = first.PICMR  BY <2>2, <2>4, <2>5
  <2> QED  BY <2>5, <2>6, <2>7
<1>5. CASE r \in Stored \ {"PICMR", "PICSR", "DMMUCR", "IMMUCR"}
  <2>1. Written(s, r, val, level) = [s EXCEPT ![r] = val]
    BY SMT, <1>5, StoredNames DEF Written, Assigned
  <2> QED  BY <2>1, <1>5
<1>6. CASE r \notin Stored \cup {"DTLBEIR", "ITLBEIR"}
  <2>1. Written(s, r, val, level) = s
    BY SMT, <1>6, StoredNames DEF Written
  <2> QED  BY <2>1
<1> QED  BY <1>1, <1>2, <1>3, <1>4, <1>5, <1>6

\* what a read gives
LEMMA ReadWord ==
  ASSUME NEW s \in [Stored -> Word], NEW sr, NEW r
  PROVE  GetSpr(s, sr, r) \in Word
<1>1. 0 \in Word /\ StatusValue(sr) \in Word
  <2>1. StatusValue(sr) \in {0, 1, NMI, NMI + 1}  BY DEF StatusValue, NMI
  <2> QED  BY <2>1, SmallWords
<1>2. r \in Stored => s[r] \in Word  OBVIOUS
<1>3. GetSpr(s, sr, r) \in {0, StatusValue(sr)} \/ (r \in Stored /\ GetSpr(s, sr, r) = s[r])
  <2>1. CASE ~CheckAccess(r, FALSE, sr.sm \/ sr.sumra)  BY <2>1 DEF GetSpr
  <2>2. CASE CheckAccess(r, FALSE, sr.sm \/ sr.sumra) /\ r = "SR"  BY <2>2 DEF GetSpr
  <2>3. CASE CheckAccess(r, FALSE, sr.sm \/ sr.sumra) /\ r # "SR"  BY <2>3 DEF GetSpr
  <2> QED  BY <2>1, <2>2, <2>3
<1> QED  BY <1>1, <1>2, <1>3

\* no other instruction is executed by a function that adds to the accumulator
LEMMA MacCompiled ==
  ASSUME NEW w \in InsnWords, DecodeWord(w) \in Instructions,
         Compiled(w).exec \in MacOps \ {"l.macrc"}
  PROVE  DecodeWord(w) \in MacOps \ {"l.macrc"}
<1> DEFINE op == DecodeWord(w)
           e == Compiled(w).exec
<1>0. Compiled(w) = Decoded(op, w) /\ op \in Instructions  BY DEF Compiled
<1>m. MacOps = {"l.mac", "l.macu", "l.msb", "l.msbu", "l.maci", "l.macrc"}  BY DEF MacOps
<1> SUFFICES ASSUME e \in MacOps \ {"l.macrc"}  PROVE op \in MacOps \ {"l.macrc"}
  OBVIOUS
<1> HIDE DEF op
<1>1. CASE op \in MoveOps
  <2>1. e = op
    BY SMT, <1>0, <1>1, Handlers DEF DecodeMove, MoveOps, Ci
  <2> QED  BY <2>1, <1>1, <1>m DEF MoveOps
<1>2. CASE op \in JumpOps
  <2>1. e \in {op, "jump_rel", "jump_abs"}
    BY SMT, <1>0, <1>2, Handlers DEF DecodeJump, JumpOps, Ci
  <2> QED  BY SMT, <2>1, <1>2, <1>m DEF JumpOps
<1>3. CASE op \in LoadOps
  <2>1. e \in {op, "l.lw"}  BY <1>0, <1>3, Handlers DEF DecodeLoad, Ci
  <2> QED  BY SMT, <2>1, <1>3, <1>m DEF LoadOps
<1>4. CASE op \in ExtOps \cup FindOps
  <2>1. e \in {op, "l.extw"}  BY <1>0, <1>4, Handlers DEF DecodeUnary, Ci
  <2> QED  BY SMT, <2>1, <1>4, <1>m DEF ExtOps, FindOps
<1>5. CASE op \in StoreOps \cup AluOps \cup DoubleOps \cup CompareOps \cup SystemOps \cup FpOps
  <2>1. e = op
    BY <1>0, <1>5, Handlers
    DEF DecodeStore, DecodeAluRegs, DecodeDouble, DecodeCompare, DecodeSys, DecodeFp, Ci
  <2> QED
    BY SMT, <2>1, <1>5, <1>m, CompareSets, FpSets
    DEF StoreOps, AluOps, DoubleOps, SystemOps, FpArithmetic, FpConvertOps, FpCompares
<1>6. CASE op \in ShiftImmOps \cup CompareImmOps \cup SignedImmOps \cup UnsignedImmOps
  <2>1. e = ImmExec(op)
    BY <1>0, <1>6, Handlers DEF DecodeShiftImm, DecodeCompareImm, DecodeAluImm, Ci
  <2>2. ImmExec(op) \in CompareOps \cup {"l.add", "l.addc", "l.xor", "l.mul", "l.and", "l.or",
                                         "l.sll", "l.srl", "l.sra", "l.ror"}
    BY SMT, <1>6, CompareSets DEF ImmExec, ShiftImmOps, SignedImmOps, UnsignedImmOps
  <2> HIDE DEF e
  <2> QED  BY SMT, <2>1, <2>2, <1>m, CompareSets
<1>7. CASE op \in MacOps
  <2>1. CASE op = "l.macrc"
    <3>1. Decoded(op, w) = Ci(op, Reg(Bits(w, 25, 17)), Null, Null, 0, op)
      BY SMT, <1>7, <2>1, Handlers DEF DecodeMacUnit
    <3>2. e = "l.macrc"  BY <3>1, <2>1, <1>0 DEF Ci
    <3> QED  BY <3>2
  <2> QED  BY <2>1, <1>7
<1> QED  BY <1>0, <1>1, <1>2, <1>3, <1>4, <1>5, <1>6, <1>7 DEF Instructions

LEMMA InitValues ==
  ASSUME Init
  PROVE  Values
<1>1. 0 \in Word /\ NMI \in Word  BY SmallWords
<1>2. SprInit \in [Stored -> Word] /\ SprInit.PICMR = NMI
  BY <1>1, StoredNames DEF SprInit
<1>3. MaxTerms \in Nat \ {0}  BY InsnAssumption
<1> QED  BY <1>1, <1>2, <1>3 DEF Init, Values

\* what execution leaves: the bound on the products is one for the next step
LEMMA DoneValues ==
  ASSUME Values, phase' = "done", UNCHANGED <<x, y>>, d' \in Word,
         spr' \in [Stored -> Word], spr'.PICMR \in {NMI, NMI + 1}, kept' \in [Stored -> Word],
         acc'.terms <= MaxTerms
  PROVE  Values'
BY DEF Values

LEMMA CompileValues ==
  ASSUME InsnInv, Values, NEW w \in Words(setup.unit), Compile(w)
  PROVE  Values'
<1> USE DEF Compile
<1>1. setup \in Setups /\ w \in InsnWords  BY SetupType DEF InsnInv
<1>2. DecodeWord(w) \in Instructions  BY <1>1, KnownWord DEF Known
<1>3. ci' = Compiled(w) /\ UNCHANGED <<acc, spr, kept>>  OBVIOUS
<1>4. PICK v \in Operands(setup.unit) :
        /\ x' = v.x /\ d' = v.d
        /\ y' = IF ci'.src2 = Imm /\ setup.unit = "int" THEN Unsigned(ci'.imm) ELSE v.y
  OBVIOUS
<1>5. v \in [x : Word, y : Word, d : Word, reg : SPRs \cup {None}]  BY <1>1, SetupType
<1>6. v.x \in Word /\ v.y \in Word /\ v.d \in Word  BY <1>5
<1>7. ci'.imm \in Int  BY <1>1, <1>2, <1>3, UsableWord DEF Usable
<1>8. Unsigned(ci'.imm) \in Word  BY <1>7, WordUnsigned
<1>9. x' \in Word /\ y' \in Word /\ d' \in Word  BY <1>4, <1>6, <1>8
<1>10. ci'.exec \in MacOps \ {"l.macrc"} => acc.terms < MaxTerms
  <2>1. DecodeWord(w) \in MacOps \ {"l.macrc"} => acc.terms < MaxTerms  OBVIOUS
  <2> QED  BY <2>1, <1>1, <1>2, <1>3, MacCompiled
<1> QED  BY <1>3, <1>9, <1>10 DEF Values

LEMMA RetireValues ==
  ASSUME Values, Retire
  PROVE  Values'
<1>1. 0 \in Word  BY SmallWords
<1>2. spr' = [spr EXCEPT !.NPC = 0, !.PPC = 0] /\ UNCHANGED <<acc, kept>>
      /\ x' = 0 /\ y' = 0 /\ d' = 0 /\ phase' = "idle"
  BY DEF Retire
<1>3. spr \in [Stored -> Word]  BY DEF Values
<1>4. spr' \in [Stored -> Word] /\ spr'.PICMR = spr.PICMR
  <2>1. "NPC" \in Stored /\ "PPC" \in Stored /\ "PICMR" \in Stored  BY StoredNames
  <2> QED  BY <1>1, <1>2, <1>3, <2>1
<1> QED  BY <1>1, <1>2, <1>4 DEF Values

LEMMA IntegerValues ==
  ASSUME InsnInv, Values, ExecInteger
  PROVE  Values'
<1> DEFINE e == Integer(ci.exec, x, y, cpu.sr)
<1>1. /\ phase' = "done" /\ ci.exec \in IntegerExecs /\ ~HostTraps
      /\ d' = IF e.d = NoResult THEN d ELSE e.d
      /\ UNCHANGED <<x, y>> /\ UNCHANGED <<acc, spr, kept>>
  BY DEF ExecInteger, Executes
<1>2. x \in Word /\ y \in Word /\ d \in Word  BY DEF Values
<1>3. e.d \in Word \cup {NoResult}  BY <1>1, <1>2, IntegerWord DEF HostTraps
<1>4. d' \in Word  BY <1>1, <1>2, <1>3
<1> QED  BY <1>1, <1>4, DoneValues DEF Values

\* a product is added where there is room for one
LEMMA MacValues ==
  ASSUME InsnInv, Values, ExecMac
  PROVE  Values'
<1>1. /\ phase = "execute" /\ phase' = "done" /\ ci.exec \in (MacOps \ {"l.maci"}) \cup DoubleOps
      /\ d' = IF ci.exec = "l.macrc" THEN mac.lo ELSE d
      /\ acc'.terms = CASE ci.exec = "l.macrc" -> 0
                        [] ci.exec \in DoubleOps -> 1
                        [] OTHER -> acc.terms + 1
      /\ UNCHANGED <<x, y>> /\ UNCHANGED <<spr, kept>>
  BY DEF ExecMac, Executes
<1>2. mac.lo \in Word /\ acc.terms \in Nat  BY DEF InsnInv, Accumulated
<1>3. d' \in Word  BY <1>1, <1>2 DEF Values
<1>4. MaxTerms \in Nat \ {0}  BY InsnAssumption
<1>5. acc'.terms <= MaxTerms
  <2>1. CASE ci.exec = "l.macrc"
    <3>1. acc'.terms = 0  BY SMT, <1>1, <2>1 DEF DoubleOps
    <3> QED  BY <3>1, <1>4
  <2>2. CASE ci.exec \in DoubleOps
    <3>1. acc'.terms = 1  BY SMT, <1>1, <2>2 DEF DoubleOps
    <3> QED  BY <3>1, <1>4
  <2>3. CASE ci.exec \notin DoubleOps \cup {"l.macrc"}
    <3>1. acc'.terms = acc.terms + 1  BY SMT, <1>1, <2>3
    <3>2. acc.terms < MaxTerms  BY <1>1, <2>3 DEF Values
    <3> QED  BY <3>1, <3>2, <1>2, <1>4
  <2> QED  BY <2>1, <2>2, <2>3
<1> QED  BY <1>1, <1>3, <1>5, DoneValues DEF Values

LEMMA MemoryValues ==
  ASSUME InsnInv, Values, ExecMemory
  PROVE  Values'
<1>1. /\ phase' = "done" /\ ci.exec \in Loads \cup Stores /\ dreq' = Request
      /\ UNCHANGED <<x, y>> /\ UNCHANGED <<acc, spr, kept>>
  BY DEF ExecMemory, Executes
<1>2. PICK answer \in Answers :
        d' = IF answer = "SUCCESS" /\ ~dreq'.write THEN Loaded(y) ELSE d
  BY DEF ExecMemory
<1>3. y \in Word /\ d \in Word  BY DEF Values
<1>4. d' \in Word
  <2>1. CASE ci.exec \in Loads
    <3>1. Loaded(y) \in Word  BY <1>3, <2>1, LoadedExactly
    <3> QED  BY <3>1, <1>2, <1>3
  <2>2. CASE ci.exec \in Stores
    <3>1. dreq \in [write : BOOLEAN, excl : BOOLEAN, size : {1, 2, 4}]
      BY DEF InsnInv, Beside
    <3>2. dreq'.write  BY <3>1, <2>2, <1>1 DEF Request
    <3> QED  BY <3>2, <1>2, <1>3
  <2> QED  BY <2>1, <2>2, <1>1
<1> QED  BY <1>1, <1>4, DoneValues DEF Values

\* the moves between registers, and the return from an exception
LEMMA MoveValues ==
  ASSUME InsnInv, Values, ExecMfspr \/ ExecMtspr \/ ExecRfe
  PROVE  Values'
<1>1. /\ x \in Word /\ d \in Word /\ spr \in [Stored -> Word] /\ kept \in [Stored -> Word]
      /\ spr.PICMR \in {NMI, NMI + 1} /\ acc.terms <= MaxTerms
  BY DEF Values
<1>2. \A r : GetSpr(spr, cpu.sr, r) \in Word  BY <1>1, ReadWord
<1>3. CASE ExecMfspr
  <2>1. phase' = "done" /\ d' = GetSpr(spr, cpu.sr, reg)
        /\ UNCHANGED <<x, y>> /\ UNCHANGED <<acc, spr, kept>>
    BY <1>3 DEF ExecMfspr, Executes
  <2>2. d' \in Word  BY <2>1, <1>2
  <2> QED  BY <2>1, <2>2, <1>1, DoneValues
<1>4. CASE ExecMtspr
  <2>1. /\ phase = "execute" /\ phase' = "done" /\ d' = d
        /\ spr' = SetSpr(spr, cpu.sr, reg, x, setup.level).spr
        /\ kept' = IF cpu.sr.sm /\ reg \in Stored THEN [kept EXCEPT ![reg] = x] ELSE kept
        /\ UNCHANGED <<x, y>> /\ acc' = acc
    BY <1>4 DEF ExecMtspr, Executes
  <2>2. cpu.sr \in Statuses  BY <2>1, Executing
  <2>3. spr' \in {spr, Written(spr, reg, x, setup.level)}  BY <2>1, <2>2, SetSprFields
  <2>4. spr' \in [Stored -> Word] /\ spr'.PICMR \in {NMI, NMI + 1}
    BY <2>3, <1>1, WrittenType
  <2>5. kept' \in [Stored -> Word]  BY <2>1, <1>1
  <2> QED  BY <2>1, <2>4, <2>5, <1>1, DoneValues
<1>5. CASE ExecRfe
  <2>1. phase' = "done" /\ d' = GetSpr(spr, cpu.sr, "EPCR")
        /\ UNCHANGED <<x, y>> /\ UNCHANGED <<acc, kept>>
    BY <1>5 DEF ExecRfe, Executes
  <2>2. spr' = spr  BY <1>5, RfeStep
  <2>3. d' \in Word  BY <2>1, <1>2
  <2> QED  BY <2>1, <2>2, <2>3, <1>1, DoneValues
<1> QED  BY <1>3, <1>4, <1>5

LEMMA NextValues ==
  ASSUME InsnInv, Values, [Next]_vars
  PROVE  Values'
<1>1. ASSUME NEW w \in Words(setup.unit), CompileIllegal(w)  PROVE Values'
  BY <1>1 DEF CompileIllegal, Values
<1>2. ASSUME NEW w \in Words(setup.unit), CompileCustom(w)  PROVE Values'
  BY <1>2 DEF CompileCustom, Values
<1>3. ASSUME NEW w \in Words(setup.unit), Compile(w)  PROVE Values'
  BY <1>3, CompileValues
<1>4. CASE ExecInteger  BY <1>4, IntegerValues
<1>5. CASE ExecMac  BY <1>5, MacValues
<1>6. CASE ExecMemory  BY <1>6, MemoryValues
<1>7. CASE ExecMfspr \/ ExecMtspr \/ ExecRfe  BY <1>7, MoveValues
<1>8. CASE ExecFp \/ ExecFpOther
  BY <1>8 DEF ExecFp, ExecFpOther, Executes, Values
<1>9. CASE Killed  BY <1>9 DEF Killed, Values
<1>10. CASE Retire  BY <1>10, RetireValues
<1>11. CASE UNCHANGED vars  BY <1>11 DEF vars, code, Values
<1> QED
  BY <1>1, <1>2, <1>3, <1>4, <1>5, <1>6, <1>7, <1>8, <1>9, <1>10, <1>11 DEF Next, Execute

\* Whatever the programs and the operands, every instruction leaves words in
\* the registers and in the special purpose registers, the interrupts that
\* cannot be masked stay unmasked, and the status, the request and the flags
\* are ones the code knows (execute.cpp, spr.cpp:160-458, or1k.cpp:341-414).
THEOREM InsnTypeCorrect == Spec => []InsnTypeOK
<1>1. ASSUME InsnInv, Values  PROVE InsnTypeOK
  <2>1. /\ setup \in Setups /\ phase \in {"idle", "execute", "done", "thrown", "killed"}
        /\ cpu \in Cpus /\ cpu.aesr \subseteq setup.aecr
    BY <1>1 DEF InsnInv
  <2>2. {cpu.sr, cpu.esr} \subseteq [DOMAIN SrInit(setup) -> BOOLEAN]
    <3>1. cpu.sr \in Statuses /\ cpu.esr \in Statuses  BY <2>1 DEF Cpus
    <3>2. Statuses \subseteq [DOMAIN SrInit(setup) -> BOOLEAN]  BY DEF Statuses, SrInit
    <3> QED  BY <3>1, <3>2
  <2>3. cpu.epc \in {None, "here", "prev", "next"} /\ cpu.jump \in {None, "now"}
    BY <2>1 DEF Cpus
  <2>4. mac \in [hi : Word, lo : Word] /\ acc.terms \in 0..MaxTerms
    <3>1. mac \in [hi : Word, lo : Word] /\ acc.terms \in Nat
      BY <1>1 DEF InsnInv, Accumulated
    <3>2. acc.terms <= MaxTerms  BY <1>1 DEF Values
    <3>3. MaxTerms \in Nat  BY InsnAssumption
    <3> QED  BY <3>1, <3>2, <3>3
  <2>5. /\ dreq \in [write : BOOLEAN, excl : BOOLEAN, size : {1, 2, 4}]
        /\ fp.flags \cup fp.host \cup fp.raised \subseteq FpFlagNames
    BY <1>1 DEF InsnInv, Beside
  <2>6. x \in Word /\ y \in Word /\ d \in Word
        /\ {spr, kept} \subseteq [Stored -> Word] /\ spr.PICMR \in {NMI, NMI + 1}
    BY <1>1 DEF Values
  <2> QED  BY <2>1, <2>2, <2>3, <2>4, <2>5, <2>6 DEF InsnTypeOK
<1>2. Init => InsnInv /\ Values  BY InitInv, InitValues
<1>3. (InsnInv /\ Values) /\ [Next]_vars => (InsnInv /\ Values)'  BY NextInv, NextValues
<1> QED  BY <1>1, <1>2, <1>3, PTL DEF Spec
-----------------------------------------------------------------------------
(* What the disassembler prints                                             *)

\* the register that an operand is, if it is one
One(o) == IF IsReg(o) THEN <<o>> ELSE <<>>

LEMMA AroundNothing ==
  ASSUME NEW S, NEW s \in Seq(S)
  PROVE  s \o <<>> = s /\ <<>> \o s = s
OBVIOUS

Joined(s1, s2, s3) == s1 \o s2 \o s3

LEMMA NamedOf ==
  ASSUME NEW o1, NEW o2, NEW o3
  PROVE  /\ Registers(<<o1>>) = Joined(One(o1), <<>>, <<>>)
         /\ Registers(<<o1, o2>>) = Joined(One(o1), One(o2), <<>>)
         /\ Registers(<<o1, o2, o3>>) = Joined(One(o1), One(o2), One(o3))
<1>1. /\ DOMAIN <<o1>> = {1} /\ DOMAIN <<o1, o2>> = {1, 2} /\ DOMAIN <<o1, o2, o3>> = {1, 2, 3}
  BY SMT
<1>2. Registers(<<o1>>) = Joined(One(o1), <<>>, <<>>)
  BY <1>1 DEF Registers, One, Joined
<1>3. Registers(<<o1, o2>>) = Joined(One(o1), One(o2), <<>>)
  BY <1>1 DEF Registers, One, Joined
<1>4. Registers(<<o1, o2, o3>>) = Joined(One(o1), One(o2), One(o3))
  BY <1>1 DEF Registers, One, Joined
<1> QED  BY <1>2, <1>3, <1>4

\* where what is printed or left out is no register, the others keep their order
LEMMA Order ==
  ASSUME NEW o1, NEW o2
  PROVE  LET r1 == One(o1)
             r2 == One(o2)
         IN  /\ Joined(<<>>, <<>>, r1) = Joined(r1, <<>>, <<>>)
             /\ Joined(<<>>, r1, <<>>) = Joined(r1, <<>>, <<>>)
             /\ Joined(<<>>, r1, r2) = Joined(r1, r2, <<>>)
             /\ Joined(r1, <<>>, r2) = Joined(r1, r2, <<>>)
<1> DEFINE r1 == One(o1)
           r2 == One(o2)
<1>1. r1 \in Seq({o1, o2}) /\ r2 \in Seq({o1, o2})
  <2>1. <<>> \in Seq({o1, o2}) /\ <<o1>> \in Seq({o1, o2}) /\ <<o2>> \in Seq({o1, o2})
    OBVIOUS
  <2> QED  BY <2>1 DEF One
<1> HIDE DEF r1, r2
<1>2. r1 \o r2 \in Seq({o1, o2})  BY <1>1
<1>3. <<>> \in Seq({o1, o2}) /\ <<>> \o <<>> = <<>>  OBVIOUS
<1>4. /\ r1 \o <<>> = r1 /\ <<>> \o r1 = r1
      /\ (r1 \o r2) \o <<>> = r1 \o r2
  BY <1>1, <1>2, AroundNothing
<1>5. /\ Joined(<<>>, <<>>, r1) = r1 /\ Joined(r1, <<>>, <<>>) = r1
      /\ Joined(<<>>, r1, <<>>) = r1
  BY <1>3, <1>4 DEF Joined
<1>6. /\ Joined(<<>>, r1, r2) = r1 \o r2 /\ Joined(r1, r2, <<>>) = r1 \o r2
      /\ Joined(r1, <<>>, r2) = r1 \o r2
  BY <1>4 DEF Joined
<1> QED  BY <1>5, <1>6 DEF r1, r2

LEMMA NoRegister ==
  /\ One(Null) = <<>> /\ One(Imm) = <<>> /\ \A n : One(Printed(n)) = <<>>
  /\ Null.kind # "value" /\ Imm.kind # "value" /\ \A n : Reg(n).kind # "value"
  /\ \A n : Printed(n).kind = "value" /\ Printed(n).n = n
BY DEF One, IsReg, Null, Imm, Printed, Reg

\* the immediates that are printed are those of the decoder
LEMMA ImmediatesAgree ==
  ASSUME NEW w \in InsnWords
  PROVE  /\ ImmI(w) = Printed(FieldI(w)) /\ ImmI2(w) = Printed(SplitI(w))
         /\ ImmK(w) = Printed(FieldK(w)) /\ ImmK2(w) = Printed(SplitK(w))
         /\ ImmL(w) = Printed(Bits(w, 5, 0))
         /\ \E n \in Int : ImmN(w) = Printed(n) /\ FieldN(w) = 4 * n
<1>1. PICK n \in Nat : n = Low26(w)  BY Low26Type
<1>2. PICK p \in Nat \ {0} : p = 2^(15 + 1) /\ p = 2^(15 - 0 + 1)  BY SMT
<1>3. PICK h \in Nat \ {0} : h = 2^25 /\ 2^(25 + 1) = 2 * h /\ 2^(25 - 0 + 1) = 2 * h
                             /\ 2^27 = 4 * h /\ 2^(27 + 1) = 8 * h
  BY SMT
<1>4. 2^0 = 1 /\ n \div 1 = n  BY SMT
<1>5. FieldI(w) = SignExtend(Low26(w), 15)
  <2>1. FieldK(w) = n % p  BY <1>1, <1>2, <1>4 DEF FieldK, Bits
  <2>2. (n % p) % p = n % p  BY SMT, <1>2
  <2>3. FieldK(w) % 2^(15 + 1) = n % 2^(15 + 1)  BY <2>1, <2>2, <1>2
  <2> QED  BY <2>3, <1>1 DEF FieldI, SignExtend
<1>6. PICK m \in 0..(2 * h - 1) : m = n % (2 * h)
  <2>1. 2 * h \in Nat \ {0}  BY <1>3
  <2> QED  BY <2>1, DivMod
<1>7. SignExtend(n, 25) = IF m >= h THEN m - 2 * h ELSE m
  BY <1>3, <1>6 DEF SignExtend
<1>8. FieldN(w) = IF 4 * m >= 4 * h THEN 4 * m - 8 * h ELSE 4 * m
  <2>1. Bits(w, 25, 0) = m  BY <1>1, <1>3, <1>4, <1>6 DEF Bits
  <2>2. 8 * h \in Nat \ {0} /\ 4 * m \in 0..(8 * h - 1)  BY <1>3, <1>6
  <2>3. (4 * m) % (8 * h) = 4 * m  BY <2>2, Small
  <2> QED  BY <2>1, <2>3, <1>3 DEF FieldN, SignExtend
<1>9. SignExtend(n, 25) \in Int /\ FieldN(w) = 4 * SignExtend(n, 25)
  <2>1. CASE m >= h
    <3>1. 4 * m >= 4 * h /\ 4 * m - 8 * h = 4 * (m - 2 * h) /\ m - 2 * h \in Int
      BY <2>1, <1>3, <1>6
    <3> QED  BY <3>1, <2>1, <1>7, <1>8
  <2>2. CASE ~(m >= h)
    <3>1. ~(4 * m >= 4 * h) /\ m \in Int  BY <2>2, <1>3, <1>6
    <3> QED  BY <3>1, <2>2, <1>7, <1>8
  <2> QED  BY <2>1, <2>2
<1>10. ImmN(w) = Printed(SignExtend(n, 25))  BY <1>1 DEF ImmN
<1>11. /\ ImmI(w) = Printed(FieldI(w)) /\ ImmI2(w) = Printed(SplitI(w))
       /\ ImmK(w) = Printed(FieldK(w)) /\ ImmK2(w) = Printed(SplitK(w))
       /\ ImmL(w) = Printed(Bits(w, 5, 0))
  BY <1>5 DEF ImmI, ImmI2, ImmK, ImmK2, ImmL, SplitI, FieldK
<1> QED  BY <1>9, <1>10, <1>11

\* which operands are printed: the lists of the disassembler do not overlap
LEMMA Listings ==
  ASSUME NEW op, NEW w
  PROVE  /\ op \in MoveOps => Listed(op, w) =
              CASE op = "l.nop"   -> <<ImmK(w)>>
                [] op = "l.mfspr" -> <<RegD(w), RegA(w), ImmK(w)>>
                [] op = "l.mtspr" -> <<RegA(w), RegB(w), ImmK2(w)>>
                [] op = "l.movhi" -> <<RegD(w), ImmK(w)>>
         /\ op \in {"l.bf", "l.bnf", "l.j", "l.jal"} => Listed(op, w) = <<ImmN(w)>>
         /\ op \in {"l.jr", "l.jalr"} => Listed(op, w) = <<RegB(w)>>
         /\ op \in LoadOps \ {"l.lwa"} => Listed(op, w) = <<RegD(w), ImmI(w), RegA(w)>>
         /\ op \in StoreOps \ {"l.swa"} => Listed(op, w) = <<ImmI2(w), RegA(w), RegB(w)>>
         /\ op \in AluOps \cup FpArithmetic => Listed(op, w) = <<RegD(w), RegA(w), RegB(w)>>
         /\ op \in ExtOps \cup FindOps \cup FpConvertOps => Listed(op, w) = <<RegD(w), RegA(w)>>
         /\ op \in SignedImmOps \ {"l.muli"} => Listed(op, w) = <<RegD(w), RegA(w), ImmI(w)>>
         /\ op \in UnsignedImmOps => Listed(op, w) = <<RegD(w), RegA(w), ImmK(w)>>
         /\ op \in ShiftImmOps => Listed(op, w) = <<RegD(w), RegA(w), ImmL(w)>>
         /\ op \in CompareOps \cup FpCompares => Listed(op, w) = <<RegA(w), RegB(w)>>
         /\ op \in CompareImmOps => Listed(op, w) = <<RegA(w), ImmI(w)>>
         /\ op \in {"l.lwa", "l.swa"} \cup MacOps \cup SystemOps => Listed(op, w) = <<>>
<1> USE CompareSets, FpSets
    DEF Listed, ThreeRegs, TwoRegs, MoveOps, LoadOps, StoreOps, ExtOps, FindOps, AluOps,
        DoubleOps, ShiftImmOps, MacOps, SystemOps, FpCompares, FpArithmetic, FpConvertOps,
        SignedImmOps, UnsignedImmOps
<1>1. ASSUME op \in MoveOps
      PROVE  Listed(op, w) = CASE op = "l.nop"   -> <<ImmK(w)>>
                               [] op = "l.mfspr" -> <<RegD(w), RegA(w), ImmK(w)>>
                               [] op = "l.mtspr" -> <<RegA(w), RegB(w), ImmK2(w)>>
                               [] op = "l.movhi" -> <<RegD(w), ImmK(w)>>
  <2>1. CASE op = "l.nop"    BY SMTT(60), <2>1
  <2>2. CASE op = "l.mfspr"  BY SMTT(60), <2>2
  <2>3. CASE op = "l.mtspr"  BY SMTT(60), <2>3
  <2>4. CASE op = "l.movhi"  BY SMTT(60), <2>4
  <2> QED  BY <1>1, <2>1, <2>2, <2>3, <2>4 DEF MoveOps
<1>2. ASSUME op \in {"l.bf", "l.bnf", "l.j", "l.jal"}  PROVE Listed(op, w) = <<ImmN(w)>>
  BY SMTT(60), <1>2
<1>3. ASSUME op \in {"l.jr", "l.jalr"}  PROVE Listed(op, w) = <<RegB(w)>>
  BY SMTT(60), <1>3
<1>4. ASSUME op \in LoadOps \ {"l.lwa"}  PROVE Listed(op, w) = <<RegD(w), ImmI(w), RegA(w)>>
  BY SMTT(60), <1>4
<1>5. ASSUME op \in StoreOps \ {"l.swa"}  PROVE Listed(op, w) = <<ImmI2(w), RegA(w), RegB(w)>>
  BY SMTT(60), <1>5
<1>6. ASSUME op \in AluOps \cup FpArithmetic
      PROVE  Listed(op, w) = <<RegD(w), RegA(w), RegB(w)>>
  BY SMTT(60), <1>6
<1>7. ASSUME op \in ExtOps \cup FindOps \cup FpConvertOps
      PROVE  Listed(op, w) = <<RegD(w), RegA(w)>>
  BY SMTT(60), <1>7
<1>8. ASSUME op \in SignedImmOps \ {"l.muli"}
      PROVE  Listed(op, w) = <<RegD(w), RegA(w), ImmI(w)>>
  BY SMTT(60), <1>8
<1>9. ASSUME op \in UnsignedImmOps  PROVE Listed(op, w) = <<RegD(w), RegA(w), ImmK(w)>>
  BY SMTT(60), <1>9
<1>10. ASSUME op \in ShiftImmOps  PROVE Listed(op, w) = <<RegD(w), RegA(w), ImmL(w)>>
  BY SMTT(60), <1>10
<1>11. ASSUME op \in CompareOps \cup FpCompares  PROVE Listed(op, w) = <<RegA(w), RegB(w)>>
  BY SMTT(60), <1>11
<1>12. ASSUME op \in CompareImmOps  PROVE Listed(op, w) = <<RegA(w), ImmI(w)>>
  BY SMTT(60), <1>12
<1>13. ASSUME op \in {"l.lwa", "l.swa"} \cup MacOps \cup SystemOps  PROVE Listed(op, w) = <<>>
  BY SMTT(60), <1>13
<1> HIDE CompareSets, FpSets
    DEF Listed, ThreeRegs, TwoRegs, MoveOps, LoadOps, StoreOps, ExtOps, FindOps, AluOps,
        DoubleOps, ShiftImmOps, MacOps, SystemOps, FpCompares, FpArithmetic, FpConvertOps,
        SignedImmOps, UnsignedImmOps
<1> QED
  BY <1>1, <1>2, <1>3, <1>4, <1>5, <1>6, <1>7, <1>8, <1>9, <1>10, <1>11, <1>12, <1>13

\* what a function finds that the listing must tell, and the number it stands for
Finds(c) == <<c.dest, IF c.exec \in {"jump_rel", "jump_abs"} THEN Null ELSE c.src1, c.src2>>
Means(op, n) ==
  CASE op = "l.movhi" -> SignExtend(n, 15) * 2^16
    [] op \in {"l.bf", "l.bnf", "l.j", "l.jal"} -> 4 * n
    [] OTHER -> n

\* ListingTruthful, of any instruction and any list
Truthful(op, c, list) ==
  /\ c.op = op
  /\ Len(list) <= 3
  /\ op # "l.nop" => Registers(list) = Registers(Finds(c))
  /\ \A i \in DOMAIN list : list[i].kind = "value" => c.imm = Means(op, list[i].n)

Fits(op, c, o) == o.kind = "value" => c.imm = Means(op, o.n)

LEMMA TruthfulList ==
  ASSUME NEW op, NEW c, NEW o1, NEW o2, NEW o3,
         NEW list \in {<<o1>>, <<o1, o2>>, <<o1, o2, o3>>},
         c.op = op, op # "l.nop" => Registers(list) = Registers(Finds(c)),
         Fits(op, c, o1) /\ Fits(op, c, o2) /\ Fits(op, c, o3)
  PROVE  Truthful(op, c, list)
<1>1. Len(list) <= 3 /\ \A i \in DOMAIN list : list[i] \in {o1, o2, o3}
  <2>1. CASE list = <<o1>>  BY <2>1
  <2>2. CASE list = <<o1, o2>>  BY <2>2
  <2>3. CASE list = <<o1, o2, o3>>  BY <2>3
  <2> QED  BY <2>1, <2>2, <2>3
<1>2. \A o \in {o1, o2, o3} : Fits(op, c, o)  OBVIOUS
<1> QED  BY <1>1, <1>2 DEF Truthful, Fits

\* the immediate between or before two registers
LEMMA SameAround ==
  ASSUME NEW o1, NEW o2, NEW n
  PROVE  /\ Registers(<<o1, Printed(n), o2>>) = Registers(<<o1, o2, Null>>)
         /\ Registers(<<Printed(n), o1, o2>>) = Registers(<<Null, o1, o2>>)
<1> DEFINE v == Printed(n)
           none == <<>>
           r1 == One(o1)
           r2 == One(o2)
<1>1. One(v) = none /\ One(Null) = none  BY NoRegister
<1>2. \A p, q, t : Registers(<<p, q, t>>) = Joined(One(p), One(q), One(t))
  BY Zenon, NamedOf
<1>3. Joined(r1, none, r2) = Joined(r1, r2, none)  BY Zenon, Order
<1> HIDE DEF v, none
<1>4. Registers(<<o1, v, o2>>) = Registers(<<o1, o2, Null>>)  BY <1>1, <1>2, <1>3
<1>5. Registers(<<v, o1, o2>>) = Registers(<<Null, o1, o2>>)  BY <1>1, <1>2
<1> QED  BY <1>4, <1>5 DEF v

\* the immediate behind the registers, or no immediate
LEMMA SameOrder ==
  ASSUME NEW o1, NEW o2, NEW n
  PROVE  LET v == Printed(n)
         IN  /\ Registers(<<v>>) = Registers(<<Null, Null, Null>>)
             /\ Registers(<<v>>) = Registers(<<Null, Null, Imm>>)
             /\ Registers(<<o1>>) = Registers(<<Null, Null, o1>>)
             /\ Registers(<<o1, v>>) = Registers(<<o1, Null, Null>>)
             /\ Registers(<<o1, v>>) = Registers(<<Null, o1, Imm>>)
             /\ Registers(<<o1, o2>>) = Registers(<<o1, o2, Null>>)
             /\ Registers(<<o1, o2>>) = Registers(<<Null, o1, o2>>)
             /\ Registers(<<o1, o2, v>>) = Registers(<<o1, o2, Imm>>)
<1> DEFINE v == Printed(n)
           none == <<>>
           r1 == One(o1)
           r2 == One(o2)
<1>1. One(v) = none /\ One(Null) = none /\ One(Imm) = none  BY NoRegister
<1>2. /\ \A p : Registers(<<p>>) = Joined(One(p), none, none)
      /\ \A p, q : Registers(<<p, q>>) = Joined(One(p), One(q), none)
      /\ \A p, q, t : Registers(<<p, q, t>>) = Joined(One(p), One(q), One(t))
  BY Zenon, NamedOf
<1>3. /\ Joined(none, none, r1) = Joined(r1, none, none)
      /\ Joined(none, r1, none) = Joined(r1, none, none)
      /\ Joined(none, r1, r2) = Joined(r1, r2, none)
  BY Zenon, Order
<1> HIDE DEF v, none
<1>4. /\ Registers(<<v>>) = Registers(<<Null, Null, Null>>)
      /\ Registers(<<v>>) = Registers(<<Null, Null, Imm>>)
      /\ Registers(<<o1, v>>) = Registers(<<o1, Null, Null>>)
      /\ Registers(<<o1, o2>>) = Registers(<<o1, o2, Null>>)
      /\ Registers(<<o1, o2, v>>) = Registers(<<o1, o2, Imm>>)
  BY <1>1, <1>2
<1>5. Registers(<<o1>>) = Registers(<<Null, Null, o1>>)  BY <1>1, <1>2, <1>3
<1>6. Registers(<<o1, v>>) = Registers(<<Null, o1, Imm>>)  BY <1>1, <1>2, <1>3
<1>7. Registers(<<o1, o2>>) = Registers(<<Null, o1, o2>>)  BY <1>1, <1>2, <1>3
<1> QED  BY <1>4, <1>5, <1>6, <1>7 DEF v

\* registers are printed by their number, most immediates as they are
LEMMA Fitting ==
  ASSUME NEW op, NEW c
  PROVE  /\ \A n : Fits(op, c, Reg(n))
         /\ op \notin {"l.movhi", "l.bf", "l.bnf", "l.j", "l.jal"} => Fits(op, c, Printed(c.imm))
         /\ op = "l.movhi" =>
              \A n : c.imm = SignExtend(n, 15) * 2^16 => Fits(op, c, Printed(n))
         /\ op \in {"l.bf", "l.bnf", "l.j", "l.jal"} =>
              \A n : c.imm = 4 * n => Fits(op, c, Printed(n))
<1>1. \A n : Fits(op, c, Reg(n))  BY NoRegister DEF Fits
<1>2. ASSUME op \notin {"l.movhi", "l.bf", "l.bnf", "l.j", "l.jal"}
      PROVE  Fits(op, c, Printed(c.imm))
  BY <1>2, NoRegister DEF Fits, Means
<1>3. ASSUME op = "l.movhi", NEW n, c.imm = SignExtend(n, 15) * 2^16
      PROVE  Fits(op, c, Printed(n))
  <2>1. Means(op, n) = SignExtend(n, 15) * 2^16  BY <1>3 DEF Means
  <2> QED  BY <2>1, <1>3, NoRegister DEF Fits
<1>4. ASSUME op \in {"l.bf", "l.bnf", "l.j", "l.jal"}, NEW n, c.imm = 4 * n
      PROVE  Fits(op, c, Printed(n))
  <2>1. Means(op, n) = 4 * n  BY SMT, <1>4 DEF Means
  <2> QED  BY <2>1, <1>4, NoRegister DEF Fits
<1> QED  BY <1>1, <1>2, <1>3, <1>4

\* a list of registers
LEMMA TruthfulRegs ==
  ASSUME NEW op, NEW c, c.op = op, NEW k, NEW m, NEW n
  PROVE  /\ Finds(c) \in {<<Reg(m), Reg(n), Null>>, <<Null, Reg(m), Reg(n)>>} =>
              Truthful(op, c, <<Reg(m), Reg(n)>>)
         /\ Finds(c) = <<Reg(k), Reg(m), Reg(n)>> =>
              Truthful(op, c, <<Reg(k), Reg(m), Reg(n)>>)
         /\ Finds(c) = <<Null, Null, Reg(m)>> => Truthful(op, c, <<Reg(m)>>)
<1> DEFINE o1 == Reg(m)  o2 == Reg(n)  o0 == Reg(k)
<1>1. Fits(op, c, o1) /\ Fits(op, c, o2) /\ Fits(op, c, o0)  BY Fitting
<1>2. Registers(<<o1, o2>>) = Registers(<<o1, o2, Null>>)
      /\ Registers(<<o1, o2>>) = Registers(<<Null, o1, o2>>)
      /\ Registers(<<o1>>) = Registers(<<Null, Null, o1>>)
  BY SameOrder
<1> HIDE DEF o0, o1, o2
<1>3. ASSUME Finds(c) \in {<<o1, o2, Null>>, <<Null, o1, o2>>}
      PROVE  Truthful(op, c, <<o1, o2>>)
  <2> DEFINE list == <<o1, o2>>
  <2>1. Registers(list) = Registers(Finds(c))  BY <1>2, <1>3
  <2>2. list \in {<<o1>>, <<o1, o2>>, <<o1, o2, o2>>}  OBVIOUS
  <2> HIDE DEF list
  <2>3. Truthful(op, c, list)  BY <1>1, <2>1, <2>2, TruthfulList
  <2> QED  BY <2>3 DEF list
<1>4. ASSUME Finds(c) = <<o0, o1, o2>>
      PROVE  Truthful(op, c, <<o0, o1, o2>>)
  <2> DEFINE list == <<o0, o1, o2>>
  <2>1. Registers(list) = Registers(Finds(c))  BY <1>4
  <2>2. list \in {<<o0>>, <<o0, o1>>, <<o0, o1, o2>>}  OBVIOUS
  <2> HIDE DEF list
  <2>3. Truthful(op, c, list)  BY <1>1, <2>1, <2>2, TruthfulList
  <2> QED  BY <2>3 DEF list
<1>5. ASSUME Finds(c) = <<Null, Null, o1>>
      PROVE  Truthful(op, c, <<o1>>)
  <2> DEFINE list == <<o1>>
  <2>1. Registers(list) = Registers(Finds(c))  BY <1>2, <1>5
  <2>2. list \in {<<o1>>, <<o1, o2>>, <<o1, o2, o2>>}  OBVIOUS
  <2> HIDE DEF list
  <2>3. Truthful(op, c, list)  BY <1>1, <2>1, <2>2, TruthfulList
  <2> QED  BY <2>3 DEF list
<1> QED  BY <1>3, <1>4, <1>5 DEF o0, o1, o2

\* a list with the immediate as it is, before, between or behind the registers
LEMMA TruthfulPlain ==
  ASSUME NEW op, op \notin {"l.movhi", "l.bf", "l.bnf", "l.j", "l.jal"},
         NEW c, c.op = op, NEW m, NEW n
  PROVE  LET v == Printed(c.imm)
         IN  /\ Finds(c) = <<Reg(m), Reg(n), Imm>> => Truthful(op, c, <<Reg(m), Reg(n), v>>)
             /\ Finds(c) = <<Reg(m), Reg(n), Null>> => Truthful(op, c, <<Reg(m), v, Reg(n)>>)
             /\ Finds(c) = <<Null, Reg(m), Reg(n)>> => Truthful(op, c, <<v, Reg(m), Reg(n)>>)
             /\ Finds(c) = <<Null, Reg(m), Imm>> => Truthful(op, c, <<Reg(m), v>>)
<1> DEFINE o1 == Reg(m)  o2 == Reg(n)  v == Printed(c.imm)
<1>1. Fits(op, c, o1) /\ Fits(op, c, o2) /\ Fits(op, c, v)  BY Fitting
<1>2. /\ Registers(<<o1, o2, v>>) = Registers(<<o1, o2, Imm>>)
      /\ Registers(<<o1, v, o2>>) = Registers(<<o1, o2, Null>>)
      /\ Registers(<<v, o1, o2>>) = Registers(<<Null, o1, o2>>)
      /\ Registers(<<o1, v>>) = Registers(<<Null, o1, Imm>>)
  <2>1. Registers(<<o1, o2, v>>) = Registers(<<o1, o2, Imm>>)  BY Zenon, SameOrder
  <2>2. Registers(<<o1, v, o2>>) = Registers(<<o1, o2, Null>>)  BY Zenon, SameAround
  <2>3. Registers(<<v, o1, o2>>) = Registers(<<Null, o1, o2>>)  BY Zenon, SameAround
  <2>4. Registers(<<o1, v>>) = Registers(<<Null, o1, Imm>>)  BY Zenon, SameOrder
  <2> QED  BY <2>1, <2>2, <2>3, <2>4
<1> HIDE DEF o1, o2, v
<1>3. ASSUME Finds(c) = <<o1, o2, Imm>>  PROVE Truthful(op, c, <<o1, o2, v>>)
  <2> DEFINE list == <<o1, o2, v>>
  <2>1. Registers(list) = Registers(Finds(c))  BY <1>2, <1>3
  <2>2. list \in {<<o1>>, <<o1, o2>>, <<o1, o2, v>>}  OBVIOUS
  <2> HIDE DEF list
  <2>3. Truthful(op, c, list)  BY <1>1, <2>1, <2>2, TruthfulList
  <2> QED  BY <2>3 DEF list
<1>4. ASSUME Finds(c) = <<o1, o2, Null>>  PROVE Truthful(op, c, <<o1, v, o2>>)
  <2> DEFINE list == <<o1, v, o2>>
  <2>1. Registers(list) = Registers(Finds(c))  BY <1>2, <1>4
  <2>2. list \in {<<o1>>, <<o1, v>>, <<o1, v, o2>>}  OBVIOUS
  <2> HIDE DEF list
  <2>3. Truthful(op, c, list)  BY <1>1, <2>1, <2>2, TruthfulList
  <2> QED  BY <2>3 DEF list
<1>5. ASSUME Finds(c) = <<Null, o1, o2>>  PROVE Truthful(op, c, <<v, o1, o2>>)
  <2> DEFINE list == <<v, o1, o2>>
  <2>1. Registers(list) = Registers(Finds(c))  BY <1>2, <1>5
  <2>2. list \in {<<v>>, <<v, o1>>, <<v, o1, o2>>}  OBVIOUS
  <2> HIDE DEF list
  <2>3. Truthful(op, c, list)  BY <1>1, <2>1, <2>2, TruthfulList
  <2> QED  BY <2>3 DEF list
<1>6. ASSUME Finds(c) = <<Null, o1, Imm>>  PROVE Truthful(op, c, <<o1, v>>)
  <2> DEFINE list == <<o1, v>>
  <2>1. Registers(list) = Registers(Finds(c))  BY <1>2, <1>6
  <2>2. list \in {<<o1>>, <<o1, v>>, <<o1, v, o2>>}  OBVIOUS
  <2> HIDE DEF list
  <2>3. Truthful(op, c, list)  BY <1>1, <2>1, <2>2, TruthfulList
  <2> QED  BY <2>3 DEF list
<1> QED  BY <1>3, <1>4, <1>5, <1>6 DEF o1, o2, v

LEMMA FoundIn ==
  ASSUME NEW op, NEW dest, NEW src1, NEW src2, NEW imm, NEW exec
  PROVE  LET c == Ci(op, dest, src1, src2, imm, exec)
         IN  /\ c.op = op /\ c.imm = imm
             /\ exec \notin {"jump_rel", "jump_abs"} => Finds(c) = <<dest, src1, src2>>
             /\ exec \in {"jump_rel", "jump_abs"} => Finds(c) = <<dest, Null, src2>>
<1> DEFINE c == Ci(op, dest, src1, src2, imm, exec)
<1>1. c.op = op /\ c.imm = imm /\ c.exec = exec /\ c.dest = dest /\ c.src1 = src1 /\ c.src2 = src2
  BY DEF Ci
<1> HIDE DEF c
<1>2. ASSUME exec \notin {"jump_rel", "jump_abs"}  PROVE Finds(c) = <<dest, src1, src2>>
  BY <1>1, <1>2 DEF Finds
<1>3. ASSUME exec \in {"jump_rel", "jump_abs"}  PROVE Finds(c) = <<dest, Null, src2>>
  BY <1>1, <1>3 DEF Finds
<1> QED  BY <1>1, <1>2, <1>3 DEF c

LEMMA TruthfulMove ==
  ASSUME NEW w \in InsnWords, NEW op \in MoveOps
  PROVE  Truthful(op, Decoded(op, w), Listed(op, w))
<1> DEFINE c == Decoded(op, w)
           list == Listed(op, w)
<1>0. c = DecodeMove(op, w)  BY Handlers
<1> USE DEF RegD, RegA, RegB
<1>1. CASE op = "l.nop"
  <2> DEFINE v == Printed(FieldK(w))
  <2>1. list = <<v>>  BY <1>1, Listings, ImmediatesAgree DEF MoveOps
  <2>2. c = Ci(op, Null, Reg(3), Null, FieldK(w), op)  BY <1>0, <1>1 DEF DecodeMove
  <2>3. c.op = op /\ c.imm = FieldK(w)  BY <2>2, FoundIn
  <2>4. Fits(op, c, v)  BY <2>3, <1>1, Fitting
  <2> HIDE DEF c, list, v
  <2>5. list \in {<<v>>, <<v, v>>, <<v, v, v>>}  BY <2>1
  <2>6. Truthful(op, c, list)  BY <2>3, <2>4, <2>5, <1>1, TruthfulList
  <2> QED  BY <2>6 DEF c, list
<1>2. CASE op = "l.mfspr"
  <2>1. list = <<Reg(w.d), Reg(w.a), Printed(FieldK(w))>>
    BY <1>2, Listings, ImmediatesAgree DEF MoveOps
  <2>2. c = Ci(op, Reg(w.d), Reg(w.a), Imm, FieldK(w), op)  BY <1>0, <1>2 DEF DecodeMove
  <2> HIDE DEF c, list
  <2>3. c.op = op /\ c.imm = FieldK(w) /\ Finds(c) = <<Reg(w.d), Reg(w.a), Imm>>
    BY <2>2, <1>2, FoundIn
  <2>4. Truthful(op, c, list)  BY <2>1, <2>3, <1>2, TruthfulPlain
  <2> QED  BY <2>4 DEF c, list
<1>3. CASE op = "l.mtspr"
  <2>1. list = <<Reg(w.a), Reg(w.b), Printed(SplitK(w))>>
    BY <1>3, Listings, ImmediatesAgree DEF MoveOps
  <2>2. c = Ci(op, Reg(w.a), Reg(w.b), Imm, SplitK(w), op)  BY <1>0, <1>3 DEF DecodeMove
  <2> HIDE DEF c, list
  <2>3. c.op = op /\ c.imm = SplitK(w) /\ Finds(c) = <<Reg(w.a), Reg(w.b), Imm>>
    BY <2>2, <1>3, FoundIn
  <2>4. Truthful(op, c, list)  BY <2>1, <2>3, <1>3, TruthfulPlain
  <2> QED  BY <2>4 DEF c, list
<1>4. CASE op = "l.movhi"
  <2> DEFINE o1 == Reg(w.d)  v == Printed(FieldK(w))
             imm == SignExtend(FieldK(w), 15) * 2^16
  <2>1. list = <<o1, v>>  BY <1>4, Listings, ImmediatesAgree DEF MoveOps
  <2>2. c = Ci(op, o1, Null, Null, imm, op)  BY <1>0, <1>4 DEF DecodeMove
  <2> HIDE DEF c, list
  <2>3. c.op = op /\ c.imm = imm /\ Finds(c) = <<o1, Null, Null>>
    BY <2>2, <1>4, FoundIn
  <2>4. Fits(op, c, o1) /\ Fits(op, c, v)  BY <2>3, <1>4, Fitting
  <2>5. Registers(<<o1, v>>) = Registers(<<o1, Null, Null>>)  BY Zenon, SameOrder
  <2> HIDE DEF o1, v, imm
  <2>6. list \in {<<o1>>, <<o1, v>>, <<o1, v, v>>}  BY <2>1
  <2>7. Registers(list) = Registers(Finds(c))  BY <2>1, <2>3, <2>5
  <2>8. Truthful(op, c, list)  BY <2>3, <2>4, <2>6, <2>7, TruthfulList
  <2> QED  BY <2>8 DEF c, list
<1> QED  BY <1>1, <1>2, <1>3, <1>4 DEF MoveOps

LEMMA TruthfulJump ==
  ASSUME NEW w \in InsnWords, NEW op \in JumpOps
  PROVE  Truthful(op, Decoded(op, w), Listed(op, w))
<1> DEFINE c == Decoded(op, w)
           list == Listed(op, w)
           link == IF op \in {"l.jal", "l.jalr"} THEN Reg(9) ELSE Null
<1>0. c = DecodeJump(op, w)  BY Handlers
<1>1. CASE op \in {"l.bf", "l.bnf", "l.j", "l.jal"}
  <2>1. PICK n \in Int : ImmN(w) = Printed(n) /\ FieldN(w) = 4 * n  BY ImmediatesAgree
  <2> DEFINE v == Printed(n)
  <2>2. list = <<v>>  BY <1>1, <2>1, Listings
  <2>3. \/ c = Ci(op, Null, Null, Null, FieldN(w), op)
        \/ c = Ci(op, Null, link, Imm, FieldN(w), "jump_rel")
    BY SMT, <1>0, <1>1 DEF DecodeJump
  <2>4. op \notin {"jump_rel", "jump_abs"}  BY <1>1
  <2> HIDE DEF c, list, link
  <2>5. c.op = op /\ c.imm = 4 * n
        /\ (Finds(c) = <<Null, Null, Null>> \/ Finds(c) = <<Null, Null, Imm>>)
    BY <2>1, <2>3, <2>4, FoundIn
  <2>6. Fits(op, c, v)  BY <2>5, <1>1, Fitting
  <2>7. Registers(<<v>>) = Registers(<<Null, Null, Null>>)
        /\ Registers(<<v>>) = Registers(<<Null, Null, Imm>>)
    BY Zenon, SameOrder
  <2> HIDE DEF v
  <2>8. list \in {<<v>>, <<v, v>>, <<v, v, v>>}  BY <2>2
  <2>9. Registers(list) = Registers(Finds(c))  BY <2>2, <2>5, <2>7
  <2>10. Truthful(op, c, list)  BY <2>5, <2>6, <2>8, <2>9, TruthfulList
  <2> QED  BY <2>10 DEF c, list
<1>2. CASE op \in {"l.jr", "l.jalr"}
  <2>1. list = <<Reg(w.b)>>  BY <1>2, Listings DEF RegB
  <2>2. c = Ci(op, Null, link, Reg(w.b), 0, "jump_abs")
    BY SMT, <1>0, <1>2 DEF DecodeJump, RegB
  <2> HIDE DEF c, list, link
  <2>3. c.op = op /\ Finds(c) = <<Null, Null, Reg(w.b)>>  BY <2>2, FoundIn
  <2>4. Truthful(op, c, list)  BY <2>1, <2>3, TruthfulRegs
  <2> QED  BY <2>4 DEF c, list
<1> QED  BY <1>1, <1>2 DEF JumpOps

LEMMA TruthfulAccess ==
  ASSUME NEW w \in InsnWords, NEW op \in (LoadOps \cup StoreOps) \ {"l.lwa", "l.swa"}
  PROVE  Truthful(op, Decoded(op, w), Listed(op, w))
<1> DEFINE c == Decoded(op, w)
           list == Listed(op, w)
<1> USE DEF RegD, RegA, RegB
<1>1. op \notin {"l.movhi", "l.bf", "l.bnf", "l.j", "l.jal", "jump_rel", "jump_abs"}
  BY DEF LoadOps, StoreOps
<1>2. CASE op \in LoadOps
  <2> DEFINE exec == IF op \in {"l.lwz", "l.lws"} THEN "l.lw" ELSE op
  <2>1. list = <<Reg(w.d), Printed(FieldI(w)), Reg(w.a)>>
    BY <1>2, Listings, ImmediatesAgree
  <2>2. c = Ci(op, Reg(w.d), Reg(w.a), Null, FieldI(w), exec)
    BY <1>2, Handlers DEF DecodeLoad
  <2>3. exec \notin {"jump_rel", "jump_abs"}  BY <1>1
  <2> HIDE DEF c, list, exec
  <2>4. c.op = op /\ c.imm = FieldI(w) /\ Finds(c) = <<Reg(w.d), Reg(w.a), Null>>
    BY <2>2, <2>3, FoundIn
  <2>5. Truthful(op, c, list)  BY <2>1, <2>4, <1>1, TruthfulPlain
  <2> QED  BY <2>5 DEF c, list
<1>3. CASE op \in StoreOps
  <2>1. list = <<Printed(SplitI(w)), Reg(w.a), Reg(w.b)>>
    BY <1>3, Listings, ImmediatesAgree
  <2>2. c = Ci(op, Null, Reg(w.a), Reg(w.b), SplitI(w), op)
    BY <1>3, Handlers DEF DecodeStore
  <2> HIDE DEF c, list
  <2>4. c.op = op /\ c.imm = SplitI(w) /\ Finds(c) = <<Null, Reg(w.a), Reg(w.b)>>
    BY <2>2, <1>1, FoundIn
  <2>5. Truthful(op, c, list)  BY <2>1, <2>4, <1>1, TruthfulPlain
  <2> QED  BY <2>5 DEF c, list
<1> QED  BY <1>2, <1>3

\* the instructions with registers only
LEMMA TruthfulRegisters ==
  ASSUME NEW w \in InsnWords,
         NEW op \in AluOps \cup ExtOps \cup FindOps \cup CompareOps \cup FpOps
  PROVE  Truthful(op, Decoded(op, w), Listed(op, w))
<1> DEFINE c == Decoded(op, w)
           list == Listed(op, w)
<1> USE DEF RegD, RegA, RegB
<1>1. op \notin {"jump_rel", "jump_abs"}
  BY SMT, CompareSets, FpSets
  DEF AluOps, ExtOps, FindOps, FpArithmetic, FpConvertOps, FpCompares
<1>f. /\ FpOps = FpArithmetic \cup FpConvertOps \cup FpCompares /\ FpCompareOps = FpCompares
      /\ FpArithmetic \cap (FpConvertOps \cup FpCompares) = {} /\ FpConvertOps \cap FpCompares = {}
  BY SMT, FpSets DEF FpArithmetic, FpConvertOps, FpCompares
<1>2. CASE op \in AluOps \cup FpArithmetic
  <2>1. list = <<Reg(w.d), Reg(w.a), Reg(w.b)>>  BY <1>2, Listings
  <2>2. c = Ci(op, Reg(w.d), Reg(w.a), Reg(w.b), 0, op)
    <3>1. CASE op \in AluOps  BY <3>1, Handlers DEF DecodeAluRegs
    <3>2. CASE op \in FpArithmetic
      <4>1. c = DecodeFp(op, w) /\ op \notin FpCompareOps /\ op \notin FpConvertOps
        BY <3>2, <1>f, Handlers
      <4> QED  BY <4>1 DEF DecodeFp
    <3> QED  BY <3>1, <3>2, <1>2
  <2> HIDE DEF c, list
  <2>3. c.op = op /\ Finds(c) = <<Reg(w.d), Reg(w.a), Reg(w.b)>>
    BY <2>2, <1>1, FoundIn
  <2>4. Truthful(op, c, list)  BY <2>1, <2>3, TruthfulRegs
  <2> QED  BY <2>4 DEF c, list
<1>3. CASE op \in ExtOps \cup FindOps \cup FpConvertOps
  <2> DEFINE exec == IF op \in {"l.extwz", "l.extws"} THEN "l.extw" ELSE op
  <2>1. list = <<Reg(w.d), Reg(w.a)>>  BY <1>3, Listings
  <2>2. c \in {Ci(op, Reg(w.d), Reg(w.a), Null, 0, exec), Ci(op, Reg(w.d), Reg(w.a), Null, 0, op)}
    <3>1. CASE op \in ExtOps \cup FindOps  BY <3>1, Handlers DEF DecodeUnary
    <3>2. CASE op \in FpConvertOps
      <4>1. c = DecodeFp(op, w) /\ op \notin FpCompareOps
        BY <3>2, <1>f, Handlers
      <4> QED  BY <4>1, <3>2 DEF DecodeFp
    <3> QED  BY <3>1, <3>2, <1>3
  <2>3. exec \notin {"jump_rel", "jump_abs"}  BY <1>1
  <2> HIDE DEF c, list, exec
  <2>4. c.op = op /\ Finds(c) = <<Reg(w.d), Reg(w.a), Null>>
    BY <2>2, <2>3, <1>1, FoundIn
  <2>5. Truthful(op, c, list)  BY <2>1, <2>4, TruthfulRegs
  <2> QED  BY <2>5 DEF c, list
<1>4. CASE op \in CompareOps \cup FpCompares
  <2>1. list = <<Reg(w.a), Reg(w.b)>>  BY <1>4, Listings
  <2>2. c = Ci(op, Null, Reg(w.a), Reg(w.b), 0, op)
    <3>1. CASE op \in CompareOps  BY <3>1, Handlers DEF DecodeCompare
    <3>2. CASE op \in FpCompares
      <4>1. c = DecodeFp(op, w) /\ op \in FpCompareOps /\ op \notin FpConvertOps
        BY <3>2, <1>f, Handlers
      <4> QED  BY <4>1 DEF DecodeFp
    <3> QED  BY <3>1, <3>2, <1>4
  <2> HIDE DEF c, list
  <2>3. c.op = op /\ Finds(c) = <<Null, Reg(w.a), Reg(w.b)>>
    BY <2>2, <1>1, FoundIn
  <2>4. Truthful(op, c, list)  BY <2>1, <2>3, TruthfulRegs
  <2> QED  BY <2>4 DEF c, list
<1> QED  BY <1>2, <1>3, <1>4, <1>f

\* and those with an immediate
LEMMA TruthfulImmediate ==
  ASSUME NEW w \in InsnWords,
         NEW op \in ShiftImmOps \cup CompareImmOps \cup UnsignedImmOps \cup (SignedImmOps \ {"l.muli"})
  PROVE  Truthful(op, Decoded(op, w), Listed(op, w))
<1> DEFINE c == Decoded(op, w)
           list == Listed(op, w)
           exec == ImmExec(op)
<1> USE DEF RegD, RegA
<1>1. op \notin {"l.movhi", "l.bf", "l.bnf", "l.j", "l.jal"} /\ exec \notin {"jump_rel", "jump_abs"}
  <2>1. op \notin {"l.movhi", "l.bf", "l.bnf", "l.j", "l.jal"}
    BY SMT, CompareSets DEF ShiftImmOps, UnsignedImmOps, SignedImmOps
  <2>2. exec \notin {"jump_rel", "jump_abs"}
    BY SMT, CompareSets DEF ImmExec, ShiftImmOps, UnsignedImmOps, SignedImmOps
  <2> QED  BY <2>1, <2>2
<1> HIDE DEF exec
<1>2. CASE op \in CompareImmOps
  <2>1. list = <<Reg(w.a), Printed(FieldI(w))>>  BY <1>2, Listings, ImmediatesAgree
  <2>2. c = Ci(op, Null, Reg(w.a), Imm, FieldI(w), exec)
    BY <1>2, Handlers DEF DecodeCompareImm, exec
  <2> HIDE DEF c, list
  <2>3. c.op = op /\ c.imm = FieldI(w) /\ Finds(c) = <<Null, Reg(w.a), Imm>>
    BY <2>2, <1>1, FoundIn
  <2>4. Truthful(op, c, list)  BY <2>1, <2>3, <1>1, TruthfulPlain
  <2> QED  BY <2>4 DEF c, list
<1>3. CASE op \notin CompareImmOps
  <2> DEFINE imm == IF op \in ShiftImmOps THEN Bits(w, 5, 0)
                    ELSE IF op \in SignedImmOps THEN FieldI(w) ELSE FieldK(w)
  <2>0. ShiftImmOps \cap (SignedImmOps \cup UnsignedImmOps) = {} /\ SignedImmOps \cap UnsignedImmOps = {}
    BY SMT DEF ShiftImmOps, SignedImmOps, UnsignedImmOps
  <2>1. list = <<Reg(w.d), Reg(w.a), Printed(imm)>>
    <3>1. CASE op \in ShiftImmOps  BY <3>1, Listings, ImmediatesAgree
    <3>2. CASE op \in SignedImmOps \ {"l.muli"}  BY <3>2, <2>0, Listings, ImmediatesAgree
    <3>3. CASE op \in UnsignedImmOps  BY <3>3, <2>0, Listings, ImmediatesAgree
    <3> QED  BY <3>1, <3>2, <3>3, <1>3
  <2>2. c = Ci(op, Reg(w.d), Reg(w.a), Imm, imm, exec)
    <3>1. CASE op \in ShiftImmOps  BY <3>1, Handlers DEF DecodeShiftImm, exec
    <3>2. CASE op \in SignedImmOps \cup UnsignedImmOps
      BY <3>2, <2>0, Handlers DEF DecodeAluImm, exec
    <3> QED  BY <3>1, <3>2, <1>3
  <2> HIDE DEF c, list, imm
  <2>3. c.op = op /\ c.imm = imm /\ Finds(c) = <<Reg(w.d), Reg(w.a), Imm>>
    BY <2>2, <1>1, FoundIn
  <2>4. Truthful(op, c, list)  BY <2>1, <2>3, <1>1, TruthfulPlain
  <2> QED  BY <2>4 DEF c, list
<1> QED  BY <1>2, <1>3

\* an instruction of which nothing is printed, or that is left out, is still itself
LEMMA Excepted ==
  ASSUME NEW w,
         NEW op \in DoubleOps \cup {"l.muli", "l.lwa", "l.swa"} \cup MacOps \cup SystemOps
  PROVE  Decoded(op, w).op = op
<1>1. CASE op \in DoubleOps  BY <1>1, Handlers, FoundIn DEF DecodeDouble
<1>2. CASE op = "l.muli"
  <2>1. op \in SignedImmOps  BY <1>2 DEF SignedImmOps
  <2> QED  BY <2>1, Handlers, FoundIn DEF DecodeAluImm
<1>3. CASE op = "l.lwa"
  <2>1. op \in LoadOps  BY <1>3 DEF LoadOps
  <2> QED  BY <2>1, Handlers, FoundIn DEF DecodeLoad
<1>4. CASE op = "l.swa"
  <2>1. op \in StoreOps  BY <1>4 DEF StoreOps
  <2> QED  BY <2>1, Handlers, FoundIn DEF DecodeStore
<1>5. CASE op \in MacOps  BY <1>5, Handlers, FoundIn DEF DecodeMacUnit
<1>6. CASE op \in SystemOps  BY <1>6, Handlers, FoundIn DEF DecodeSys
<1> QED  BY <1>1, <1>2, <1>3, <1>4, <1>5, <1>6

\* every instruction is printed as it is executed, or one of the exceptions
LEMMA TruthfulWord ==
  ASSUME NEW w \in InsnWords, NEW op \in Instructions
  PROVE  LET c == Decoded(op, w)
         IN  \/ Truthful(op, c, Listed(op, w))
             \/ c.op = op /\ (op \in DoubleOps \cup {"l.muli"} \/ Listed(op, w) = <<>>)
<1>1. CASE op \in MoveOps  BY <1>1, TruthfulMove
<1>2. CASE op \in JumpOps  BY <1>2, TruthfulJump
<1>3. CASE op \in (LoadOps \cup StoreOps) \ {"l.lwa", "l.swa"}  BY <1>3, TruthfulAccess
<1>4. CASE op \in AluOps \cup ExtOps \cup FindOps \cup CompareOps \cup FpOps
  BY <1>4, TruthfulRegisters
<1>5. CASE op \in ShiftImmOps \cup CompareImmOps \cup UnsignedImmOps \cup (SignedImmOps \ {"l.muli"})
  BY <1>5, TruthfulImmediate
<1>6. CASE op \in DoubleOps \cup {"l.muli", "l.lwa", "l.swa"} \cup MacOps \cup SystemOps
  <2>1. Decoded(op, w).op = op  BY <1>6, Excepted
  <2>2. op \in {"l.lwa", "l.swa"} \cup MacOps \cup SystemOps => Listed(op, w) = <<>>
    BY Listings
  <2> QED  BY <1>6, <2>1, <2>2
<1> QED  BY <1>1, <1>2, <1>3, <1>4, <1>5, <1>6 DEF Instructions

\* For every word that the decoder accepts, what disassemble() prints names the
\* registers the function reads and writes and the immediate it uses, but for
\* l.muld, l.muldu and l.muli (disasm.cpp:257-426, decode.cpp:423-1556).
THEOREM ListingTruthfulHolds == Spec => []ListingTruthful
<1>1. ASSUME InsnInv  PROVE ListingTruthful
  <2> DEFINE op == DecodeWord(word)
  <2> SUFFICES ASSUME ci # Nothing, Shown # <<>>, ci.op \notin DoubleOps \cup {"l.muli"}
               PROVE  /\ Len(Shown) <= 3
                      /\ ci.op # "l.nop" => Registers(Shown) = Registers(Finds(ci))
                      /\ \A i \in DOMAIN Shown : Shown[i].kind = "value" =>
                           ci.imm = Means(ci.op, Shown[i].n)
    BY DEF ListingTruthful, Finds, Means
  <2>1. word \in InsnWords /\ op \in Instructions /\ ci = Decoded(op, word)
    BY <1>1 DEF InsnInv, Compiles, Compiled
  <2> HIDE DEF op
  <2>2. \/ Truthful(op, ci, Listed(op, word))
        \/ ci.op = op /\ (op \in DoubleOps \cup {"l.muli"} \/ Listed(op, word) = <<>>)
    BY <2>1, TruthfulWord
  <2>3. Truthful(op, ci, Listed(op, word))
    BY <2>2 DEF Shown
  <2>4. ci.op = op /\ Shown = Listed(op, word)  BY <2>3 DEF Truthful, Shown
  <2> QED  BY <2>3, <2>4 DEF Truthful
<1> QED  BY <1>1, SpecInvariant, PTL
=============================================================================
