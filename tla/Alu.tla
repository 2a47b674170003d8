--------------------------------- MODULE Alu ---------------------------------
(***************************************************************************)
(* The integer instructions as functions of their operands (execute.cpp),   *)
(* for words of W bits: a halfword has half as many and a byte a quarter.   *)
(* What an instruction does besides its result is told in the order of the  *)
(* code: the flags it clears, then two checks, each of which, when it hits, *)
(* sets a flag and may raise a range exception before the next one is made. *)
(***************************************************************************)
EXTENDS Decode

CONSTANT W
ASSUME WidthAssumption == W \in Nat \ {0} /\ W % 4 = 0
\* nothing that W could violate: the law of the powers, for the provers
ASSUME PowerAssumption ==
  \A m, n \in 0..W : 2^n \in Nat \ {0} /\ (m + n <= W => 2^(m + n) = 2^m * 2^n)

Size == 2^W
Word == 0..(Size - 1)
Halfword == W \div 2
Byte     == W \div 4

\* static_cast<s32> of a word, and static_cast<u32> of a number
Signed(x)   == IF x < Size \div 2 THEN x ELSE x - Size
Unsigned(v) == v % Size
Extended(v, i) == Unsigned(SignExtend(v, i))

None == "none"      \* a check without exception
NoResult == -1      \* the register is left alone
Check(hit, flag, cause) == [hit |-> hit, flag |-> flag, cause |-> cause]
NoCheck == Check(FALSE, "f", None)
Does(d, clear, first, second) ==
  [d |-> d, clear |-> clear, first |-> first, second |-> second]
Plain(d) == Does(d, {}, NoCheck, NoCheck)

SameSigns(a, b) == (Signed(a) < 0) = (Signed(b) < 0)

Add(x, y) ==
  LET r == Unsigned(x + y)
  IN  Does(r, {"cy", "ov"},
           Check(r < x, "cy", None),
           Check(SameSigns(x, y) /\ ~SameSigns(x, r), "ov", "OVADDE"))

AddcClears(x, y, carry) ==                                          \* mutant
  LET r == Unsigned(x + y + (IF carry THEN 1 ELSE 0))
  IN  Does(r, {"ov"},
           Check(r < x, "cy", "CYADDE"),
           Check(SameSigns(x, y) /\ ~SameSigns(x, r), "ov", "OVADDE"))

Addc(x, y, carry) ==
  LET r == Unsigned(x + y + (IF carry THEN 1 ELSE 0))
  IN  Does(r, {"cy", "ov"},
           Check(r < x, "cy", "CYADDE"),
           Check(SameSigns(x, y) /\ ~SameSigns(x, r), "ov", "OVADDE"))

Sub(x, y) ==
  LET r == Unsigned(x - y)
  IN  Does(r, {"cy", "ov"},
           Check(y > x, "cy", "CYADDE"),
           Check(~SameSigns(x, y) /\ SameSigns(y, r), "ov", "OVADDE"))

OutOfRange(v) == v > Size \div 2 - 1 \/ v < -(Size \div 2)

Mul(x, y) ==
  LET p == Signed(x) * Signed(y)
  IN  Does(Unsigned(p), {"ov"}, Check(OutOfRange(p), "ov", "OVMULE"), NoCheck)
Mulu(x, y) ==
  Does(Unsigned(x * y), {"cy"}, Check(x * y >= Size, "cy", "CYMULE"), NoCheck)

\* the quotient is rounded towards zero; division by zero leaves the register
Magnitude(v) == IF v < 0 THEN -v ELSE v
Div(x, y) ==
  LET q == Magnitude(Signed(x)) \div Magnitude(Signed(y))
  IN  IF y = 0 THEN Does(NoResult, {}, Check(TRUE, "ov", "DBZE"), NoCheck)
      ELSE Does(Unsigned(IF SameSigns(x, y) THEN q ELSE -q), {"ov"}, NoCheck, NoCheck)
Divu(x, y) ==
  IF y = 0 THEN Does(NoResult, {}, Check(TRUE, "cy", "DBZE"), NoCheck)
  ELSE Does(x \div y, {"cy"}, NoCheck, NoCheck)

Shift(y) == y % W
Left(x, n)  == Unsigned(x * 2^n)
Right(x, n) == x \div 2^n
BitAt(x, i) == (x \div 2^i) % 2
Ones(x) == {i \in 0..(W - 1) : BitAt(x, i) = 1}
FirstOne(x) == IF x = 0 THEN 0 ELSE 1 + CHOOSE i \in Ones(x) : \A j \in Ones(x) : i <= j
LastOne(x)  == IF x = 0 THEN 0 ELSE 1 + CHOOSE i \in Ones(x) : \A j \in Ones(x) : i >= j

\* the operators of the bits: &, | and ^
WithOnes(bits) == CHOOSE v \in Word : Ones(v) = bits
And(x, y) == WithOnes(Ones(x) \cap Ones(y))
Or(x, y)  == WithOnes(Ones(x) \cup Ones(y))
Xor(x, y) == WithOnes((Ones(x) \cup Ones(y)) \ (Ones(x) \cap Ones(y)))

\* the instructions with two operands that only write a register
Logic(exec, x, y, flag) ==
  CASE exec = "l.and"  -> And(x, y)
    [] exec = "l.or"   -> Or(x, y)
    [] exec = "l.xor"  -> Xor(x, y)
    [] exec = "l.cmov" -> IF flag THEN x ELSE y
    [] exec = "l.sll"  -> Left(x, Shift(y))
    [] exec = "l.srl"  -> Right(x, Shift(y))
    [] exec = "l.sra"  -> Extended(Right(x, Shift(y)), W - 1 - Shift(y))
    [] exec = "l.ror"  -> Or(Right(x, Shift(y)), Left(x, W - 1 - Shift(y)))

\* and those with one
Unary(exec, x) ==
  CASE exec = "l.extw"  -> x
    [] exec = "l.exthz" -> x % 2^Halfword
    [] exec = "l.exths" -> Extended(x, Halfword - 1)
    [] exec = "l.extbz" -> x % 2^Byte
    [] exec = "l.extbs" -> Extended(x, Byte - 1)
    [] exec = "l.ff1"   -> FirstOne(x)
    [] exec = "l.fl1"   -> LastOne(x)

\* l.sf*: the comparison that SR_F takes
Compares(exec, x, y) ==
  CASE exec = "l.sfeq"  -> x = y
    [] exec = "l.sfne"  -> x # y
    [] exec = "l.sfgtu" -> x > y
    [] exec = "l.sfgeu" -> x >= y
    [] exec = "l.sfltu" -> x < y
    [] exec = "l.sfleu" -> x <= y
    [] exec = "l.sfgts" -> Signed(x) > Signed(y)
    [] exec = "l.sfges" -> Signed(x) >= Signed(y)
    [] exec = "l.sflts" -> Signed(x) < Signed(y)
    [] exec = "l.sfles" -> Signed(x) <= Signed(y)

UnaryExecs == {"l.extw", "l.exthz", "l.exths", "l.extbz", "l.extbs", "l.ff1", "l.fl1"}
LogicExecs == {"l.and", "l.or", "l.xor", "l.cmov", "l.sll", "l.srl", "l.sra", "l.ror"}

Integer(exec, x, y, sr) ==
  CASE exec = "l.add"   -> Add(x, y)
    [] exec = "l.addc"  -> Addc(x, y, sr.cy)
    [] exec = "l.sub"   -> Sub(x, y)
    [] exec = "l.mul"   -> Mul(x, y)
    [] exec = "l.mulu"  -> Mulu(x, y)
    [] exec = "l.div"   -> Div(x, y)
    [] exec = "l.divu"  -> Divu(x, y)
    [] exec \in CompareOps -> Does(NoResult, {"f"}, Check(Compares(exec, x, y), "f", None), NoCheck)
    [] exec \in LogicExecs -> Plain(Logic(exec, x, y, sr.f))
    [] exec \in UnaryExecs -> Plain(Unary(exec, x))
-----------------------------------------------------------------------------
(* The accumulator m_mac is twice as wide: the high word times Size, plus   *)
(* the low word; the sums are s64 and u64.                                  *)

Double == Size * Size
SignedDouble(v) ==
  LET u == v % Double IN IF u < Double \div 2 THEN u ELSE u - Double

AccumulateSigned(sum) ==
  Does(sum % Double, {"ov"},
       Check(OutOfRange(SignedDouble(sum)), "ov", "OVMACADDE"), NoCheck)
AccumulateUnsigned(sum) ==
  Does(sum % Double, {"cy"}, Check(sum % Double >= Size, "cy", "CYMACADDE"), NoCheck)
ProductSigned(p) ==
  Does(p % Double, {"ov"}, Check(OutOfRange(p), "ov", "OVMULE"), NoCheck)
ProductUnsigned(p) ==
  Does(p, {"cy"}, Check(p >= Size, "cy", "CYMULE"), NoCheck)

\* the new accumulator
MacResult(exec, x, y, mac) ==
  CASE exec = "l.mac"   -> AccumulateSigned(mac + Signed(x) * Signed(y))
    [] exec = "l.msb"   -> AccumulateSigned(mac - Signed(x) * Signed(y))
    [] exec = "l.macu"  -> AccumulateUnsigned(mac + x * y)
    [] exec = "l.msbu"  -> AccumulateUnsigned(mac - x * y)
    [] exec = "l.muld"  -> ProductSigned(Signed(x) * Signed(y))
    [] exec = "l.muldu" -> ProductUnsigned(x * y)
    [] exec = "l.macrc" -> Plain(0)
=============================================================================
