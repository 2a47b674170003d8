-------------------------------- MODULE Insn --------------------------------
(***************************************************************************)
(* One instruction after the other: a word is compiled (or1k.cpp:290-318)   *)
(* into the operands and the function that the decode table gives, which is *)
(* then executed.  The programs of a behaviour use the instructions of one  *)
(* unit, so that the state of the others rests; "decode" only compiles.     *)
(* What software keeps in its registers is external: the operands are any.  *)
(***************************************************************************)
EXTENDS Alu, Spr, Listing

CONSTANTS Setups,       \* the unit, and what software and host configured
          Words(_),     \* the words of the programs of a unit
          Operands(_),  \* the values of their operands
          MaxTerms,     \* bound on the products in the accumulator
          MaxChanged    \* bound on the registers that differ from their reset value

VARIABLES setup,        \* one of Setups
          phase,        \* where the step is
          ci, word,     \* the compiled instruction, and the word it was compiled from
          x, y, d, reg, \* the values of *src1, *src2 and *dest; a register's number
          cpu,          \* m_status, and what an exception saves
          mac, acc,     \* m_mac; what the products add up to
          dreq,         \* m_dreq
          spr, kept,    \* the special purpose registers; what was written there
          fp            \* m_fpcfg, and the exception flags of the host

code == <<setup, ci, word, reg>>
vars == <<code, phase, x, y, d, cpu, mac, acc, dreq, spr, kept, fp>>

Nothing == Ci(Invalid, Null, Null, Null, 0, None)
NoWord  == [op |-> 0, d |-> 0, a |-> 0, b |-> 0, lo |-> 0]

InsnWords == [op : 0..63, d : 0..31, a : 0..31, b : 0..31, lo : 0..2047]
Causes == {"CYADDE", "CYMULE", "CYMACADDE", "OVADDE", "OVMULE", "OVMACADDE", "DBZE"}
ASSUME InsnAssumption ==
  /\ MaxTerms \in Nat \ {0}
  /\ \A s \in Setups : /\ Words(s.unit) \subseteq InsnWords
                       /\ Operands(s.unit) \subseteq
                            [x : Word, y : Word, d : Word, reg : SPRs \cup {None}]
                       /\ s.aecr \subseteq Causes
                       /\ {s.slot, s.sm, s.sumra, s.ove, s.level, s.fpee} \subseteq BOOLEAN

SrInit(s) == [f |-> FALSE, cy |-> FALSE, ov |-> FALSE, ove |-> s.ove, sm |-> s.sm,
              sumra |-> s.sumra, ie |-> TRUE, dsx |-> FALSE]
CpuInit(s) == [sr |-> SrInit(s), esr |-> SrInit(s), epc |-> None, aesr |-> {},
               jump |-> IF s.slot THEN "now" ELSE None]

Init ==
  /\ setup \in Setups
  /\ phase = "idle" /\ ci = Nothing /\ word = NoWord
  /\ x = 0 /\ y = 0 /\ d = 0 /\ reg = None
  /\ cpu = CpuInit(setup)
  /\ mac = [hi |-> 0, lo |-> 0] /\ acc = [sum |-> 0, terms |-> 0]
  /\ dreq = [write |-> FALSE, excl |-> FALSE, size |-> 4]
  /\ spr = SprInit /\ kept = SprInit
  /\ fp = [flags |-> {}, host |-> {}, raised |-> {}]
-----------------------------------------------------------------------------
(* exception() (or1k.cpp:341-414), for the types an instruction raises *)

RaiseLate(c, type) ==                                               \* mutant
  LET sr == [c.sr EXCEPT !.sm = TRUE, !.ie = FALSE,
                          !.dsx = @ \/ c.jump = "now"]
  IN  [c EXCEPT !.sr = sr, !.esr = sr, !.jump = "now",
                !.epc = IF type = "FP" THEN "next"
                        ELSE IF c.jump = "now" THEN "prev" ELSE "here"]

\* the jump to the vector is one that happens now: a second exception of the
\* same instruction takes it for a delay slot
Raise(c, type) ==
  [c EXCEPT !.esr = c.sr,
            !.sr = [c.sr EXCEPT !.sm = TRUE, !.ie = FALSE,
                                !.dsx = @ \/ c.jump = "now"],
            !.jump = "now",
            !.epc = IF type = "FP" THEN "next"
                    ELSE IF c.jump = "now" THEN "prev" ELSE "here"]

CheckedAll(c, check) ==                                             \* mutant
  LET set == [c EXCEPT !.sr[check.flag] = TRUE, !.aesr = @ \cup {check.cause}]
  IN  IF ~check.hit THEN c
      ELSE IF c.sr.ove /\ check.cause \in setup.aecr THEN Raise(set, "RANGE") ELSE set

\* the flags and range exceptions of an instruction, check after check
Checked(c, check) ==
  LET set == [c EXCEPT !.sr[check.flag] = TRUE]
  IN  IF ~check.hit THEN c
      ELSE IF c.sr.ove /\ check.cause \in setup.aecr
      THEN Raise([set EXCEPT !.aesr = @ \cup {check.cause}], "RANGE")
      ELSE set

Cleared(c, flags) ==
  [c EXCEPT !.sr.f = @ /\ "f" \notin flags, !.sr.cy = @ /\ "cy" \notin flags,
            !.sr.ov = @ /\ "ov" \notin flags]
Effects(c, e) == Checked(Checked(Cleared(c, e.clear), e.first), e.second)
-----------------------------------------------------------------------------
Illegal(op) == op \in {Invalid, "l.cust1"}

\* a word without instruction, or one that is refused
CompileIllegal(w) ==
  /\ phase = "idle" /\ Illegal(DecodeWord(w))
  /\ phase' = "done"
  /\ cpu' = Raise(cpu, "ILLEGAL")
  /\ UNCHANGED <<code, x, y, d, mac, acc, dreq, spr, kept, fp>>

\* decode_na(): the error leaves step()
CompileCustom(w) ==
  /\ phase = "idle"
  /\ DecodeWord(w) \in CustomOps /\ ~Illegal(DecodeWord(w))
  /\ phase' = "thrown"
  /\ UNCHANGED <<code, x, y, d, cpu, mac, acc, dreq, spr, kept, fp>>

Compiled(w) == Decoded(DecodeWord(w), w)

Changed == {r \in Stored : kept[r] # SprInit[r]}

Compile(w) ==
  LET op == DecodeWord(w)
  IN  /\ phase = "idle" /\ op \notin CustomOps \cup {Invalid}
      /\ op \in MacOps \ {"l.macrc"} => acc.terms < MaxTerms
      /\ phase' = IF setup.unit = "decode" THEN "done" ELSE "execute"
      /\ ci' = Compiled(w) /\ word' = w
      /\ \E v \in Operands(setup.unit) :
           /\ x' = v.x /\ d' = v.d /\ reg' = v.reg
           /\ op = "l.mtspr" /\ v.x # 0 => Cardinality(Changed) < MaxChanged
           /\ y' = IF ci'.src2 = Imm /\ setup.unit = "int" THEN Unsigned(ci'.imm) ELSE v.y
      /\ UNCHANGED <<setup, cpu, mac, acc, dreq, spr, kept, fp>>

\* the rest of the step, and the handler of an exception: it ends with l.rfe
Retire ==
  /\ phase = "done"
  /\ phase' = "idle" /\ ci' = Nothing /\ word' = NoWord
  /\ x' = 0 /\ y' = 0 /\ d' = 0 /\ reg' = None
  /\ cpu' = [CpuInit(setup) EXCEPT !.sr = IF cpu.epc = None THEN cpu.sr ELSE cpu.esr]
  /\ spr' = [spr EXCEPT !.NPC = 0, !.PPC = 0]
  /\ fp' = [fp EXCEPT !.raised = {}]
  /\ UNCHANGED <<setup, mac, acc, dreq, kept>>
-----------------------------------------------------------------------------
Executes(execs) == phase = "execute" /\ ci.exec \in execs /\ phase' = "done"

\* the smallest number divided by -1 traps on the host
HostTraps == ci.exec = "l.div" /\ Signed(x) = -(Size \div 2) /\ Signed(y) = -1

IntegerExecs == CompareOps \cup LogicExecs \cup UnaryExecs
                \cup {"l.add", "l.addc", "l.sub", "l.mul", "l.mulu", "l.div", "l.divu"}
ExecInteger ==
  LET e == Integer(ci.exec, x, y, cpu.sr)
  IN  /\ Executes(IntegerExecs) /\ ~HostTraps
      /\ d' = IF e.d = NoResult THEN d ELSE e.d
      /\ cpu' = Effects(cpu, e)
      /\ UNCHANGED <<code, x, y, mac, acc, dreq, spr, kept, fp>>

Killed ==
  /\ phase = "execute" /\ HostTraps
  /\ phase' = "killed"
  /\ UNCHANGED <<code, x, y, d, cpu, mac, acc, dreq, spr, kept, fp>>

MacValueSigned(m) == m.hi * Size + Signed(m.lo)                     \* mutant
MacValue(m) == m.hi * Size + m.lo

\* what the program adds, exactly
Term == CASE ci.exec \in {"l.mac", "l.muld"}   -> Signed(x) * Signed(y)
          [] ci.exec \in {"l.macu", "l.muldu"} -> x * y
          [] ci.exec = "l.msb"  -> -(Signed(x) * Signed(y))
          [] ci.exec = "l.msbu" -> -(x * y)
          [] ci.exec = "l.macrc" -> 0

ExecMac ==
  LET e == MacResult(ci.exec, x, y, MacValue(mac))
      fresh == ci.exec \in DoubleOps \cup {"l.macrc"}
  IN  /\ Executes((MacOps \ {"l.maci"}) \cup DoubleOps)
      /\ mac' = [hi |-> e.d \div Size, lo |-> e.d % Size]
      /\ d' = IF ci.exec = "l.macrc" THEN mac.lo ELSE d
      /\ cpu' = Effects(cpu, e)
      /\ acc' = [sum |-> IF fresh THEN Term ELSE acc.sum + Term,
                 terms |-> CASE ci.exec = "l.macrc" -> 0
                             [] ci.exec \in DoubleOps -> 1
                             [] OTHER -> acc.terms + 1]
      /\ UNCHANGED <<code, x, y, dreq, spr, kept, fp>>
-----------------------------------------------------------------------------
(* Loads and stores: the request, and what transact() (or1k.cpp:133-233)    *)
(* returns.  The address is x; a store sends y.                             *)

Loads  == {"l.lwa", "l.lw", "l.lhz", "l.lhs", "l.lbz", "l.lbs"}
Stores == {"l.swa", "l.sw", "l.sh", "l.sb"}
Bytes(exec) ==
  CASE exec \in {"l.lwa", "l.lw", "l.swa", "l.sw"} -> 4
    [] exec \in {"l.lhz", "l.lhs", "l.sh"}         -> 2
    [] exec \in {"l.lbz", "l.lbs", "l.sb"}         -> 1
ExclusiveExecs == {"l.lwa", "l.swa"}
BitsOf(exec) == (W \div 4) * Bytes(exec)

RequestSticky ==                                                    \* mutant
  [dreq EXCEPT !.write = ci.exec \in Stores, !.size = Bytes(ci.exec),
               !.excl = @ \/ ci.exec \in ExclusiveExecs]

Request ==
  [dreq EXCEPT !.write = ci.exec \in Stores, !.size = Bytes(ci.exec),
               !.excl = ci.exec \in ExclusiveExecs]

Misaligned == x % Bytes(ci.exec) # 0
DataFaults == {"DATA_TLB_MISS", "DATA_PAGE_FAULT", "DATA_BUS_ERROR"}

\* a port answers RESP_FAILED only to an exclusive store
Answers == IF Misaligned THEN {"DATA_ALIGNMENT"}
           ELSE DataFaults \cup {"SUCCESS"}
                \cup (IF dreq'.excl /\ dreq'.write THEN {"FAILED"} ELSE {})

\* the data port fills the low bytes of the register, the handler extends them
Loaded(v) ==
  LET n   == BitsOf(ci.exec)
      raw == ((d \div 2^n) * 2^n) + (v % 2^n)
  IN  CASE ci.exec \in {"l.lwa", "l.lw"}   -> raw
        [] ci.exec \in {"l.lhz", "l.lbz"} -> raw % 2^n
        [] ci.exec \in {"l.lhs", "l.lbs"} -> Extended(raw, n - 1)

\* SR_F tells of an exclusive access
Responded(c, answer) ==
  CASE answer = "FAILED"  -> [c EXCEPT !.sr.f = FALSE]
    [] answer = "SUCCESS" -> IF dreq'.excl THEN [c EXCEPT !.sr.f = TRUE] ELSE c
    [] OTHER              -> Raise(c, answer)

\* y is what memory holds when the access is a load
ExecMemory ==
  /\ Executes(Loads \cup Stores)
  /\ dreq' = Request
  /\ \E answer \in Answers :
       /\ cpu' = Responded(cpu, answer)
       /\ d' = IF answer = "SUCCESS" /\ ~dreq'.write THEN Loaded(y) ELSE d
  /\ UNCHANGED <<code, x, y, mac, acc, spr, kept, fp>>
-----------------------------------------------------------------------------
(* Moves between registers, and l.rfe *)

ExecMfspr ==
  /\ Executes({"l.mfspr"})
  /\ d' = GetSpr(spr, cpu.sr, reg)
  /\ UNCHANGED <<code, x, y, cpu, mac, acc, dreq, spr, kept, fp>>

ExecMtspr ==
  LET after == SetSpr(spr, cpu.sr, reg, x, setup.level)
  IN  /\ Executes({"l.mtspr"})
      /\ spr' = after.spr
      /\ cpu' = [cpu EXCEPT !.sr = after.sr]
      /\ kept' = IF cpu.sr.sm /\ reg \in Stored THEN [kept EXCEPT ![reg] = x]
                 ELSE kept
      /\ UNCHANGED <<code, x, y, d, mac, acc, dreq, fp>>

\* the jump is scheduled with what may be read of EPCR, here 0 for nothing
ExecRfe ==
  LET status == GetSpr(spr, cpu.sr, "ESR")
      after  == SetSpr(spr, cpu.sr, "SR", status, setup.level)
  IN  /\ Executes({"l.rfe"})
      /\ d' = GetSpr(spr, cpu.sr, "EPCR")
      /\ spr' = after.spr
      /\ cpu' = [cpu EXCEPT !.sr = after.sr, !.jump = "now"]
      /\ UNCHANGED <<code, x, y, mac, acc, dreq, kept, fp>>
-----------------------------------------------------------------------------
(* Floating point: the kind of the result, and the exceptions it raises on  *)
(* the host, which stay raised there: nothing clears them.                  *)

Outcome(kind, raised) == [kind |-> kind, raised |-> raised]
FpOutcomes == {Outcome("finite", {}), Outcome("finite", {"UNF"}),
               Outcome("finite", {"OV"}),     \* rounded towards zero
               Outcome("zero", {}), Outcome("zero", {"UNF"}),
               Outcome("inf", {}), Outcome("inf", {"OV"}), Outcome("inf", {"DZF"}),
               Outcome("nan", {}), Outcome("nan", {"OV"})}  \* the sum within lf.madd.s
KindFlag(kind) == CASE kind = "zero" -> {"ZF"}  [] kind = "inf"    -> {"INF"}
                    [] kind = "nan"  -> {"QNF"} [] kind = "finite" -> {}
FpFlagNames == {"ZF", "INF", "QNF", "OV", "UNF", "DZF"}

FpFlagsKept(out, host) == fp.flags \cup KindFlag(out.kind) \cup host  \* mutant

\* reset_fp_flags(): the flags of the last operation are cleared first
FpFlags(out, host) == KindFlag(out.kind) \cup host

\* an exception for each flag, one after the other
IfSet(flag, flags, c) == IF flag \in flags THEN Raise(c, "FP") ELSE c
FpRaised(c, flags) ==
  IfSet("DZF", flags, IfSet("UNF", flags, IfSet("OV", flags,
    IfSet("QNF", flags, IfSet("INF", flags, IfSet("ZF", flags, c))))))

FpArithmetic == {"lf.add.s", "lf.sub.s", "lf.mul.s", "lf.div.s", "lf.rem.s", "lf.madd.s",
                 "lf.add.d", "lf.sub.d", "lf.mul.d", "lf.div.d", "lf.rem.d", "lf.madd.d"}
ExecFp ==
  /\ Executes(FpArithmetic)
  /\ \E out \in FpOutcomes :
       LET host  == fp.host \cup out.raised
           flags == FpFlags(out, host)
       IN  /\ fp' = [flags |-> flags, host |-> host,
                     raised |-> KindFlag(out.kind) \cup out.raised]
           /\ cpu' = IF setup.fpee THEN FpRaised(cpu, flags) ELSE cpu
  /\ UNCHANGED <<code, x, y, d, mac, acc, dreq, spr, kept>>

\* lf.sf*, for which any answer is possible, and the conversions
ExecFpOther ==
  /\ Executes(FpCompareOps \cup FpConvertOps)
  /\ \E flag \in BOOLEAN :
       cpu' = IF ci.exec \in FpCompareOps THEN [cpu EXCEPT !.sr.f = flag] ELSE cpu
  /\ UNCHANGED <<code, x, y, d, mac, acc, dreq, spr, kept, fp>>

Execute == ExecInteger \/ ExecMac \/ ExecMemory \/ ExecMfspr \/ ExecMtspr \/ ExecRfe
           \/ ExecFp \/ ExecFpOther

Next ==
  \/ \E w \in Words(setup.unit) : CompileIllegal(w) \/ CompileCustom(w) \/ Compile(w)
  \/ Execute
  \/ Killed
  \/ Retire

Spec == Init /\ [][Next]_vars
-----------------------------------------------------------------------------
Shown    == Listed(ci.op, word)
IsReg(o) == o.kind = "reg"
Stepped(execs) == phase = "execute" /\ phase' = "done" /\ ci.exec \in execs
Faults == cpu'.epc # None

\* Every variable holds what the code keeps there.
InsnTypeOK ==
  /\ setup \in Setups
  /\ phase \in {"idle", "execute", "done", "thrown", "killed"}
  /\ x \in Word /\ y \in Word /\ d \in Word
  /\ {cpu.sr, cpu.esr} \subseteq [DOMAIN SrInit(setup) -> BOOLEAN]
  /\ cpu.epc \in {None, "here", "prev", "next"} /\ cpu.jump \in {None, "now"}
  /\ cpu.aesr \subseteq setup.aecr
  /\ mac \in [hi : Word, lo : Word] /\ acc.terms \in 0..MaxTerms
  /\ dreq \in [write : BOOLEAN, excl : BOOLEAN, size : {1, 2, 4}]
  /\ {spr, kept} \subseteq [Stored -> Word] /\ spr.PICMR \in {NMI, NMI + 1}
  /\ fp.flags \cup fp.host \cup fp.raised \subseteq FpFlagNames

\* What a function of execute.cpp dereferences.
Dereferenced(exec) ==
  CASE exec \in LogicExecs \cup {"l.add", "l.addc", "l.sub", "l.mul", "l.mulu", "l.div", "l.divu"}
               \cup (FpArithmetic \ {"lf.madd.s", "lf.madd.d"}) -> {ci.dest, ci.src1, ci.src2}
    [] exec \in CompareOps \cup FpCompareOps \cup DoubleOps \cup Stores
               \cup (MacOps \ {"l.macrc"}) \cup {"lf.madd.s", "lf.madd.d"} -> {ci.src1, ci.src2}
    [] exec \in UnaryExecs \cup FpConvertOps \cup {"l.mfspr", "l.mtspr"}
               \cup Loads -> {ci.dest, ci.src1}
    [] exec \in {"l.movhi", "l.macrc"}       -> {ci.dest}
    [] exec \in {"jump_rel", "jump_abs"}     -> {ci.src2}
    [] exec = "l.nop"                        -> {ci.src1}
    [] OTHER                                 -> {}

\* Of every word, the decoder sets each pointer that the function it chose will
\* dereference - the two are kept in step by hand (decode.cpp:423-1555,
\* execute.cpp) - and it points into gpr, but for l.macrc, whose register
\* number is nine bits wide (decode.cpp:1245).
OperandsUsable ==
  ci # Nothing =>
    /\ Null \notin Dereferenced(ci.exec)
    /\ ci.exec # "l.macrc" =>
         \A o \in {ci.dest, ci.src1, ci.src2} : IsReg(o) => o.n < 32

\* the registers among up to three operands, in their order
Registers(list) ==
  LET Nth(i) == IF i \in DOMAIN list /\ IsReg(list[i]) THEN <<list[i]>> ELSE <<>>
  IN  Nth(1) \o Nth(2) \o Nth(3)

\* What the disassembler prints is what runs: the registers in the order of
\* the operands, and the immediate the function finds.  It prints nothing for
\* l.lwa, l.swa and the accumulator, a register that l.muld does not write, and
\* the sign extended immediate of l.muli as unsigned (disasm.cpp:257-426).
ListingTruthful ==
  (ci # Nothing /\ Shown # <<>> /\ ci.op \notin DoubleOps \cup {"l.muli"}) =>
    /\ Len(Shown) <= 3
    /\ ci.op # "l.nop" =>
         Registers(Shown)
           = Registers(<<ci.dest, IF ci.exec \in {"jump_rel", "jump_abs"} THEN Null ELSE ci.src1,
                         ci.src2>>)
    /\ \A i \in DOMAIN Shown : Shown[i].kind = "value" =>
         ci.imm = CASE ci.op = "l.movhi" -> SignExtend(Shown[i].n, 15) * 2^16
                    [] ci.op \in {"l.bf", "l.bnf", "l.j", "l.jal"} -> 4 * Shown[i].n
                    [] OTHER -> Shown[i].n

InRange(v) == -(Size \div 2) <= v /\ v < Size \div 2
Same(v, w) == (v - w) % Size = 0

\* The carry of l.addc is missed when the second operand is all ones and the
\* carry is set: the result is the first operand again (execute.cpp:398).
CarryMissed == ci.exec = "l.addc" /\ cpu.sr.cy /\ y = Size - 1

\* The result and the flags of an integer instruction, in terms of the numbers
\* (execute.cpp:312-771): what the code finds out by the signs and by wrapped
\* results is what they say.  l.ror does not rotate (execute.cpp:546).
IntegerMeaning ==
  LET sx == Signed(x)  sy == Signed(y)  r == d'  n == y % W
      sr == cpu'.sr    c == IF cpu.sr.cy THEN 1 ELSE 0
  IN  CASE ci.exec = "l.add" -> Same(r, x + y) /\ sr.cy = (x + y >= Size)
                                /\ sr.ov = ~InRange(sx + sy)
        [] ci.exec = "l.addc" -> /\ Same(r, x + y + c) /\ sr.ov = ~InRange(sx + sy + c)
                                 /\ CarryMissed \/ sr.cy = (x + y + c >= Size)
        [] ci.exec = "l.sub" -> Same(r, x - y) /\ sr.cy = (x < y) /\ sr.ov = ~InRange(sx - sy)
        [] ci.exec = "l.mul" -> Same(r, sx * sy) /\ sr.ov = ~InRange(sx * sy)
        [] ci.exec = "l.mulu" -> Same(r, x * y) /\ sr.cy = (x * y >= Size)
        [] ci.exec = "l.div" /\ y # 0 ->
             LET rest == sx - Signed(r) * sy
             IN  Magnitude(rest) < Magnitude(sy) /\ (rest = 0 \/ (rest < 0) = (sx < 0)) /\ ~sr.ov
        [] ci.exec = "l.divu" /\ y # 0 -> r * y <= x /\ x < (r + 1) * y /\ ~sr.cy
        [] ci.exec = "l.div" /\ y = 0  -> r = d /\ sr.ov
        [] ci.exec = "l.divu" /\ y = 0 -> r = d /\ sr.cy
        [] ci.exec = "l.sra"   -> Signed(r) = sx \div 2^n
        [] ci.exec = "l.sll"   -> \A i \in 0..(W - 1) :
                                    BitAt(r, i) = IF i < n THEN 0 ELSE BitAt(x, i - n)
        [] ci.exec \in {"l.and", "l.or", "l.xor"} -> \A i \in 0..(W - 1) :
             LET both == BitAt(x, i) + BitAt(y, i)
             IN  BitAt(r, i) = 1 <=> both \in (CASE ci.exec = "l.and" -> {2}
                                                 [] ci.exec = "l.or"  -> {1, 2}
                                                 [] ci.exec = "l.xor" -> {1})
        [] ci.exec \in {"l.exths", "l.extbs"} ->
             LET half == 2^((IF ci.exec = "l.exths" THEN Halfword ELSE Byte) - 1)
             IN  Signed(r) \in -half..(half - 1) /\ (Signed(r) - x) % (2 * half) = 0
        [] ci.exec = "l.ff1" -> IF x = 0 THEN r = 0 ELSE x % 2^r = 2^(r - 1)
        [] ci.exec = "l.fl1" -> IF x = 0 THEN r = 0 ELSE 2^(r - 1) <= x /\ x < 2^r
        [] ci.exec \in {"l.sfgts", "l.sflts"} ->
             sr.f = ((ci.exec = "l.sfgts") = (sx - sy > 0) /\ x # y)
        [] OTHER -> TRUE
ArithmeticExact == [][Stepped(IntegerExecs) => IntegerMeaning]_vars

\* The accumulator, kept in two words, holds the sum of all the products since
\* it was last set or read, whatever mix of signed and unsigned instructions
\* computed it; l.macrc reads its low word (execute.cpp:591-634, 773-859).
MacIsSum == /\ acc.sum % Double = mac.hi * Size + mac.lo
            /\ phase = "done" /\ ci.exec = "l.macrc" => mac = [hi |-> 0, lo |-> 0]

\* An exception of an instruction saves the status the instruction left, of
\* the mode it ran in, and where it is - the branch before it in a delay slot,
\* and behind it for EX_FP: unless it is raised twice, or before the last flag
\* is set (execute.cpp:397-423, or1k.h:774-866, or1k.cpp:388-398).
RaisedOnce ==
  CASE ci.exec \in {"l.addc", "l.sub"} ->
         ~(cpu'.sr.cy /\ cpu'.sr.ov) \/ "CYADDE" \notin setup.aecr
    [] ci.exec \in FpArithmetic -> Cardinality(fp'.flags) = 1
    [] OTHER -> TRUE
SavedStateExact ==
  [][(phase = "execute" /\ phase' = "done" /\ Faults /\ RaisedOnce) =>
       /\ cpu'.esr = [cpu.sr EXCEPT !.f = cpu'.sr.f, !.cy = cpu'.sr.cy, !.ov = cpu'.sr.ov]
       /\ cpu'.epc = CASE ci.exec \in FpArithmetic -> "next"
                       [] ci.exec \notin FpArithmetic /\ setup.slot -> "prev"
                       [] OTHER -> "here"
       /\ cpu'.sr.dsx = (setup.slot \/ cpu.sr.dsx)]_vars

\* Whatever accesses came before, the request of a load or store is exclusive
\* for l.lwa and l.swa alone, and only those touch SR_F; a load delivers the
\* bytes it asked for, extended, and one that faults can be repeated: register
\* and flag are as they were (execute.cpp:168-310, or1k.cpp:204-222).
AccessExact ==
  [][Stepped(Loads \cup Stores) =>
       LET n == 2^BitsOf(ci.exec)
       IN  /\ dreq' = [write |-> ci.exec \in Stores, excl |-> ci.exec \in ExclusiveExecs,
                       size |-> Bytes(ci.exec)]
           /\ (Faults \/ ci.exec \notin ExclusiveExecs) => cpu'.sr.f = cpu.sr.f
           /\ (Faults \/ ci.exec \in Stores) => d' = d
           /\ ~(Faults \/ ci.exec \in Stores) =>
                /\ d' % n = y % n
                /\ IF ci.exec \in {"l.lhs", "l.lbs"}
                   THEN Signed(d') \in -(n \div 2)..((n \div 2) - 1) ELSE d' < n]_vars

\* In user mode no l.mtspr or l.rfe writes a special purpose register or the
\* mode: only an exception leads to supervisor mode (spr.cpp:291-297,
\* execute.cpp:883-891).  What exceptions, the accumulator and the floating
\* point unit do to theirs is in cpu, mac and fp.
UserConfined ==
  [][(phase = "execute" /\ ~cpu.sr.sm) =>
       spr' = spr /\ (cpu'.sr.sm => Faults)]_vars

Unreadable == {"NPC", "PPC", "PICMR", "PICSR", "DTLB", "ITLB"}
\* What a register shows of what was last written to it: all of it, but for a
\* flush request to an MMU, which is not kept (mmu.cpp:73-78).
ReadsAs(r, val) == IF r \in {"DMMUCR", "IMMUCR"} THEN val - (val % 2) ELSE val

\* The registers are a memory: what supervisor code wrote to a register is read
\* back whatever it wrote elsewhere in between, and user code reads 0 unless
\* SR_SUMRA shows it the registers (spr.cpp:160-458).  The addresses of the
\* step, the controller's bits and the entries of the TLBs are not; PMR, TTMR
\* and TTCR are in other modules.
RegistersKeep ==
  [][Stepped({"l.mfspr"}) /\ reg \in Stored \ Unreadable =>
       d' = IF cpu.sr.sm \/ cpu.sr.sumra THEN ReadsAs(reg, kept[reg]) ELSE 0]_vars

\* After an operation FPCSR tells of what it did, and of nothing else as long
\* as no earlier one raised an exception on the host (or1k.h:774-866).
FpFlagsTell ==
  [][Stepped(FpArithmetic) =>
       /\ fp'.raised \subseteq fp'.flags
       /\ fp'.flags \subseteq fp'.raised \cup fp.host]_vars
=============================================================================
