--------------------------------- MODULE Spr ---------------------------------
(***************************************************************************)
(* The special purpose registers (spr.cpp, spr.h): who may read and write   *)
(* which of them, and what get_spr() and set_spr() do.  A value has two     *)
(* bits, which each register gives a meaning of its own.  PMR, TTMR and     *)
(* TTCR do more with a value than keep it: they are in Core and TickTimer.  *)
(***************************************************************************)
EXTENDS Naturals, FiniteSets

ReadOnly == {"VR", "UPR", "CPUCFGR", "DMMUCFGR", "IMMUCFGR", "DCCFGR", "ICCFGR",
             "DCFGR", "PCCFGR", "VR2", "AVR", "COREID", "NUMCORES"}
System   == {"EVBAR", "AECR", "AESR", "NPC", "SR", "PPC", "FPCSR", "EPCR", "EEAR", "ESR"}
MmuRegs  == {"DMMUCR", "DTLB", "IMMUCR", "ITLB"}
\* granted, but without a case in set_spr() or, for the ATBs, without a store
Ignored  == {"DMMUPR", "IMMUPR", "DCCR", "ICCR", "DATB", "IATB"}
Strobes  == {"DTLBEIR", "ITLBEIR", "DCBIR", "ICBIR"}
UserStrobes == {"DCBPR", "DCBFR", "DCBWR", "DCBLR", "ICBPR", "ICBLR"}
MacRegs  == {"MACHI", "MACLO"}
Devices  == {"PICMR", "PICSR"}
Unchecked == "unchecked"                            \* every number not listed

SPRs == ReadOnly \cup System \cup MmuRegs \cup Ignored \cup Strobes \cup UserStrobes
        \cup MacRegs \cup Devices \cup {"GPR", Unchecked}

\* spr_get_access()
Access(reg) ==
  CASE reg \in ReadOnly    -> {"SRE"}
    [] reg \in Strobes     -> {"SWE"}
    [] reg \in UserStrobes -> {"SWE", "UWE"}
    [] reg = Unchecked     -> {"SRE", "SWE", "URE", "UWE"}
    [] OTHER               -> {"SRE", "SWE"}

CheckAccess(reg, write, super) ==
  (IF super THEN IF write THEN "SWE" ELSE "SRE"
            ELSE IF write THEN "UWE" ELSE "URE") \in Access(reg)

\* the registers with a place to keep what is written; SR is the status itself
Stored == (System \ {"SR"}) \cup MmuRegs \cup MacRegs \cup Devices \cup {"GPR"}
NMI == 2                        \* the interrupts that cannot be masked
SprInit == [reg \in Stored |-> IF reg = "PICMR" THEN NMI ELSE 0]

\* m_status as a value: bit 0 is SR_SM and bit 1 SR_SUMRA, which the registers
\* depend on.  The other bits are not shown, and clear in what is written.
StatusValue(sr) == (IF sr.sm THEN 1 ELSE 0) + (IF sr.sumra THEN 2 ELSE 0)
StatusWritten(val) ==
  [f |-> FALSE, cy |-> FALSE, ov |-> FALSE, ove |-> FALSE, ie |-> FALSE, dsx |-> FALSE,
   sm |-> val % 2 = 1, sumra |-> (val \div 2) % 2 = 1]

\* get_spr(): what a read gives.  A register without a case gives 0, and so
\* does one that may not be read.
GetSpr(spr, sr, reg) ==
  IF ~CheckAccess(reg, FALSE, sr.sm \/ sr.sumra) THEN 0
  ELSE CASE reg = "SR"      -> StatusValue(sr)
         [] reg \in Stored  -> spr[reg]
         [] OTHER           -> 0

\* mmu::flush_tlb_entry(): bit 0 of an entry is its V, bit 1 the page
Invalidated(entry, ea) ==
  IF entry \div 2 = ea \div 2 THEN entry - (entry % 2) ELSE entry

AssignedHigh(spr, reg, val) ==                                      \* mutant
  [spr EXCEPT ![IF reg \in MacRegs THEN "MACHI" ELSE reg] = val]

Assigned(spr, reg, val) == [spr EXCEPT ![reg] = val]

\* set_spr(): what a granted write leaves in the registers.  mmu::set_cr()
\* empties the TLB on a flush request, bit 0, and drops the request.  PICMR
\* keeps the interrupts that cannot be masked; PICSR clears bits, unless the
\* lines are levels, and here has none set.
Written(spr, reg, val, level) ==
  CASE reg = "PICMR"   -> [spr EXCEPT !.PICMR = (val % 2) + NMI]
    [] reg = "PICSR"   -> IF level \/ val = 0 THEN spr ELSE [spr EXCEPT !.PICSR = 0]
    [] reg = "DTLBEIR" -> [spr EXCEPT !.DTLB = Invalidated(@, val)]
    [] reg = "ITLBEIR" -> [spr EXCEPT !.ITLB = Invalidated(@, val)]
    [] reg = "DMMUCR"  -> [spr EXCEPT !.DMMUCR = val - (val % 2),
                                      !.DTLB = IF val % 2 = 1 THEN 0 ELSE @]
    [] reg = "IMMUCR"  -> [spr EXCEPT !.IMMUCR = val - (val % 2),
                                      !.ITLB = IF val % 2 = 1 THEN 0 ELSE @]
    [] reg \in Stored \ {"PICMR", "PICSR", "DMMUCR", "IMMUCR"} -> Assigned(spr, reg, val)
    [] OTHER           -> spr

SetSprUnchecked(spr, sr, reg, val, level) ==                        \* mutant
  [spr |-> Written(spr, reg, val, level),
   sr  |-> IF reg = "SR" THEN StatusWritten(val) ELSE sr]

SetSpr(spr, sr, reg, val, level) ==
  IF ~CheckAccess(reg, TRUE, sr.sm) THEN [spr |-> spr, sr |-> sr]
  ELSE [spr |-> Written(spr, reg, val, level),
        sr  |-> IF reg = "SR" THEN StatusWritten(val) ELSE sr]

=============================================================================
