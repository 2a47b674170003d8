-------------------------------- MODULE MCCore --------------------------------
(* Instances of Core for TLC: three or four instruction words of memory, with *)
(* the exception vectors at its low end.                                     *)
EXTENDS Core

(* the word at 4 is the handler of interrupts, the word at 8 of the rest *)
MCVector == [e \in Exceptions |-> IF e \in Interrupts THEN 4 ELSE 8]

Kernel == [NoStatus EXCEPT !.sm = TRUE]
Open == [Kernel EXCEPT !.iee = TRUE, !.tee = TRUE]
Full == [Open EXCEPT !.dme = TRUE, !.ime = TRUE]
KernelFull == [Full EXCEPT !.tee = FALSE]
UserFull == [Full EXCEPT !.sm = FALSE]

None == {}
Zero == {0}
One == {1}
Four == {4}
Two == {2}
Three == {3}
ZeroTwo == {0, 2}
Yes == {TRUE}

Ttmr(m, ips, p) == [mode : {m}, ie : {TRUE}, ip : ips, tp : {p}]

AluOps == {"alu"}

(* core_program: everything that decides which instruction comes next, with *)
(* a fault in every place, a misaligned jump target and a breakpoint at the *)
(* vector of interrupts                                                     *)
ProgramOps == {"alu", "jump", "mem", "fault", "range", "sys", "trap", "fp",
               "rfe", "epcr", "esr", "sr", "ttmr"}
ProgramSlotOps == {"alu", "mem", "fault", "range", "trap"}
ProgramTargets == {0, 10}
ProgramStatuses == {KernelFull, UserFull}
ProgramTtmr == Ttmr("OS", BOOLEAN, 1)

(* core_host: everything that costs cycles, ends a call early, moves the   *)
(* tick timer, or leads to a breakpoint: in line, a jump, an exception, a   *)
(* return, a write to SPR_NPC                                               *)
HostOps == {"alu", "jump", "mem", "rfe", "npc", "spr", "sr", "pmr", "pic",
            "ttmr", "ttcr", "exit", "cnt_reset"}
HostTargets == {4}
HostNpcs == {4}
HostStatuses == {Open}
HostTtmr == Ttmr("RS", {FALSE}, 2)

(* core_pmr: doze() out of a write to SPR_PMR *)
OpenOnly == {Open}
PmrTtmr == Ttmr("RS", BOOLEAN, 2)
PmrOps == {"alu", "pmr", "sr", "ttmr"}
=============================================================================
