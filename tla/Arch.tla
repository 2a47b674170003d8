--------------------------------- MODULE Arch ---------------------------------
(***************************************************************************)
(* The order of execution the core promises to the program: a pipeline of  *)
(* two addresses, pc and npc, as delayed jumps ask for.  No counters, no   *)
(* quanta; exceptions are precise, interrupts fall between instructions.   *)
(***************************************************************************)
EXTENDS Integers

CONSTANTS
  AddrMod,     \* size of the address space
  Vector,      \* where each exception is handled
  Interrupts, Resuming, Restarting,  \* asynchronous exceptions, those that
               \* resume after the instruction, and those that repeat it
  Levels       \* the modes and enable bits of the status register

VARIABLES
  pc, npc,     \* the next instruction and the one after it
  branch,      \* the jump whose delay slot pc is at, or NoBranch
  sr, esr, epcr

archVars == <<pc, npc, branch, sr, esr, epcr>>

NoBranch == -1
Addresses == 0 .. (AddrMod - 1)
Following(a) == (a + 4) % AddrMod

ArchInit ==
  /\ pc \in Addresses /\ npc = Following(pc) /\ branch = NoBranch
  /\ sr \in Levels /\ sr.sm /\ esr \in Levels /\ epcr \in Addresses

Moves ==
  /\ pc' = npc /\ npc' = Following(npc)
  /\ branch' = NoBranch

Goes(a) ==
  /\ pc' = a /\ npc' = Following(a)
  /\ branch' = NoBranch

Instruction == Moves /\ UNCHANGED <<sr, esr, epcr>>

DelayedJump ==
  /\ branch = NoBranch
  /\ pc' = npc /\ npc' \in Addresses
  /\ branch' = pc
  /\ UNCHANGED <<sr, esr, epcr>>

(* What was interrupted is found again: a delay slot by its jump. *)
Resumption == IF branch # NoBranch THEN branch ELSE pc

Handles(type) ==
  /\ Goes(Vector[type])
  /\ esr' = sr
  /\ sr' = [sm |-> TRUE, tee |-> FALSE, iee |-> FALSE, dme |-> FALSE, ime |-> FALSE]

Faults == \E type \in Restarting : Handles(type) /\ epcr' = Resumption

Calls == \E type \in Resuming : Handles(type) /\ epcr' = npc

Interrupted ==
  /\ epcr' = Resumption
  /\ \/ sr.iee /\ Handles("EXTERNAL")
     \/ sr.tee /\ Handles("TICK_TIMER")

Returns ==
  /\ sr.sm
  /\ Goes(epcr) /\ sr' = esr
  /\ UNCHANGED <<esr, epcr>>

(* In user mode l.rfe finds neither EPCR nor ESR and gains no privilege. *)
ReturnRefused ==
  /\ ~sr.sm
  /\ Goes(0)
  /\ UNCHANGED <<sr, esr, epcr>>

WritesStatus == sr.sm /\ Moves /\ sr' \in Levels /\ UNCHANGED <<esr, epcr>>
WritesEsr == sr.sm /\ Moves /\ esr' \in Levels /\ UNCHANGED <<sr, epcr>>
WritesEpcr == sr.sm /\ Moves /\ epcr' \in Addresses /\ UNCHANGED <<sr, esr>>

ArchNext ==
  \/ Instruction
  \/ DelayedJump
  \/ Faults
  \/ Calls
  \/ Interrupted
  \/ Returns
  \/ ReturnRefused
  \/ WritesStatus
  \/ WritesEsr
  \/ WritesEpcr

ArchSpec == ArchInit /\ [][ArchNext]_archVars
=============================================================================
