-------------------------------- MODULE Paging --------------------------------
(***************************************************************************)
(* Pages, page table entries and requests, as class mmu and the page cache *)
(* it promises to be both see them.  A word of flags is the set of the     *)
(* positions of its bits: 4 accessed, 5 dirty, 6 to 9 access rights, 10    *)
(* the bit by which Linux marks a page executable.                         *)
(***************************************************************************)
EXTENDS Naturals

CONSTANTS
  NumPages,    \* virtual pages
  NumFrames,   \* physical pages
  PteWords,    \* the page table entries of the program
  Kinds,       \* the requests made of this MMU
  Modes        \* and in which modes: TRUE is supervisor mode

Pages == 0 .. (NumPages - 1)
Frames == 0 .. (NumFrames - 1)

Accessed == 4
Dirty == 5
Rights == 6 .. 9
Exec == 10
Bits == {Accessed, Dirty, Exec} \cup Rights

ASSUME PagingAssumption ==
  /\ NumPages \in Nat \ {0} /\ NumFrames \in Nat \ {0}
  /\ PteWords \subseteq [frame : Frames, bits : SUBSET Bits]
  /\ Kinds \subseteq {"fetch", "read", "write", "debug"} /\ Modes \subseteq BOOLEAN

Requests == [page : Pages, kind : Kinds, super : Modes]

(* A flush is a call like a request: of one page, or of all.                *)
FlushOf(page) == [page |-> page, kind |-> "flush", super |-> TRUE]
FlushOfAll == [page |-> 0, kind |-> "flush_all", super |-> TRUE]
Calls == Requests \cup {FlushOf(p) : p \in Pages} \cup {FlushOfAll}

(* The bits of which one must be set for the request to be granted.  Rights *)
(* to execute share the positions of rights of user mode.                   *)
Mask(r) ==
  CASE r.kind = "debug" -> Rights
    [] r.kind = "fetch" -> IF r.super THEN {6} ELSE {7}
    [] r.kind = "write" -> IF r.super THEN {9} ELSE {7}
    [] r.kind = "read"  -> IF r.super THEN {8} ELSE {6}

Grants(bits, r) == r.kind = "debug" \/ bits \cap Mask(r) # {}

(* A page table entry; a word of zeros is none.                             *)
NoPte == [frame |-> 0, bits |-> {}]
Ptes == PteWords \cup {NoPte}

(* The flags of an entry that a table walk brings in for r.                 *)
LoadedBits(r, pte) ==
  pte.bits \cup (IF r.kind = "fetch" /\ Exec \in pte.bits THEN {6, 7} ELSE {})

(* A mapping without the flags that mere use of it sets.                    *)
Mappings == [page : Pages, frame : Frames, bits : SUBSET Bits]
MappingOf(page, frame, bits) ==
  [page |-> page, frame |-> frame, bits |-> bits \ {Accessed, Dirty}]

(* What the MMU answers.                                                    *)
Okay(frame) == [result |-> "OKAY", frame |-> frame]
TlbMiss == [result |-> "TLB_MISS", frame |-> 0]
PageFault == [result |-> "PAGE_FAULT", frame |-> 0]
Answers == {Okay(f) : f \in Frames} \cup {TlbMiss, PageFault}

Answer(frame, bits, r) == IF Grants(bits, r) THEN Okay(frame) ELSE PageFault
===============================================================================
