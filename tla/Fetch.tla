-------------------------------- MODULE Fetch --------------------------------
(***************************************************************************)
(* or1k::fetch: the instruction MMU with its shortcut for the page the     *)
(* core is on, and the decode cache, between a program counter and the     *)
(* memory.                                                                 *)
(*                                                                         *)
(* An address is a page and the number of a word in it.  The topmost page  *)
(* of the address space is not among Pages: the shortcut takes it for the  *)
(* current one after reset.                                                *)
(***************************************************************************)
EXTENDS Mmu, Integers

CONSTANTS
  PageWords,    \* instruction words in a page
  CacheLines,   \* lines of the decode cache
  CacheOn,      \* is there one?
  Block,        \* words that a write to SPR_ICBIR invalidates
  Legal,        \* instruction words the simulator implements
  Unsupported,  \* those it knows but has no decoder for: l.cust2 to l.cust8, lf.cust1
  Illegal       \* and those it refuses as illegal: unknown ones and l.cust1

Offsets == 0 .. (PageWords - 1)
Words == 0 .. (NumFrames * PageWords - 1)
Insns == Legal \cup Unsupported \cup Illegal
Lines == 0 .. (CacheLines - 1)
None == -1

ASSUME FetchAssumption ==
  /\ PageWords \in Nat \ {0} /\ CacheLines \in Nat \ {0} /\ Block \in Nat \ {0}
  /\ CacheOn \in BOOLEAN /\ Legal # {}
  /\ Legal \cap Illegal = {} /\ Unsupported \cap (Legal \cup Illegal) = {}
  /\ NumPages <= NumFrames /\ Kinds = {"fetch"} /\ Modes = BOOLEAN

VARIABLES
  ime, sm,    \* the bits SR_IME and SR_SM
  ipg,        \* m_virt_ipg and m_phys_ipg
  cache,      \* m_decode_cache
  mem,        \* instruction words in memory
  got,        \* the last word read or found in the decode cache
  refused     \* words the host has been told of, by an error thrown out of
              \* fetch(), since their line was last filled or invalidated

fetchVars == <<mmuVars, ime, sm, ipg, cache, mem, got, refused>>

FetchTypeOK ==
  /\ TypeOK
  /\ ime \in BOOLEAN /\ sm \in BOOLEAN
  /\ ipg \in [virt : Pages \cup {None}, phys : Frames]
  /\ cache \in [Lines -> [tag : Words \cup {None}, insn : Legal \cup Unsupported,
                         exec : BOOLEAN]]
  /\ mem \in [Words -> Insns]
  /\ got \in [word : Words, insn : Insns]
  /\ refused \subseteq Words

FetchInit ==
  /\ MmuInit
  /\ ime = FALSE /\ sm = TRUE
  /\ ipg = [virt |-> None, phys |-> 0]
  /\ cache = [l \in Lines |-> [tag |-> None, insn |-> CHOOSE i \in Legal : TRUE,
                              exec |-> FALSE]]
  /\ mem \in [Words -> Legal]
  /\ got = [word |-> 0, insn |-> mem[0]]
  /\ refused = {}

-----------------------------------------------------------------------------
(* exception(): the handler runs in supervisor mode, the MMUs switched off. *)
Handler == ime' = FALSE /\ sm' = TRUE
Stays == UNCHANGED <<ime, sm>>

Line(w) == w % CacheLines

(* mutant: the tag is not compared *)
CachedUntagged(w) == CacheOn /\ cache[Line(w)].tag # None

Cached(w) == CacheOn /\ cache[Line(w)].tag = w

(* The line is cleared and tagged before the decoder of the opcode is       *)
(* called, which sets exec, the handler, as its last act.                   *)
Fill(w) ==
  cache' = [cache EXCEPT ![Line(w)] =
              [tag |-> w, insn |-> mem[w], exec |-> mem[w] \in Legal]]

OnOtherLines(w) == {x \in refused : Line(x) # Line(w)}

(* mutants: the line is tagged before the opcode is looked at; an opcode    *)
(* without a decoder raises an exception of the core, after it was tagged   *)
CompileUnchecked(w) ==
  \/ /\ mem[w] \in Legal
     /\ Fill(w) /\ refused' = OnOtherLines(w) /\ Stays
  \/ /\ mem[w] \in Unsupported
     /\ Fill(w) /\ refused' = OnOtherLines(w) \cup {w} /\ Stays
  \/ /\ mem[w] \in Illegal
     /\ Fill(w) /\ Handler /\ UNCHANGED refused

CompileSwallowed(w) ==
  \/ /\ mem[w] \in Legal
     /\ Fill(w) /\ refused' = OnOtherLines(w) /\ Stays
  \/ /\ mem[w] \in Unsupported
     /\ Fill(w) /\ Handler /\ UNCHANGED refused
  \/ /\ mem[w] \in Illegal
     /\ Handler /\ UNCHANGED <<cache, refused>>

(* A word was read.  An illegal one is an exception of the core and leaves  *)
(* the line as it was.  For an opcode without a decoder decode_na throws an *)
(* error at the host, the line already tagged and its handler null; main()  *)
(* ends the program on it, another host may catch it and step on.           *)
Compile(w) ==
  \/ /\ mem[w] \in Legal
     /\ Fill(w) /\ refused' = OnOtherLines(w) /\ Stays
  \/ /\ mem[w] \in Unsupported
     /\ Fill(w) /\ refused' = OnOtherLines(w) \cup {w} /\ Stays
  \/ /\ mem[w] \in Illegal
     /\ Handler /\ UNCHANGED <<cache, refused>>

(* The second half of fetch(): the physical address is known.               *)
Lookup(w, busError) ==
  \/ /\ Cached(w)
     /\ got' = [word |-> w, insn |-> cache[Line(w)].insn]
     /\ Stays /\ UNCHANGED <<cache, refused>>
  \/ /\ ~Cached(w) /\ busError
     /\ Handler /\ UNCHANGED <<cache, got, refused>>
  \/ /\ ~Cached(w) /\ ~busError
     /\ got' = [word |-> w, insn |-> mem[w]]
     /\ Compile(w)

Physical(frame, off) == frame * PageWords + off

FetchRequest(page) == [page |-> page, kind |-> "fetch", super |-> sm]

FetchUntranslated(page, off, busError) ==
  /\ ~ime
  /\ Lookup(Physical(page, off), busError)
  /\ UNCHANGED <<mmuVars, ipg, mem>>

(* Still on the same page: the MMU is not asked.                            *)
FetchOnPage(page, off, busError) ==
  /\ ime /\ ipg.virt = page
  /\ request' = FetchRequest(page) /\ answer' = Okay(ipg.phys)
  /\ Lookup(Physical(ipg.phys, off), busError)
  /\ UNCHANGED <<tlb, table, directory, ipg, mem>>

FetchTranslated(page, off, pte, busError) ==
  /\ ime /\ ipg.virt # page
  /\ Translate(FetchRequest(page), pte)
  /\ IF answer'.result = "OKAY"
     THEN /\ ipg' = [virt |-> page, phys |-> answer'.frame]
          /\ Lookup(Physical(answer'.frame, off), busError)
     ELSE Handler /\ UNCHANGED <<ipg, cache, got, refused>>
  /\ UNCHANGED mem

-----------------------------------------------------------------------------
(* What else reaches this state *)

(* A store of this core, of another or of the debugger.                     *)
Store(w, i) ==
  /\ mem' = [mem EXCEPT ![w] = i]
  /\ UNCHANGED <<mmuVars, ime, sm, ipg, cache, got, refused>>

InBlock(w) == {x \in Words : w <= x /\ x < w + Block}

(* l.mtspr to SPR_ICBIR; the address written is taken as it is.             *)
Invalidate(w) ==
  /\ cache' = [l \in Lines |-> IF cache[l].tag \in InBlock(w)
                               THEN [cache[l] EXCEPT !.tag = None] ELSE cache[l]]
  /\ refused' = refused \ InBlock(w)
  /\ UNCHANGED <<mmuVars, ime, sm, ipg, mem, got>>

(* l.rfe, l.mtspr to SPR_SR, exceptions of other parts of the core.         *)
SetStatus(translate, super) ==
  /\ ime' = translate /\ sm' = super
  /\ UNCHANGED <<mmuVars, ipg, cache, mem, got, refused>>

FetchNext ==
  \/ \E p \in Pages, o \in Offsets, e \in BOOLEAN :
       \/ FetchUntranslated(p, o, e)
       \/ FetchOnPage(p, o, e)
       \/ \E pte \in WalkResults(p) : FetchTranslated(p, o, pte, e)
  \/ \E w \in Words : \/ Invalidate(w)
                      \/ \E i \in Insns : Store(w, i)
  \/ \E t \in BOOLEAN, s \in BOOLEAN : SetStatus(t, s)
  \/ SoftwareActs /\ UNCHANGED <<ime, sm, ipg, cache, mem, got, refused>>

FetchSpec == FetchInit /\ [][FetchNext]_fetchVars

-----------------------------------------------------------------------------
(* Properties *)

Visible == [w \in Words |-> {mem[w]} \cup (IF Cached(w) THEN {cache[Line(w)].insn} ELSE {})]

(* insn.h:85-103, or1k.cpp:268-318: whatever is translated, stored and      *)
(* cached, the instruction executed is one that its word held since it was  *)
(* last invalidated, never one of another word.                             *)
Port == INSTANCE InsnMemory WITH
  visible <- Visible, Blocks <- {InBlock(w) : w \in Words}

ImplementsInsnMemory == Port!InsnMemorySpec

(* or1k.cpp:309-314, decode.cpp:1557-1560: a line of the decode cache that  *)
(* has no handler is executed by calling a null pointer.  However words are *)
(* stored, evicted, invalidated and read again, a fetch finds such a line   *)
(* only if the host was told of that very word and chose to step on: no     *)
(* illegal word and no bus error leaves one behind.                         *)
HalfLineReported ==
  \A w \in Words : Cached(w) /\ ~cache[Line(w)].exec => w \in refused

(* or1k.cpp:243-244: "First check if we are still on the same page. No need *)
(* to bother the MMU": the frame that is kept is the one the MMU would      *)
(* answer with, if it granted the request at all.                           *)
MmuAnswers(page) ==
  {Translation(tlb[SetOf(page)], FetchRequest(page), pte).answer : pte \in WalkResults(page)}

ShortcutAgrees ==
  [][\A p \in Pages, o \in Offsets, e \in BOOLEAN :
       FetchOnPage(p, o, e) =>
         \A a \in MmuAnswers(p) : a.result = "OKAY" => a.frame = ipg.phys]_fetchVars
===============================================================================
