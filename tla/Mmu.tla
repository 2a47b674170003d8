--------------------------------- MODULE Mmu ---------------------------------
(***************************************************************************)
(* class mmu: a set-associative TLB that is refilled from the page table   *)
(* by hardware and written and flushed by software through special purpose *)
(* registers.                                                              *)
(***************************************************************************)
EXTENDS Paging

CONSTANTS
  NumSets, NumWays,   \* geometry of the TLB
  AgeMod,             \* 4: the age of an entry has two bits
  HasRefill,          \* MMUCFG_HTR
  HasFlush,           \* MMUCFG_TEIRI
  MatchWrites,        \* what software writes to a match register
  TransWrites,        \* and to a translate register
  Tables,             \* the page tables it starts with
  TableWrites         \* and the entries it writes to them

TlbSets == 0 .. (NumSets - 1)
Ways == 0 .. (NumWays - 1)
Ages == 0 .. (AgeMod - 1)

Entries == [v : BOOLEAN, page : Pages, age : Ages, frame : Frames, bits : SUBSET Bits]
NoEntry == [v |-> FALSE, page |-> 0, age |-> 0, frame |-> 0, bits |-> {}]

ASSUME MmuAssumption ==
  /\ NumSets \in Nat \ {0} /\ NumWays \in Nat \ {0} /\ AgeMod \in Nat \ {0}
  /\ HasRefill \in BOOLEAN /\ HasFlush \in BOOLEAN
  /\ MatchWrites \subseteq [v : BOOLEAN, page : Pages, age : Ages]
  /\ TransWrites \subseteq [frame : Frames, bits : SUBSET Bits]
  /\ Tables \subseteq [Pages -> Ptes]
  /\ TableWrites \subseteq [page : Pages, pte : Ptes]

VARIABLES
  tlb,         \* m_tlb: a line of ways for every set
  table,       \* the page table, in memory
  directory,   \* does m_ctrl point to a page directory?
  request, answer   \* the last call, and what translate() answered last

TypeOK ==
  /\ tlb \in [TlbSets -> [Ways -> Entries]]
  /\ table \in [Pages -> Ptes] /\ directory \in BOOLEAN
  /\ request \in Calls /\ answer \in Answers

mmuVars == <<tlb, table, directory, request, answer>>

Flushed == [s \in TlbSets |-> [w \in Ways |-> NoEntry]]

MmuInit ==
  /\ tlb = Flushed
  /\ table \in Tables /\ directory = FALSE
  /\ request \in Requests /\ answer = TlbMiss

-----------------------------------------------------------------------------
(* A line of the TLB *)

SetOf(page) == page % NumSets

Matching(line, page) == {w \in Ways : line[w].v /\ line[w].page = page}

Lowest(S) == CHOOSE w \in S : \A x \in S : w <= x
Highest(S) == CHOOSE w \in S : \A x \in S : x <= w

(* mutant: only the first way that matches is flushed *)
WithoutFirst(line, page) ==
  [w \in Ways |-> IF Matching(line, page) # {} /\ w = Lowest(Matching(line, page))
                  THEN [line[w] EXCEPT !.v = FALSE] ELSE line[w]]

Without(line, page) ==
  [w \in Ways |-> IF line[w].page = page THEN [line[w] EXCEPT !.v = FALSE] ELSE line[w]]

(* mutant: the age carries into its neighbours *)
OlderUncut(line) ==
  [w \in Ways |-> IF line[w].v THEN [line[w] EXCEPT !.age = @ + 1] ELSE line[w]]

(* The age wraps around.                                                    *)
Older(line) ==
  [w \in Ways |-> IF line[w].v THEN [line[w] EXCEPT !.age = (@ + 1) % AgeMod] ELSE line[w]]

EmptyWay(line) ==
  LET free == {w \in Ways : ~line[w].v}
      oldest == {w \in Ways : \A x \in Ways : line[x].age <= line[w].age}
  IN  IF free # {} THEN Lowest(free) ELSE Highest(oldest)

Marks(r) == IF r.kind = "write" THEN {Accessed, Dirty} ELSE {Accessed}

-----------------------------------------------------------------------------
(* translate(): the answer, and the line as it leaves it.  A request of the *)
(* debugger ages, marks and stores nothing.                                 *)

OnHit(line, w, r) ==
  LET e == line[w]
      a == Answer(e.frame, e.bits, r)
      used == [Older(line) EXCEPT ![w].age = 0, ![w].bits = @ \cup Marks(r)]
  IN  [answer |-> a,
       line |-> IF r.kind = "debug" THEN line
                ELSE IF a = PageFault THEN Older(line) ELSE used]

(* mutant: the refilled entry is not marked valid *)
LoadedInvalid(r, pte) ==
  [v |-> FALSE, page |-> r.page, age |-> 0, frame |-> pte.frame,
   bits |-> LoadedBits(r, pte) \cup Marks(r)]

LoadedEntry(r, pte) ==
  [v |-> TRUE, page |-> r.page, age |-> 0, frame |-> pte.frame,
   bits |-> LoadedBits(r, pte) \cup Marks(r)]

OnMiss(line, r, pte) ==
  LET a == IF pte = NoPte \/ ~(HasRefill \/ r.kind = "debug") THEN TlbMiss
           ELSE Answer(pte.frame, LoadedBits(r, pte), r)
      aged == Older(line)
  IN  [answer |-> a,
       line |-> IF r.kind = "debug" THEN line
                ELSE IF a.result # "OKAY" THEN aged
                ELSE [aged EXCEPT ![EmptyWay(aged)] = LoadedEntry(r, pte)]]

Translation(line, r, pte) ==
  LET ways == Matching(line, r.page)
  IN  IF ways # {} THEN OnHit(line, Lowest(ways), r) ELSE OnMiss(line, r, pte)

(* What a table walk finds: nothing without a directory, nothing when the   *)
(* bus refuses one of the two accesses.                                     *)
WalkResults(page) == {NoPte} \cup (IF directory THEN {table[page]} ELSE {})

Translate(r, pte) ==
  LET t == Translation(tlb[SetOf(r.page)], r, pte)
  IN  /\ request' = r /\ answer' = t.answer
      /\ tlb' = [tlb EXCEPT ![SetOf(r.page)] = t.line]
      /\ UNCHANGED <<table, directory>>

-----------------------------------------------------------------------------
(* Special purpose registers, and the page table in memory *)

FlushEntry(page) ==
  /\ tlb' = [tlb EXCEPT ![SetOf(page)] = Without(@, page)]
  /\ request' = FlushOf(page)
  /\ UNCHANGED <<table, directory, answer>>

(* The control register: bit 0 flushes, the rest points to the directory.   *)
SetCr(flush, dir) ==
  /\ IF HasFlush /\ flush THEN tlb' = Flushed /\ request' = FlushOfAll
                          ELSE UNCHANGED <<tlb, request>>
  /\ directory' = dir
  /\ UNCHANGED <<table, answer>>

SetMatch(s, w, m) ==
  /\ tlb' = [tlb EXCEPT ![s][w] = [@ EXCEPT !.v = m.v, !.page = m.page, !.age = m.age]]
  /\ UNCHANGED <<table, directory, request, answer>>

SetTrans(s, w, t) ==
  /\ tlb' = [tlb EXCEPT ![s][w] = [@ EXCEPT !.frame = t.frame, !.bits = t.bits]]
  /\ UNCHANGED <<table, directory, request, answer>>

WriteTable(t) ==
  /\ table' = [table EXCEPT ![t.page] = t.pte]
  /\ UNCHANGED <<tlb, directory, request, answer>>

SoftwareActs ==
  \/ \E p \in Pages : FlushEntry(p)
  \/ \E flush \in BOOLEAN, dir \in BOOLEAN : SetCr(flush, dir)
  \/ \E s \in TlbSets, w \in Ways :
       \/ \E m \in MatchWrites : SetMatch(s, w, m)
       \/ \E t \in TransWrites : SetTrans(s, w, t)
  \/ \E t \in TableWrites : WriteTable(t)

MmuNext ==
  \/ \E r \in Requests : \E pte \in WalkResults(r.page) : Translate(r, pte)
  \/ SoftwareActs

MmuSpec == MmuInit /\ [][MmuNext]_mmuVars

-----------------------------------------------------------------------------
(* Properties *)

(* The mappings that a request can reach: valid, and in the set of their    *)
(* page.                                                                    *)
InPlace(t, s) == {w \in Ways : t[s][w].v /\ SetOf(t[s][w].page) = s}

ReachableIn(t) ==
  UNION {{MappingOf(t[s][w].page, t[s][w].frame, t[s][w].bits) : w \in InPlace(t, s)}
           : s \in TlbSets}

Reachable == ReachableIn(tlb)

(* mmu.cpp:113-250: the TLB, with its sets, ways and ages, is a page cache. *)
(* No answer comes from a mapping flushed since it was loaded, a mapping    *)
(* that is known answers whatever the page table says, rights are those of  *)
(* the mapping that answers, and the debugger leaves no trace.              *)
Cache == INSTANCE PageCache WITH known <- Reachable

ImplementsPageCache == Cache!PageCacheSpec

(* mmu.cpp:152-163, 219-245: a request that was granted is granted again at *)
(* once from the TLB, with the same frame and its marks set: the            *)
(* instruction that is restarted after its page was brought in goes on.     *)
Repeats(r, frame) ==
  \E w \in Ways :
    LET e == tlb'[SetOf(r.page)][w]
    IN  /\ e.v /\ e.page = r.page /\ e.frame = frame
        /\ Marks(r) \subseteq e.bits /\ Grants(e.bits, r)

GrantedRepeats ==
  [][\A r \in Requests : \A pte \in WalkResults(r.page) :
       Translate(r, pte) /\ r.kind # "debug" /\ answer'.result = "OKAY"
         => Repeats(r, answer'.frame)]_mmuVars

(* mmu.cpp:40, mmu.h:119-122: "replace the oldest entry", the ages being    *)
(* "most recently used" to "least recently used": bringing in a page never  *)
(* drops the page that was used last.                                       *)
UsedLast(e) ==
  /\ e.v /\ e.page = request.page /\ answer.result = "OKAY"
  /\ request \in Requests /\ request.kind # "debug"

NewestKept ==
  [][\A r \in Requests : \A pte \in WalkResults(r.page) :
       Translate(r, pte) =>
         \A s \in TlbSets, w \in Ways :
           UsedLast(tlb[s][w]) => tlb'[s][w].page = tlb[s][w].page]_mmuVars
===============================================================================
