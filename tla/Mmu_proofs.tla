------------------------------ MODULE Mmu_proofs ------------------------------
(***************************************************************************)
(* Theorems about Mmu, for every geometry of the TLB, every page table and *)
(* everything software may write.                                          *)
(***************************************************************************)
EXTENDS Mmu, TLAPS, WellFoundedInduction

-----------------------------------------------------------------------------
(* The word of a page table, its flags and the answers                     *)

LEMMA ZeroInPages == 0 \in Pages /\ 0 \in Frames
BY PagingAssumption DEF Pages, Frames

LEMMA PteType ==
  ASSUME NEW pte \in Ptes
  PROVE  pte.frame \in Frames /\ pte.bits \in SUBSET Bits
BY PagingAssumption, ZeroInPages DEF Ptes, NoPte

LEMMA LoadedBitsType ==
  ASSUME NEW r \in Requests, NEW pte \in Ptes
  PROVE  LoadedBits(r, pte) \in SUBSET Bits
<1>1. {6, 7} \subseteq Bits
  BY DEF Bits, Rights
<1>2. QED
  BY <1>1, PteType DEF LoadedBits

LEMMA AnswerType ==
  ASSUME NEW f \in Frames, NEW b, NEW r
  PROVE  /\ Answer(f, b, r) \in Answers
         /\ Answer(f, b, r) = Okay(f) \/ Answer(f, b, r) = PageFault
BY DEF Answer, Answers

LEMMA AnswersDiffer ==
  ASSUME NEW f \in Frames
  PROVE  /\ Okay(f).result = "OKAY" /\ Okay(f).frame = f
         /\ PageFault.result # "OKAY" /\ TlbMiss.result # "OKAY"
         /\ Okay(f) # PageFault
BY DEF Okay, PageFault, TlbMiss

LEMMA MarksType == ASSUME NEW r PROVE Marks(r) \subseteq {Accessed, Dirty} /\ Marks(r) \subseteq Bits
BY DEF Marks, Bits

LEMMA WalkResultsType ==
  ASSUME TypeOK, NEW p \in Pages, NEW pte \in WalkResults(p)
  PROVE  pte \in Ptes
BY DEF TypeOK, WalkResults, Ptes

-----------------------------------------------------------------------------
(* Lines                                                                    *)

TlbLines == [Ways -> Entries]

LEMMA SetOfType == ASSUME NEW p \in Pages PROVE SetOf(p) \in TlbSets
BY MmuAssumption DEF SetOf, TlbSets, Pages

LEMMA FlushedType == Flushed \in [TlbSets -> TlbLines]
<1>1. NoEntry \in Entries
  BY ZeroInPages, MmuAssumption DEF NoEntry, Entries, Ages
<1>2. QED
  BY <1>1 DEF Flushed, TlbLines

LEMMA WithoutType ==
  ASSUME NEW line \in TlbLines, NEW p \in Pages
  PROVE  Without(line, p) \in TlbLines
BY DEF Without, TlbLines, Entries

LEMMA OlderType ==
  ASSUME NEW line \in TlbLines
  PROVE  /\ Older(line) \in TlbLines
         /\ \A w \in Ways : /\ Older(line)[w].v = line[w].v
                            /\ Older(line)[w].page = line[w].page
                            /\ Older(line)[w].frame = line[w].frame
                            /\ Older(line)[w].bits = line[w].bits
<1>1. \A a \in Ages : (a + 1) % AgeMod \in Ages
  BY MmuAssumption DEF Ages
<1>2. QED
  BY <1>1 DEF Older, TlbLines, Entries

-----------------------------------------------------------------------------
(* Least and greatest elements: the ways that lines choose exist            *)

LEMMA HasLeast ==
  ASSUME NEW S \in SUBSET Nat, S # {}
  PROVE  \E m \in S : \A x \in S : m <= x
<1> DEFINE Below == OpToRel(<, Nat)
<1>1. IsWellFoundedOn(Below, Nat)
  BY NatLessThanWellFounded
<1>2. \A x, m \in Nat : x < m => <<x, m>> \in Below
  BY DEF OpToRel
<1> HIDE DEF Below
<1>3. PICK m \in S : \A x \in S : ~ (<<x, m>> \in Below)
  BY <1>1, WFMin
<1>4. \A x \in S : ~ (x < m)
  BY <1>2, <1>3
<1>5. QED
  BY <1>4

LEMMA HasGreatest ==
  ASSUME NEW n \in Nat, NEW S \in SUBSET (0 .. n), S # {}
  PROVE  \E m \in S : \A x \in S : x <= m
<1> DEFINE T == {y \in Nat : n - y \in S}
<1>1. PICK x0 \in S : TRUE
  OBVIOUS
<1>2. n - x0 \in T
  BY <1>1
<1>3. PICK m \in T : \A x \in T : m <= x
  BY <1>2, HasLeast
<1>4. n - m \in S /\ m \in Nat
  BY <1>3
<1>5. ASSUME NEW x \in S PROVE x <= n - m
  <2>1. n - x \in T
    OBVIOUS
  <2>2. m <= n - x
    BY <1>3, <2>1
  <2>3. QED
    BY <1>4, <2>2
<1>6. QED
  BY <1>4, <1>5

LEMMA LowestIn ==
  ASSUME NEW S \in SUBSET Ways, S # {}
  PROVE  Lowest(S) \in S
<1>1. S \in SUBSET Nat
  BY MmuAssumption DEF Ways
<1>2. \E m \in S : \A x \in S : m <= x
  BY <1>1, HasLeast
<1>3. QED
  BY <1>2 DEF Lowest

LEMMA HighestIn ==
  ASSUME NEW S \in SUBSET Ways, S # {}
  PROVE  Highest(S) \in S
<1>1. NumWays - 1 \in Nat /\ S \in SUBSET (0 .. (NumWays - 1))
  BY MmuAssumption DEF Ways
<1>2. \E m \in S : \A x \in S : x <= m
  BY <1>1, HasGreatest
<1>3. QED
  BY <1>2 DEF Highest

(* A way is always found for a new entry.                                   *)
LEMMA EmptyWayExists ==
  ASSUME NEW line \in TlbLines
  PROVE  EmptyWay(line) \in Ways
<1> DEFINE free == {w \in Ways : ~line[w].v}
           oldest == {w \in Ways : \A x \in Ways : line[x].age <= line[w].age}
<1>1. CASE free # {}
  BY <1>1, LowestIn DEF EmptyWay
<1>2. CASE free = {}
  <2> DEFINE A == {line[w].age : w \in Ways}
  <2>1. 0 \in Ways
    BY MmuAssumption DEF Ways
  <2>2. A \in SUBSET (0 .. (AgeMod - 1)) /\ AgeMod - 1 \in Nat
    BY MmuAssumption DEF TlbLines, Entries, Ages
  <2>3. A # {}
    BY <2>1
  <2>4. PICK a \in A : \A x \in A : x <= a
    BY <2>2, <2>3, HasGreatest
  <2>5. oldest # {}
    BY <2>4
  <2>6. Highest(oldest) \in Ways
    BY <2>5, HighestIn
  <2>7. QED
    BY <1>2, <2>6 DEF EmptyWay
<1>3. QED
  BY <1>1, <1>2

-----------------------------------------------------------------------------
(* Types                                                                    *)

LEMMA LoadedEntryType ==
  ASSUME NEW r \in Requests, NEW pte \in Ptes
  PROVE  LoadedEntry(r, pte) \in Entries
<1>1. LoadedBits(r, pte) \in SUBSET Bits /\ Marks(r) \subseteq Bits
  BY LoadedBitsType, MarksType
<1>2. 0 \in Ages /\ r.page \in Pages /\ pte.frame \in Frames
  BY PteType, MmuAssumption DEF Ages, Requests
<1>3. QED
  BY <1>1, <1>2 DEF LoadedEntry, Entries

LEMMA OnHitType ==
  ASSUME NEW line \in TlbLines, NEW w \in Ways, NEW r \in Requests
  PROVE  /\ OnHit(line, w, r).line \in TlbLines
         /\ OnHit(line, w, r).answer \in Answers
<1>1. Older(line) \in TlbLines
  BY OlderType
<1>2. line[w].frame \in Frames
  BY DEF TlbLines, Entries
<1>3. 0 \in Ages /\ Marks(r) \subseteq Bits
  BY MmuAssumption, MarksType DEF Ages
<1>4. [Older(line) EXCEPT ![w].age = 0, ![w].bits = @ \cup Marks(r)] \in TlbLines
  BY <1>1, <1>3 DEF TlbLines, Entries
<1>5. QED
  BY <1>1, <1>2, <1>4, AnswerType DEF OnHit

LEMMA OnMissType ==
  ASSUME NEW line \in TlbLines, NEW r \in Requests, NEW pte \in Ptes
  PROVE  /\ OnMiss(line, r, pte).line \in TlbLines
         /\ OnMiss(line, r, pte).answer \in Answers
<1>1. Older(line) \in TlbLines
  BY OlderType
<1>2. [Older(line) EXCEPT ![EmptyWay(Older(line))] = LoadedEntry(r, pte)] \in TlbLines
  BY <1>1, LoadedEntryType DEF TlbLines
<1>3. Answer(pte.frame, LoadedBits(r, pte), r) \in Answers /\ TlbMiss \in Answers
  BY PteType, AnswerType DEF Answers
<1>4. QED
  BY <1>1, <1>2, <1>3 DEF OnMiss

LEMMA TranslationType ==
  ASSUME NEW line \in TlbLines, NEW r \in Requests, NEW pte \in Ptes
  PROVE  /\ Translation(line, r, pte).line \in TlbLines
         /\ Translation(line, r, pte).answer \in Answers
<1>1. CASE Matching(line, r.page) # {}
  <2>1. Lowest(Matching(line, r.page)) \in Ways
    BY <1>1, LowestIn DEF Matching
  <2>2. QED
    BY <1>1, <2>1, OnHitType DEF Translation
<1>2. CASE Matching(line, r.page) = {}
  BY <1>2, OnMissType DEF Translation
<1>3. QED
  BY <1>1, <1>2

LEMMA MmuInitType == MmuInit => TypeOK
<1>1. FlushOfAll \in Calls /\ TlbMiss \in Answers
  BY DEF Calls, Answers
<1>2. QED
  BY <1>1, FlushedType, MmuAssumption DEF MmuInit, TypeOK, TlbLines, Calls

LEMMA TranslateType ==
  ASSUME TypeOK, NEW r \in Requests, NEW pte \in WalkResults(r.page), Translate(r, pte)
  PROVE  TypeOK'
<1>1. r.page \in Pages
  BY DEF Requests
<1>2. pte \in Ptes /\ tlb[SetOf(r.page)] \in TlbLines
  BY <1>1, WalkResultsType, SetOfType DEF TypeOK, TlbLines
<1>3. /\ Translation(tlb[SetOf(r.page)], r, pte).line \in TlbLines
      /\ Translation(tlb[SetOf(r.page)], r, pte).answer \in Answers
  BY <1>2, TranslationType
<1>4. tlb' \in [TlbSets -> TlbLines]
  BY <1>3 DEF Translate, TypeOK, TlbLines
<1>5. QED
  BY <1>3, <1>4 DEF Translate, TypeOK, TlbLines, Calls

LEMMA SoftwareType == ASSUME TypeOK, SoftwareActs PROVE TypeOK'
<1>1. ASSUME NEW p \in Pages, FlushEntry(p) PROVE TypeOK'
  <2>1. tlb[SetOf(p)] \in TlbLines
    BY SetOfType DEF TypeOK, TlbLines
  <2>2. Without(tlb[SetOf(p)], p) \in TlbLines
    BY <2>1, WithoutType
  <2>3. QED
    BY <1>1, <2>2 DEF FlushEntry, TypeOK, TlbLines, Calls
<1>2. ASSUME NEW f \in BOOLEAN, NEW d \in BOOLEAN, SetCr(f, d) PROVE TypeOK'
  BY <1>2, FlushedType DEF SetCr, TypeOK, TlbLines, Calls
<1>3. ASSUME NEW s \in TlbSets, NEW w \in Ways, NEW m \in MatchWrites, SetMatch(s, w, m)
      PROVE  TypeOK'
  <2>1. m.v \in BOOLEAN /\ m.page \in Pages /\ m.age \in Ages
    BY MmuAssumption
  <2>2. [tlb[s][w] EXCEPT !.v = m.v, !.page = m.page, !.age = m.age] \in Entries
    <3>1. tlb[s][w] \in Entries
      BY DEF TypeOK
    <3>2. QED
      BY <2>1, <3>1 DEF Entries
  <2>3. QED
    BY <1>3, <2>2 DEF SetMatch, TypeOK
<1>4. ASSUME NEW s \in TlbSets, NEW w \in Ways, NEW t \in TransWrites, SetTrans(s, w, t)
      PROVE  TypeOK'
  <2>1. t.frame \in Frames /\ t.bits \in SUBSET Bits
    BY MmuAssumption
  <2>2. [tlb[s][w] EXCEPT !.frame = t.frame, !.bits = t.bits] \in Entries
    <3>1. tlb[s][w] \in Entries
      BY DEF TypeOK
    <3>2. QED
      BY <2>1, <3>1 DEF Entries
  <2>3. QED
    BY <1>4, <2>2 DEF SetTrans, TypeOK
<1>5. ASSUME NEW t \in TableWrites, WriteTable(t) PROVE TypeOK'
  <2>1. t.pte \in Ptes
    BY MmuAssumption
  <2>2. QED
    BY <1>5, <2>1 DEF WriteTable, TypeOK
<1>6. QED
  BY <1>1, <1>2, <1>3, <1>4, <1>5 DEF SoftwareActs

(* The TLB stays a TLB, whatever is translated, flushed or written.         *)
THEOREM TypeCorrect == MmuSpec => []TypeOK
<1>1. TypeOK /\ [MmuNext]_mmuVars => TypeOK'
  <2> SUFFICES ASSUME TypeOK, [MmuNext]_mmuVars PROVE TypeOK'
    OBVIOUS
  <2>1. CASE UNCHANGED mmuVars
    BY <2>1 DEF mmuVars, TypeOK
  <2>2. QED
    BY <2>1, TranslateType, SoftwareType DEF MmuNext
<1>2. QED
  BY MmuInitType, <1>1, PTL DEF MmuSpec

-----------------------------------------------------------------------------
(* The mappings a TLB holds                                                 *)

Tlbs == [TlbSets -> TlbLines]

(* A way that holds m, in the set of its page.                              *)
Holds(t, s, w, m) ==
  /\ s \in TlbSets /\ w \in Ways /\ t[s][w].v /\ SetOf(t[s][w].page) = s
  /\ m = MappingOf(t[s][w].page, t[s][w].frame, t[s][w].bits)

LEMMA ReachableIs ==
  ASSUME NEW t, NEW m
  PROVE  m \in ReachableIn(t) <=> \E s, w : Holds(t, s, w, m)
BY DEF ReachableIn, InPlace, Holds

(* Entries that differ in age and marks only stand for the same mapping.    *)
Alike(e, f) ==
  /\ e.v = f.v /\ e.page = f.page /\ e.frame = f.frame
  /\ e.bits \ {Accessed, Dirty} = f.bits \ {Accessed, Dirty}

LEMMA AlikeReach ==
  ASSUME NEW t, NEW u,
         \A s \in TlbSets, w \in Ways : Alike(t[s][w], u[s][w])
  PROVE  ReachableIn(t) = ReachableIn(u)
<1>1. \A s, w, m : Holds(t, s, w, m) <=> Holds(u, s, w, m)
  BY DEF Alike, Holds, MappingOf
<1>2. \A m : m \in ReachableIn(t) <=> m \in ReachableIn(u)
  BY <1>1, ReachableIs
<1>3. QED
  BY <1>2

(* What is known of a page is what the line of its set matches.             *)
LEMMA KnownIs ==
  ASSUME NEW p \in Pages, NEW m
  PROVE  m \in Cache!KnownOf(p) <=>
           \E w \in Matching(tlb[SetOf(p)], p) :
             m = MappingOf(p, tlb[SetOf(p)][w].frame, tlb[SetOf(p)][w].bits)
<1>1. m \in Cache!KnownOf(p) <=> m \in ReachableIn(tlb) /\ m.page = p
  BY DEF Cache!KnownOf, Reachable
<1>2. \A s, w : Holds(tlb, s, w, m) => m.page = tlb[s][w].page
  BY DEF Holds, MappingOf
<1>3. m.page = p /\ (\E s, w : Holds(tlb, s, w, m)) <=>
        \E w \in Matching(tlb[SetOf(p)], p) :
          m = MappingOf(p, tlb[SetOf(p)][w].frame, tlb[SetOf(p)][w].bits)
  <2>1. ASSUME NEW s, NEW w, Holds(tlb, s, w, m), m.page = p
        PROVE  w \in Matching(tlb[SetOf(p)], p) /\
               m = MappingOf(p, tlb[SetOf(p)][w].frame, tlb[SetOf(p)][w].bits)
    BY <1>2, <2>1 DEF Holds, Matching
  <2>2. ASSUME NEW w \in Matching(tlb[SetOf(p)], p),
               m = MappingOf(p, tlb[SetOf(p)][w].frame, tlb[SetOf(p)][w].bits)
        PROVE  m.page = p /\ Holds(tlb, SetOf(p), w, m)
    <3>1. m.page = p
      BY <2>2 DEF MappingOf
    <3>2. SetOf(p) \in TlbSets
      BY SetOfType
    <3>3. QED
      BY <2>2, <3>1, <3>2 DEF Holds, Matching
  <2>3. QED
    BY <2>1, <2>2
<1>4. QED
  BY <1>1, <1>3, ReachableIs

LEMMA GrantsUnmarked ==
  ASSUME NEW b, NEW r \in Requests
  PROVE  Grants(b \ {Accessed, Dirty}, r) <=> Grants(b, r)
<1>1. Accessed \notin Mask(r) /\ Dirty \notin Mask(r)
  <2>1. r.kind \in {"fetch", "read", "write", "debug"}
    BY PagingAssumption DEF Requests
  <2>2. QED
    BY <2>1 DEF Mask, Rights, Accessed, Dirty
<1>2. (b \ {Accessed, Dirty}) \cap Mask(r) = b \cap Mask(r)
  BY <1>1
<1>3. QED
  BY <1>2 DEF Grants

-----------------------------------------------------------------------------
(* Every step of the TLB is one of a page cache                             *)

(* The definitions of Paging, seen through the instance, are the same.      *)
LEMMA SameAnswer ==
  ASSUME NEW f, NEW b, NEW r
  PROVE  Cache!Answer(f, b, r) = Answer(f, b, r)
<1>1. Cache!Mask(r) = Mask(r)
  BY DEF Cache!Mask, Mask, Cache!Rights, Rights
<1>2. QED
  BY <1>1 DEF Cache!Answer, Answer, Cache!Grants, Grants, Cache!Okay, Okay,
              Cache!PageFault, PageFault

LEMMA SameMapping ==
  /\ \A p, f, b : Cache!MappingOf(p, f, b) = MappingOf(p, f, b)
  /\ \A r, pte : Cache!LoadedBits(r, pte) = LoadedBits(r, pte)
BY DEF Cache!MappingOf, MappingOf, Cache!LoadedBits, LoadedBits, Cache!Accessed,
       Accessed, Cache!Dirty, Dirty, Cache!Exec, Exec

LEMMA SameWalks ==
  /\ Cache!NoPte = NoPte /\ Cache!TlbMiss = TlbMiss
  /\ \A p : Cache!Walks(p) = WalkResults(p)
BY DEF Cache!NoPte, NoPte, Cache!TlbMiss, TlbMiss, Cache!Walks, WalkResults

LEMMA HitAsks ==
  ASSUME TypeOK, NEW r \in Requests, NEW pte \in WalkResults(r.page),
         Translate(r, pte), Matching(tlb[SetOf(r.page)], r.page) # {}
  PROVE  Cache!Ask(r)
<1> DEFINE line == tlb[SetOf(r.page)]
           w == Lowest(Matching(line, r.page))
           e == line[w]
           m == MappingOf(r.page, e.frame, e.bits)
<1>1. /\ r.page \in Pages /\ SetOf(r.page) \in TlbSets
      /\ line \in TlbLines /\ tlb \in Tlbs
  BY SetOfType DEF Requests, TypeOK, TlbLines, Tlbs
<1>2. w \in Matching(line, r.page) /\ w \in Ways
  BY LowestIn DEF Matching
<1>3. m \in Cache!KnownOf(r.page)
  BY <1>1, <1>2, KnownIs
<1>4. Translation(line, r, pte) = OnHit(line, w, r)
  BY DEF Translation
<1>5. answer' = Answer(e.frame, e.bits, r)
  <2>1. answer' = Translation(line, r, pte).answer
    BY DEF Translate
  <2>2. OnHit(line, w, r).answer = Answer(e.frame, e.bits, r)
    BY DEF OnHit
  <2> HIDE DEF line, w, e
  <2> QED
    BY <2>1, <2>2, <1>4
<1>6. answer' = Answer(m.frame, m.bits, r)
  BY <1>5, GrantsUnmarked DEF Answer, MappingOf
<1>7. \A x \in Ways : Alike(tlb[SetOf(r.page)][x], OnHit(line, w, r).line[x])
  <2>1. Older(line) \in TlbLines
    BY <1>1, OlderType
  <2>2. \A x \in Ways : Alike(line[x], Older(line)[x])
    BY <1>1, OlderType DEF Alike
  <2> DEFINE used == [Older(line) EXCEPT ![w].age = 0, ![w].bits = @ \cup Marks(r)]
  <2>3. \A x \in Ways : Alike(Older(line)[x], used[x])
    BY <2>1, <1>2, MarksType DEF Alike, TlbLines, Entries
  <2>4. \A x \in Ways : Alike(line[x], used[x])
    BY <2>2, <2>3 DEF Alike
  <2>5. \A x \in Ways : Alike(line[x], line[x])
    BY DEF Alike
  <2>6. QED
    BY <2>2, <2>4, <2>5 DEF OnHit
<1>8. Reachable' = Reachable
  <2>1. tlb' = [tlb EXCEPT ![SetOf(r.page)] = OnHit(line, w, r).line]
    BY <1>4 DEF Translate
  <2>2. \A s \in TlbSets, x \in Ways : Alike(tlb[s][x], tlb'[s][x])
    BY <1>1, <1>7, <2>1 DEF Alike, Tlbs
  <2>3. QED
    BY <2>2, AlikeReach DEF Reachable
<1>9. QED
  <2>1. answer' = Cache!Answer(m.frame, m.bits, r)
    BY <1>6, SameAnswer
  <2>2. request' = r /\ UNCHANGED <<table, directory>>
    BY DEF Translate
  <2> HIDE DEF m
  <2>3. Cache!Answered(r) /\ Cache!KnownOf(r.page) # {}
    BY <1>3, <2>1 DEF Cache!Answered
  <2>4. QED
    BY <1>8, <2>2, <2>3 DEF Cache!Ask

LEMMA MissAsks ==
  ASSUME TypeOK, NEW r \in Requests, NEW pte \in WalkResults(r.page),
         Translate(r, pte), Matching(tlb[SetOf(r.page)], r.page) = {}
  PROVE  Cache!Ask(r)
<1> DEFINE line == tlb[SetOf(r.page)]
           a == OnMiss(line, r, pte).answer
           aged == Older(line)
           m == MappingOf(r.page, pte.frame, LoadedBits(r, pte))
<1>1. /\ r.page \in Pages /\ SetOf(r.page) \in TlbSets
      /\ line \in TlbLines /\ tlb \in Tlbs /\ pte \in Ptes
  BY SetOfType, WalkResultsType DEF Requests, TypeOK, TlbLines, Tlbs
<1>2. Cache!KnownOf(r.page) = {}
  BY <1>1, KnownIs
<1>3. /\ request' = r /\ answer' = a
      /\ tlb' = [tlb EXCEPT ![SetOf(r.page)] = OnMiss(line, r, pte).line]
      /\ UNCHANGED <<table, directory>>
  BY DEF Translate, Translation
<1>4. pte \in Cache!Walks(r.page) /\ NoPte \in Cache!Walks(r.page)
  BY SameWalks DEF WalkResults
<1>5. Cache!Walked(r)
  <2>1. answer' = TlbMiss \/
          (pte # NoPte /\ answer' = Answer(pte.frame, LoadedBits(r, pte), r))
    BY <1>3 DEF OnMiss
  <2>2. answer' = Cache!TlbMiss \/
          (pte # Cache!NoPte /\
           answer' = Cache!Answer(pte.frame, Cache!LoadedBits(r, pte), r))
    BY <2>1, SameAnswer, SameMapping, SameWalks
  <2>3. QED
    BY <1>4, <2>2, SameWalks DEF Cache!Walked
<1>6. Cache!Learns(r)
  <2>1. aged \in TlbLines /\ \A x \in Ways : Alike(line[x], aged[x])
    BY <1>1, OlderType DEF Alike
  <2>2. CASE r.kind = "debug" \/ a.result # "OKAY"
    <3>1. \A x \in Ways : Alike(line[x], OnMiss(line, r, pte).line[x])
      <4>1. OnMiss(line, r, pte).line = line \/ OnMiss(line, r, pte).line = aged
        BY <2>2 DEF OnMiss
      <4>2. \A x \in Ways : Alike(line[x], line[x])
        BY DEF Alike
      <4>3. QED
        BY <2>1, <4>1, <4>2
    <3>2. \A s \in TlbSets, x \in Ways : Alike(tlb[s][x], tlb'[s][x])
      BY <1>1, <1>3, <3>1 DEF Alike, Tlbs
    <3>3. Reachable' = Reachable
      BY <3>2, AlikeReach DEF Reachable
    <3>4. QED
      BY <3>3 DEF Cache!Learns
  <2>3. CASE r.kind # "debug" /\ a.result = "OKAY"
    <3> DEFINE w == EmptyWay(aged)
               f == LoadedEntry(r, pte)
               new == [aged EXCEPT ![w] = f]
    <3>1. w \in Ways
      BY <2>1, EmptyWayExists
    <3>2. OnMiss(line, r, pte).line = new
      BY <2>3 DEF OnMiss
    <3>3. tlb' = [tlb EXCEPT ![SetOf(r.page)] = new]
      BY <1>3, <3>2
    <3>4. /\ f.v /\ f.page = r.page
          /\ MappingOf(f.page, f.frame, f.bits) = m
      BY MarksType DEF LoadedEntry, MappingOf
    <3> HIDE DEF f, w, m
    <3>5. tlb'[SetOf(r.page)][w] = f
      BY <1>1, <2>1, <3>1, <3>3 DEF Tlbs, TlbLines
    <3>6. m \in ReachableIn(tlb')
      BY <1>1, <3>1, <3>4, <3>5, ReachableIs DEF Holds
    <3>7. ASSUME NEW n \in ReachableIn(tlb') PROVE n \in ReachableIn(tlb) \cup {m}
      <4>1. PICK s, x : Holds(tlb', s, x, n)
        BY <3>7, ReachableIs
      <4>2. CASE s = SetOf(r.page) /\ x = w
        BY <3>4, <3>5, <4>1, <4>2 DEF Holds
      <4>3. CASE ~(s = SetOf(r.page) /\ x = w)
        <5>1. s \in TlbSets /\ x \in Ways
          BY <4>1 DEF Holds
        <5>2. Alike(tlb[s][x], tlb'[s][x])
          <6>1. CASE s = SetOf(r.page)
            <7>1. tlb'[s] = new /\ new[x] = aged[x]
              BY <1>1, <2>1, <3>3, <4>3, <5>1, <6>1 DEF Tlbs, TlbLines
            <7>2. QED
              BY <2>1, <5>1, <6>1, <7>1
          <6>2. CASE s # SetOf(r.page)
            BY <1>1, <3>3, <5>1, <6>2 DEF Tlbs, Alike
          <6>3. QED
            BY <6>1, <6>2
        <5>3. Holds(tlb, s, x, n)
          BY <4>1, <5>2 DEF Holds, Alike, MappingOf
        <5>4. QED
          BY <5>3, ReachableIs
      <4>4. QED
        BY <4>2, <4>3
    <3>8. Reachable' = ReachableIn(tlb') /\ Reachable = ReachableIn(tlb)
      BY DEF Reachable
    <3>9. m \in Reachable' /\ Reachable' \subseteq Reachable \cup {m}
      BY <3>6, <3>7, <3>8
    <3>10. QED
      <4>1. m = Cache!MappingOf(r.page, pte.frame, Cache!LoadedBits(r, pte))
        BY SameMapping DEF m
      <4>2. answer'.result = "OKAY" /\ r.kind # "debug"
        BY <1>3, <2>3
      <4>3. QED
        BY <1>4, <3>9, <4>1, <4>2 DEF Cache!Learns
  <2>4. QED
    BY <2>2, <2>3
<1>7. QED
  BY <1>2, <1>3, <1>5, <1>6 DEF Cache!Ask

LEMMA FlushForgets ==
  ASSUME TypeOK, NEW p \in Pages, FlushEntry(p)
  PROVE  Cache!Forget(p)
<1>1. /\ SetOf(p) \in TlbSets /\ tlb \in Tlbs
      /\ tlb' = [tlb EXCEPT ![SetOf(p)] = Without(tlb[SetOf(p)], p)]
  BY SetOfType DEF FlushEntry, TypeOK, TlbLines, Tlbs
<1>2. \A s, w, m : Holds(tlb', s, w, m) <=> Holds(tlb, s, w, m) /\ m.page # p
  <2> TAKE s, w, m
  <2>1. Holds(tlb', s, w, m) \/ Holds(tlb, s, w, m) => s \in TlbSets /\ w \in Ways
    BY DEF Holds
  <2> SUFFICES ASSUME s \in TlbSets, w \in Ways
               PROVE  Holds(tlb', s, w, m) <=> Holds(tlb, s, w, m) /\ m.page # p
    BY <2>1
  <2>2. tlb[s][w] \in Entries
    BY <1>1 DEF Tlbs, TlbLines
  <2>3. CASE s = SetOf(p) /\ tlb[s][w].page = p
    <3>1. ~tlb'[s][w].v
      BY <1>1, <2>2, <2>3 DEF Without, Tlbs, Entries
    <3>2. Holds(tlb, s, w, m) => m.page = p
      BY <2>3 DEF Holds, MappingOf
    <3>3. QED
      BY <3>1, <3>2 DEF Holds
  <2>4. CASE ~(s = SetOf(p) /\ tlb[s][w].page = p)
    <3>1. tlb'[s][w] = tlb[s][w]
      BY <1>1, <2>4 DEF Without, Tlbs
    <3>2. Holds(tlb, s, w, m) => m.page # p
      BY <2>4 DEF Holds, MappingOf
    <3>3. QED
      BY <3>1, <3>2 DEF Holds
  <2>5. QED
    BY <2>3, <2>4
<1>3. Reachable' = Reachable \ Cache!KnownOf(p)
  <2>1. \A m : m \in ReachableIn(tlb') <=> m \in ReachableIn(tlb) /\ m.page # p
    BY <1>2, ReachableIs
  <2>2. QED
    BY <2>1 DEF Reachable, Cache!KnownOf
<1>4. QED
  BY <1>3 DEF Cache!Forget, FlushEntry, Cache!FlushOf, FlushOf

LEMMA NothingReachable == ReachableIn(Flushed) = {}
BY DEF ReachableIn, InPlace, Flushed, NoEntry

LEMMA DirectoryChanges ==
  ASSUME TypeOK, NEW flush \in BOOLEAN, NEW dir \in BOOLEAN, SetCr(flush, dir)
  PROVE  Cache!ForgetAll \/ Cache!MemoryChanges
<1>1. CASE HasFlush /\ flush
  <2>1. Reachable' = {}
    BY <1>1, NothingReachable DEF SetCr, Reachable
  <2>2. QED
    BY <1>1, <2>1 DEF SetCr, Cache!ForgetAll, Cache!FlushOfAll, FlushOfAll
<1>2. CASE ~(HasFlush /\ flush)
  <2>1. UNCHANGED <<tlb, request, table, answer>> /\ directory' = dir
    BY <1>2 DEF SetCr
  <2>2. Reachable' = Reachable
    BY <2>1 DEF Reachable
  <2>3. table' \in [Pages -> Ptes]
    BY <2>1 DEF TypeOK
  <2>4. QED
    BY <2>1, <2>2, <2>3, SameWalks
    DEF Cache!MemoryChanges, Cache!Pages, Pages, Cache!Ptes, Ptes
<1>3. QED
  BY <1>1, <1>2

LEMMA WayLoads ==
  ASSUME TypeOK, NEW s \in TlbSets, NEW w \in Ways, NEW f \in Entries,
         tlb' = [tlb EXCEPT ![s][w] = f],
         UNCHANGED <<table, directory, request, answer>>
  PROVE  Cache!Load
<1> DEFINE m == MappingOf(f.page, f.frame, f.bits)
<1>1. tlb \in Tlbs
  BY DEF TypeOK, TlbLines, Tlbs
<1>2. ASSUME NEW n \in ReachableIn(tlb') PROVE n \in ReachableIn(tlb) \/ n = m
  <2>1. PICK a, b : Holds(tlb', a, b, n)
    BY <1>2, ReachableIs
  <2>2. a \in TlbSets /\ b \in Ways
    BY <2>1 DEF Holds
  <2>3. CASE a = s /\ b = w
    <3>1. tlb'[a][b] = f
      BY <1>1, <2>3 DEF Tlbs, TlbLines
    <3>2. QED
      BY <2>1, <3>1 DEF Holds
  <2>4. CASE ~(a = s /\ b = w)
    <3>1. tlb'[a][b] = tlb[a][b]
      BY <1>1, <2>2, <2>4 DEF Tlbs, TlbLines
    <3>2. Holds(tlb, a, b, n)
      BY <2>1, <3>1 DEF Holds
    <3>3. QED
      BY <3>2, ReachableIs
  <2>5. QED
    BY <2>3, <2>4
<1> HIDE DEF m
<1>3. \A x, y \in Reachable' \ Reachable : x = y
  BY <1>2 DEF Reachable
<1>4. QED
  BY <1>3 DEF Cache!Load

LEMMA SoftwareRefines ==
  ASSUME TypeOK, SoftwareActs
  PROVE  Cache!PageCacheNext
<1>1. ASSUME NEW p \in Pages, FlushEntry(p) PROVE Cache!PageCacheNext
  BY <1>1, FlushForgets DEF Cache!PageCacheNext, Cache!Pages, Pages
<1>2. ASSUME NEW f \in BOOLEAN, NEW d \in BOOLEAN, SetCr(f, d) PROVE Cache!PageCacheNext
  BY <1>2, DirectoryChanges DEF Cache!PageCacheNext
<1>3. ASSUME NEW s \in TlbSets, NEW w \in Ways, NEW m \in MatchWrites, SetMatch(s, w, m)
      PROVE  Cache!PageCacheNext
  <2> DEFINE f == [tlb[s][w] EXCEPT !.v = m.v, !.page = m.page, !.age = m.age]
  <2>1. tlb[s][w] \in Entries /\ m.v \in BOOLEAN /\ m.page \in Pages /\ m.age \in Ages
    BY MmuAssumption DEF TypeOK
  <2>2. f \in Entries
    BY <2>1 DEF Entries
  <2>3. tlb' = [tlb EXCEPT ![s][w] = f]
    BY <1>3 DEF SetMatch
  <2> HIDE DEF f
  <2>4. QED
    BY <1>3, <2>2, <2>3, WayLoads DEF SetMatch, Cache!PageCacheNext
<1>4. ASSUME NEW s \in TlbSets, NEW w \in Ways, NEW t \in TransWrites, SetTrans(s, w, t)
      PROVE  Cache!PageCacheNext
  <2> DEFINE f == [tlb[s][w] EXCEPT !.frame = t.frame, !.bits = t.bits]
  <2>1. tlb[s][w] \in Entries /\ t.frame \in Frames /\ t.bits \in SUBSET Bits
    BY MmuAssumption DEF TypeOK
  <2>2. f \in Entries
    BY <2>1 DEF Entries
  <2>3. tlb' = [tlb EXCEPT ![s][w] = f]
    BY <1>4 DEF SetTrans
  <2> HIDE DEF f
  <2>4. QED
    BY <1>4, <2>2, <2>3, WayLoads DEF SetTrans, Cache!PageCacheNext
<1>5. ASSUME NEW t \in TableWrites, WriteTable(t) PROVE Cache!PageCacheNext
  <2>1. t.page \in Pages /\ t.pte \in Ptes
    BY MmuAssumption
  <2>2. table' \in [Pages -> Ptes] /\ directory' \in BOOLEAN
    BY <1>5, <2>1 DEF WriteTable, TypeOK
  <2>3. Reachable' = Reachable
    BY <1>5 DEF WriteTable, Reachable
  <2>4. Cache!MemoryChanges
    BY <1>5, <2>2, <2>3, SameWalks
    DEF WriteTable, Cache!MemoryChanges, Cache!Pages, Pages, Cache!Ptes, Ptes
  <2>5. QED
    BY <2>4 DEF Cache!PageCacheNext
<1>6. QED
  BY <1>1, <1>2, <1>3, <1>4, <1>5 DEF SoftwareActs

LEMMA InitRefines == MmuInit => Cache!PageCacheInit
<1> SUFFICES ASSUME MmuInit PROVE Cache!PageCacheInit
  OBVIOUS
<1>1. Reachable = {}
  BY NothingReachable DEF MmuInit, Reachable
<1>2. table \in [Pages -> Ptes] /\ directory \in BOOLEAN
  BY MmuAssumption DEF MmuInit
<1>3. QED
  BY <1>1, <1>2, SameWalks
  DEF MmuInit, Cache!PageCacheInit, Cache!Pages, Pages, Cache!Ptes, Ptes,
      Cache!Requests, Requests

LEMMA StepRefines ==
  ASSUME TypeOK, MmuNext
  PROVE  Cache!PageCacheNext
<1>1. ASSUME NEW r \in Requests, NEW pte \in WalkResults(r.page), Translate(r, pte)
      PROVE  Cache!PageCacheNext
  <2>1. Cache!Ask(r)
    BY <1>1, HitAsks, MissAsks
  <2>2. QED
    BY <2>1 DEF Cache!PageCacheNext, Cache!Requests, Requests, Cache!Pages, Pages
<1>2. QED
  BY <1>1, SoftwareRefines DEF MmuNext

(* Whatever its geometry and whatever software writes to it, the TLB is a   *)
(* page cache: mmu.cpp:113-250 answers from mappings that were loaded and   *)
(* not flushed since, and drops one only when it learns another.            *)
THEOREM MmuImplementsPageCache == MmuSpec => ImplementsPageCache
<1>1. TypeOK /\ [MmuNext]_mmuVars
        => [Cache!PageCacheNext]_<<Reachable, table, directory, request, answer>>
  <2> SUFFICES ASSUME TypeOK, [MmuNext]_mmuVars
               PROVE  [Cache!PageCacheNext]_<<Reachable, table, directory, request, answer>>
    OBVIOUS
  <2>1. CASE UNCHANGED mmuVars
    BY <2>1 DEF mmuVars, Reachable
  <2>2. QED
    BY <2>1, StepRefines
<1>2. QED
  BY InitRefines, <1>1, TypeCorrect, PTL
  DEF MmuSpec, ImplementsPageCache, Cache!PageCacheSpec

-----------------------------------------------------------------------------
(* A request that was granted is granted again                              *)

LEMMA MoreGrants ==
  ASSUME NEW b, NEW more, NEW r, Grants(b, r)
  PROVE  Grants(b \cup more, r)
BY DEF Grants

LEMMA HitRepeats ==
  ASSUME TypeOK, NEW r \in Requests, NEW pte \in WalkResults(r.page),
         Translate(r, pte), Matching(tlb[SetOf(r.page)], r.page) # {},
         r.kind # "debug", answer'.result = "OKAY"
  PROVE  Repeats(r, answer'.frame)
<1> DEFINE line == tlb[SetOf(r.page)]
           w == Lowest(Matching(line, r.page))
           e == line[w]
           n == tlb'[SetOf(r.page)][w]
<1>1. /\ r.page \in Pages /\ SetOf(r.page) \in TlbSets
      /\ line \in TlbLines /\ tlb \in Tlbs
  BY SetOfType DEF Requests, TypeOK, TlbLines, Tlbs
<1>2. w \in Ways /\ e.v /\ e.page = r.page /\ e \in Entries
  <2> HIDE DEF line
  <2>1. Matching(line, r.page) \in SUBSET Ways  BY DEF Matching
  <2>2. w \in Matching(line, r.page)  BY <2>1, LowestIn DEF line
  <2> HIDE DEF w
  <2> QED  BY <1>1, <2>2 DEF Matching, TlbLines
<1>3. /\ answer' = Answer(e.frame, e.bits, r)
      /\ tlb' = [tlb EXCEPT ![SetOf(r.page)] = OnHit(line, w, r).line]
  BY DEF Translate, Translation, OnHit
<1>4. Grants(e.bits, r) /\ answer' = Okay(e.frame)
  BY <1>3 DEF Answer, PageFault
<1>5. n = [Older(line)[w] EXCEPT !.age = 0, !.bits = @ \cup Marks(r)]
  <2>1. OnHit(line, w, r).line = [Older(line) EXCEPT ![w].age = 0, ![w].bits = @ \cup Marks(r)]
    <3>1. e.frame \in Frames
      BY <1>2 DEF Entries
    <3>2. Answer(e.frame, e.bits, r) # PageFault
      BY <1>3, <1>4, <3>1, AnswersDiffer
    <3>3. QED
      BY <3>2 DEF OnHit
  <2>2. Older(line) \in TlbLines
    BY <1>1, OlderType
  <2>3. QED
    BY <1>1, <1>2, <1>3, <2>1, <2>2 DEF Tlbs, TlbLines
<1>6. /\ n.v /\ n.page = r.page /\ n.frame = e.frame
      /\ n.bits = e.bits \cup Marks(r)
  <2>1. /\ Older(line)[w] \in Entries /\ Older(line)[w].v = e.v
        /\ Older(line)[w].page = e.page /\ Older(line)[w].frame = e.frame
        /\ Older(line)[w].bits = e.bits
    BY <1>1, <1>2, OlderType DEF TlbLines
  <2>2. QED
    BY <1>2, <1>5, <2>1 DEF Entries
<1>7. Grants(n.bits, r) /\ answer'.frame = e.frame
  <2>1. Grants(e.bits \cup Marks(r), r)
    BY <1>4, MoreGrants
  <2>2. QED
    BY <1>4, <1>6, <2>1 DEF Okay
<1>8. QED
  BY <1>2, <1>6, <1>7 DEF Repeats

LEMMA MissRepeats ==
  ASSUME TypeOK, NEW r \in Requests, NEW pte \in WalkResults(r.page),
         Translate(r, pte), Matching(tlb[SetOf(r.page)], r.page) = {},
         r.kind # "debug", answer'.result = "OKAY"
  PROVE  Repeats(r, answer'.frame)
<1> DEFINE line == tlb[SetOf(r.page)]
           aged == Older(line)
           w == EmptyWay(aged)
           e == LoadedEntry(r, pte)
<1>1. /\ r.page \in Pages /\ SetOf(r.page) \in TlbSets
      /\ line \in TlbLines /\ tlb \in Tlbs
  BY SetOfType DEF Requests, TypeOK, TlbLines, Tlbs
<1>2. aged \in TlbLines /\ w \in Ways
  BY <1>1, OlderType, EmptyWayExists
<1>3. /\ answer' = OnMiss(line, r, pte).answer
      /\ tlb' = [tlb EXCEPT ![SetOf(r.page)] = [aged EXCEPT ![w] = e]]
  BY DEF Translate, Translation, OnMiss
<1>4. tlb'[SetOf(r.page)][w] = e
  BY <1>1, <1>2, <1>3 DEF Tlbs, TlbLines
<1>5. answer' = Answer(pte.frame, LoadedBits(r, pte), r)
  BY <1>3 DEF OnMiss, TlbMiss
<1>6. Grants(LoadedBits(r, pte), r) /\ answer'.frame = pte.frame
  BY <1>5 DEF Answer, PageFault, Okay
<1>7. /\ e.v /\ e.page = r.page /\ e.frame = pte.frame
      /\ e.bits = LoadedBits(r, pte) \cup Marks(r)
  BY DEF LoadedEntry
<1> HIDE DEF e, w
<1>8. Grants(e.bits, r)
  BY <1>6, <1>7, MoreGrants
<1>9. QED
  BY <1>2, <1>4, <1>6, <1>7, <1>8 DEF Repeats

(* mmu.cpp:147-164, 215-246: a request that was granted hits when it is     *)
(* made again, with its marks set, for every geometry and every table: an   *)
(* instruction restarted after its page was brought in does not miss again. *)
THEOREM GrantedRepeatsHolds == MmuSpec => GrantedRepeats
<1> DEFINE Again == \A r \in Requests : \A pte \in WalkResults(r.page) :
                      Translate(r, pte) /\ r.kind # "debug" /\ answer'.result = "OKAY"
                        => Repeats(r, answer'.frame)
<1>1. TypeOK => Again
  BY HitRepeats, MissRepeats
<1>2. TypeOK /\ [MmuNext]_mmuVars => [Again]_mmuVars
  BY <1>1
<1>3. QED
  BY <1>2, TypeCorrect, PTL DEF MmuSpec, GrantedRepeats
=============================================================================
