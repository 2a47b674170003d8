----------------------------- MODULE Fetch_proofs -----------------------------
(***************************************************************************)
(* The fetch path stays well formed, and shows each word what the          *)
(* abstract instruction memory allows.                                     *)
(***************************************************************************)
EXTENDS Fetch, Mmu_proofs

CacheLine == [tag : Words \cup {None}, insn : Legal \cup Unsupported, exec : BOOLEAN]

Filled(w) == [tag |-> w, insn |-> mem[w], exec |-> mem[w] \in Legal]

LEMMA PhysicalType ==
  ASSUME NEW f \in Frames, NEW o \in Offsets
  PROVE  Physical(f, o) \in Words
<1>1. /\ f \in Nat /\ NumFrames \in Nat /\ PageWords \in Nat /\ o \in Nat
      /\ f + 1 <= NumFrames /\ o < PageWords
  BY PagingAssumption, FetchAssumption DEF Frames, Offsets
<1>2. (f + 1) * PageWords <= NumFrames * PageWords
  BY <1>1
<1>3. (f + 1) * PageWords = f * PageWords + PageWords
  BY <1>1
<1>4. f * PageWords \in Nat /\ NumFrames * PageWords \in Nat
  BY <1>1
<1>5. QED
  BY <1>1, <1>2, <1>3, <1>4 DEF Physical, Words

LEMMA LineType == ASSUME NEW w \in Words PROVE Line(w) \in Lines
<1>1. CacheLines \in Nat \ {0} /\ w \in Int
  BY FetchAssumption DEF Words
<1>2. QED
  BY <1>1 DEF Line, Lines

LEMMA RequestType == ASSUME FetchTypeOK, NEW p \in Pages PROVE FetchRequest(p) \in Requests
BY FetchAssumption DEF FetchTypeOK, FetchRequest, Requests

LEMMA NoneIsNoWord == None \notin Words
BY DEF None, Words

LEMMA InitType == FetchInit => FetchTypeOK
<1> SUFFICES ASSUME FetchInit PROVE FetchTypeOK
  OBVIOUS
<1>1. TypeOK
  BY MmuInitType DEF FetchInit
<1>2. (CHOOSE i \in Legal : TRUE) \in Legal
  BY FetchAssumption
<1>3. 0 \in Words /\ 0 \in Frames
  <2>1. 0 \in Frames /\ 0 \in Offsets
    BY PagingAssumption, FetchAssumption DEF Frames, Offsets
  <2>2. Physical(0, 0) = 0
    BY FetchAssumption DEF Physical
  <2>3. QED
    BY <2>1, <2>2, PhysicalType
<1>4. mem \in [Words -> Insns]
  BY DEF FetchInit, Insns
<1>5. QED
  BY <1>1, <1>2, <1>3, <1>4 DEF FetchInit, FetchTypeOK

LEMMA LookupType ==
  ASSUME FetchTypeOK, NEW w \in Words, NEW e \in BOOLEAN, Lookup(w, e)
  PROVE  /\ ime' \in BOOLEAN /\ sm' \in BOOLEAN
         /\ cache' \in [Lines -> CacheLine]
         /\ got' \in [word : Words, insn : Insns]
         /\ refused' \subseteq Words
<1>1. Line(w) \in Lines /\ mem[w] \in Insns
  BY LineType DEF FetchTypeOK
<1>2. cache[Line(w)].insn \in Insns
  BY <1>1 DEF FetchTypeOK, Insns
<1>3. /\ ime' \in BOOLEAN /\ sm' \in BOOLEAN
      /\ got' \in [word : Words, insn : Insns]
  <2>1. ime \in BOOLEAN /\ sm \in BOOLEAN /\ got \in [word : Words, insn : Insns]
    BY DEF FetchTypeOK
  <2>2. Handler \/ Stays
    BY DEF Lookup, Compile
  <2>3. ime' \in BOOLEAN /\ sm' \in BOOLEAN
    BY <2>1, <2>2 DEF Handler, Stays
  <2>4. got' = got \/ (\E i \in Insns : got' = [word |-> w, insn |-> i])
    BY <1>1, <1>2 DEF Lookup
  <2>5. QED
    BY <2>1, <2>3, <2>4
<1>4. cache' \in [Lines -> CacheLine]
  <2>1. cache \in [Lines -> CacheLine]
    BY DEF FetchTypeOK, CacheLine
  <2>2. ASSUME mem[w] \in Legal \cup Unsupported PROVE Filled(w) \in CacheLine
    <3>1. (mem[w] \in Legal) \in BOOLEAN
      OBVIOUS
    <3>2. QED
      BY <2>2, <3>1, Zenon DEF CacheLine, Filled
  <2>3. cache' = cache \/
        (mem[w] \in Legal \cup Unsupported /\ cache' = [cache EXCEPT ![Line(w)] = Filled(w)])
    BY DEF Lookup, Compile, Fill, Filled
  <2>4. QED
    BY <2>1, <2>2, <2>3
<1>5. refused' \subseteq Words
  BY DEF Lookup, Compile, OnOtherLines, FetchTypeOK
<1>6. QED
  BY <1>3, <1>4, <1>5

LEMMA StepType == ASSUME FetchTypeOK, FetchNext PROVE FetchTypeOK'
<1> USE DEF CacheLine
<1>1. ASSUME NEW p \in Pages, NEW o \in Offsets, NEW e \in BOOLEAN, FetchUntranslated(p, o, e)
      PROVE  FetchTypeOK'
  <2>1. p \in Frames
    BY PagingAssumption, FetchAssumption DEF Pages, Frames
  <2>2. TypeOK'
    BY <1>1 DEF FetchUntranslated, mmuVars, FetchTypeOK, TypeOK
  <2>3. QED
    BY <1>1, <2>1, <2>2, PhysicalType, LookupType DEF FetchUntranslated, FetchTypeOK
<1>2. ASSUME NEW p \in Pages, NEW o \in Offsets, NEW e \in BOOLEAN, FetchOnPage(p, o, e)
      PROVE  FetchTypeOK'
  <2>1. ipg.phys \in Frames /\ FetchRequest(p) \in Requests
    BY RequestType DEF FetchTypeOK
  <2>2. TypeOK'
    BY <1>2, <2>1 DEF FetchOnPage, FetchTypeOK, TypeOK, Calls, Answers
  <2>3. QED
    BY <1>2, <2>1, <2>2, PhysicalType, LookupType DEF FetchOnPage, FetchTypeOK
<1>3. ASSUME NEW p \in Pages, NEW o \in Offsets, NEW e \in BOOLEAN, NEW pte \in WalkResults(p),
             FetchTranslated(p, o, pte, e)
      PROVE  FetchTypeOK'
  <2>1. FetchRequest(p) \in Requests /\ FetchRequest(p).page = p
    BY RequestType DEF FetchRequest
  <2>2. TypeOK'
    BY <1>3, <2>1, TranslateType DEF FetchTranslated, FetchTypeOK
  <2>3. CASE answer'.result = "OKAY"
    <3>1. answer'.frame \in Frames
      BY <2>2, <2>3 DEF TypeOK, Answers, TlbMiss, PageFault, Okay
    <3>2. Lookup(Physical(answer'.frame, o), e) /\ ipg' = [virt |-> p, phys |-> answer'.frame]
          /\ mem' = mem
      BY <1>3, <2>3 DEF FetchTranslated
    <3>3. QED
      BY <2>2, <3>1, <3>2, PhysicalType, LookupType DEF FetchTypeOK
  <2>4. CASE answer'.result # "OKAY"
    BY <1>3, <2>2, <2>4 DEF FetchTranslated, Handler, FetchTypeOK
  <2>5. QED
    BY <2>3, <2>4
<1>4. ASSUME NEW w \in Words, Invalidate(w) PROVE FetchTypeOK'
  <2>1. TypeOK'
    BY <1>4 DEF Invalidate, mmuVars, FetchTypeOK, TypeOK
  <2>2. cache' \in [Lines -> CacheLine]
    BY <1>4 DEF Invalidate, FetchTypeOK
  <2>3. QED
    BY <1>4, <2>1, <2>2 DEF Invalidate, FetchTypeOK
<1>5. ASSUME NEW w \in Words, NEW i \in Insns, Store(w, i) PROVE FetchTypeOK'
  BY <1>5 DEF Store, mmuVars, FetchTypeOK, TypeOK
<1>6. ASSUME NEW t \in BOOLEAN, NEW s \in BOOLEAN, SetStatus(t, s) PROVE FetchTypeOK'
  BY <1>6 DEF SetStatus, mmuVars, FetchTypeOK, TypeOK
<1>7. ASSUME SoftwareActs, UNCHANGED <<ime, sm, ipg, cache, mem, got, refused>> PROVE FetchTypeOK'
  BY <1>7, SoftwareType DEF FetchTypeOK
<1>8. QED
  BY <1>1, <1>2, <1>3, <1>4, <1>5, <1>6, <1>7 DEF FetchNext

(* or1k.cpp:235-319: whatever is fetched, stored and translated, addresses  *)
(* stay in memory, and no word refused as illegal is ever cached.           *)
THEOREM FetchTypeCorrect == FetchSpec => []FetchTypeOK
<1>1. FetchTypeOK /\ [FetchNext]_fetchVars => FetchTypeOK'
  <2> SUFFICES ASSUME FetchTypeOK, UNCHANGED fetchVars PROVE FetchTypeOK'
    BY StepType
  <2>1. QED
    BY DEF fetchVars, mmuVars, FetchTypeOK, TypeOK
<1>2. QED
  BY InitType, <1>1, PTL DEF FetchSpec

-----------------------------------------------------------------------------
(* Refinement of the instruction memory                                     *)

LEMMA VisibleIs ==
  ASSUME NEW w \in Words
  PROVE  Visible[w] = {mem[w]} \cup (IF Cached(w) THEN {cache[Line(w)].insn} ELSE {})
BY DEF Visible

(* A fetch shows its word what is visible, and changes no other.            *)
LEMMA LookupYields ==
  ASSUME FetchTypeOK, NEW w \in Words, NEW e \in BOOLEAN, Lookup(w, e), mem' = mem
  PROVE  Port!Yields(w) \/ UNCHANGED <<mem, Visible, got>>
<1>1. CASE UNCHANGED cache
  <2>1. Visible' = Visible
    BY <1>1 DEF Visible, Cached
  <2>2. CASE UNCHANGED got
    BY <2>1, <2>2
  <2>3. CASE ~UNCHANGED got
    <3>1. \E i \in Visible[w] : got' = [word |-> w, insn |-> i]
      BY <1>1, <2>3, VisibleIs DEF Lookup
    <3>2. Port!MayForget({})
      BY <2>1, VisibleIs DEF Port!MayForget
    <3>3. QED
      BY <3>1, <3>2 DEF Port!Yields
  <2>4. QED
    BY <2>2, <2>3
<1>2. CASE ~UNCHANGED cache
  <2>1. /\ got' = [word |-> w, insn |-> mem[w]]
        /\ cache' = [cache EXCEPT ![Line(w)] = Filled(w)]
    BY <1>2 DEF Lookup, Compile, Fill, Filled
  <2>2. ASSUME NEW x \in Words
        PROVE  Visible'[x] \subseteq Visible[x] /\ mem[x] \in Visible'[x]
    <3>1. Line(w) \in Lines /\ Line(x) \in Lines
      BY LineType
    <3>2. Visible'[x] = {mem[x]} \cup
             (IF CacheOn /\ cache'[Line(x)].tag = x THEN {cache'[Line(x)].insn} ELSE {})
      BY DEF Visible, Cached
    <3>3. CASE x = w
      BY <2>1, <3>1, <3>2, <3>3, VisibleIs DEF FetchTypeOK, Filled
    <3>4. CASE x # w /\ Line(x) = Line(w)
      BY <2>1, <3>1, <3>2, <3>4, VisibleIs DEF FetchTypeOK, Filled
    <3>5. CASE Line(x) # Line(w)
      BY <2>1, <3>1, <3>2, <3>5, VisibleIs DEF FetchTypeOK, Cached
    <3>6. QED
      BY <3>3, <3>4, <3>5
  <2>3. Port!MayForget({})
    BY <2>2 DEF Port!MayForget
  <2>4. mem[w] \in Visible[w]
    BY VisibleIs
  <2>5. QED
    BY <2>1, <2>3, <2>4 DEF Port!Yields
<1>3. QED
  BY <1>1, <1>2

LEMMA StoreHolds ==
  ASSUME FetchTypeOK, NEW w \in Words, NEW i \in Insns, Store(w, i)
  PROVE  Port!Holds(w, i)
<1>1. mem' = [mem EXCEPT ![w] = i] /\ UNCHANGED <<cache, got>>
  BY DEF Store
<1>2. \A x \in Words : Visible'[x] = {mem'[x]} \cup
         (IF Cached(x) THEN {cache[Line(x)].insn} ELSE {})
  BY <1>1 DEF Visible, Cached
<1>3. mem'[w] = i /\ \A x \in Words \ {w} : mem'[x] = mem[x]
  BY <1>1 DEF FetchTypeOK
<1>4. i \in Visible'[w] /\ Visible'[w] \subseteq Visible[w] \cup {i}
  BY <1>2, <1>3, VisibleIs
<1>5. Port!MayForget({w})
  BY <1>2, <1>3, VisibleIs DEF Port!MayForget
<1>6. QED
  BY <1>1, <1>4, <1>5 DEF Port!Holds

LEMMA InvalidateSynchronises ==
  ASSUME FetchTypeOK, NEW w \in Words, Invalidate(w)
  PROVE  Port!Synchronised(InBlock(w))
<1>1. UNCHANGED <<mem, got>>
  BY DEF Invalidate
<1>2. \A x \in Words : Visible'[x] = {mem[x]} \cup
         (IF CacheOn /\ cache'[Line(x)].tag = x THEN {cache'[Line(x)].insn} ELSE {})
  BY <1>1 DEF Visible, Cached
<1>3. \A x \in Words : cache'[Line(x)].tag = x =>
         x \notin InBlock(w) /\ cache'[Line(x)] = cache[Line(x)]
  <2> TAKE x \in Words
  <2>1. Line(x) \in Lines /\ x # None
    BY LineType, NoneIsNoWord
  <2>2. CASE cache[Line(x)].tag \in InBlock(w)
    <3>1. cache'[Line(x)] = [cache[Line(x)] EXCEPT !.tag = None]
      BY <2>1, <2>2 DEF Invalidate
    <3>2. cache'[Line(x)].tag = None
      BY <2>1, <3>1 DEF FetchTypeOK
    <3>3. QED
      BY <2>1, <3>2
  <2>3. CASE cache[Line(x)].tag \notin InBlock(w)
    BY <2>1, <2>3 DEF Invalidate
  <2>4. QED
    BY <2>2, <2>3
<1>4. \A x \in InBlock(w) : x \in Words /\ Visible'[x] = {mem[x]}
  BY <1>2, <1>3 DEF InBlock
<1>5. Port!MayForget(InBlock(w))
  BY <1>2, <1>3, VisibleIs DEF Port!MayForget, Cached
<1>6. QED
  BY <1>1, <1>4, <1>5 DEF Port!Synchronised

LEMMA FetchStepRefines ==
  ASSUME FetchTypeOK, FetchNext
  PROVE  Port!InsnMemoryNext \/ UNCHANGED <<mem, Visible, got>>
<1> DEFINE Goal == Port!InsnMemoryNext \/ UNCHANGED <<mem, Visible, got>>
<1>1. ASSUME NEW w \in Words, NEW e \in BOOLEAN, Lookup(w, e), mem' = mem PROVE Goal
  BY <1>1, LookupYields DEF Port!InsnMemoryNext
<1>2. UNCHANGED <<cache, mem, got>> => Goal
  BY DEF Visible, Cached
<1>3. ASSUME NEW p \in Pages, NEW o \in Offsets, NEW e \in BOOLEAN, FetchUntranslated(p, o, e)
      PROVE  Goal
  <2>1. p \in Frames
    BY PagingAssumption, FetchAssumption DEF Pages, Frames
  <2>2. QED
    BY <1>1, <1>3, <2>1, PhysicalType DEF FetchUntranslated
<1>4. ASSUME NEW p \in Pages, NEW o \in Offsets, NEW e \in BOOLEAN, FetchOnPage(p, o, e)
      PROVE  Goal
  <2>1. ipg.phys \in Frames
    BY DEF FetchTypeOK
  <2>2. QED
    BY <1>1, <1>4, <2>1, PhysicalType DEF FetchOnPage
<1>5. ASSUME NEW p \in Pages, NEW o \in Offsets, NEW e \in BOOLEAN, NEW pte \in WalkResults(p),
             FetchTranslated(p, o, pte, e)
      PROVE  Goal
  <2>1. CASE answer'.result = "OKAY"
    <3>1. TypeOK'
      <4>1. FetchRequest(p) \in Requests /\ FetchRequest(p).page = p
        BY RequestType DEF FetchRequest
      <4>2. QED
        BY <1>5, <4>1, TranslateType DEF FetchTranslated, FetchTypeOK
    <3>2. answer'.frame \in Frames
      BY <2>1, <3>1 DEF TypeOK, Answers, TlbMiss, PageFault, Okay
    <3>3. Lookup(Physical(answer'.frame, o), e) /\ mem' = mem
      BY <1>5, <2>1 DEF FetchTranslated
    <3>4. QED
      BY <1>1, <3>2, <3>3, PhysicalType
  <2>2. CASE answer'.result # "OKAY"
    BY <1>2, <1>5, <2>2 DEF FetchTranslated
  <2>3. QED
    BY <2>1, <2>2
<1>6. ASSUME NEW w \in Words, Invalidate(w) PROVE Goal
  BY <1>6, InvalidateSynchronises DEF Port!InsnMemoryNext
<1>7. ASSUME NEW w \in Words, NEW i \in Insns, Store(w, i) PROVE Goal
  BY <1>7, StoreHolds DEF Port!InsnMemoryNext
<1>8. ASSUME NEW t \in BOOLEAN, NEW s \in BOOLEAN, SetStatus(t, s) PROVE Goal
  BY <1>2, <1>8 DEF SetStatus
<1>9. QED
  BY <1>2, <1>3, <1>4, <1>5, <1>6, <1>7, <1>8 DEF FetchNext

(* insn.h:88-101, or1k.cpp:268-318: for every geometry of cache and MMU, an *)
(* instruction executed is one that its word held since it was last         *)
(* invalidated.                                                             *)
THEOREM FetchImplementsInsnMemory == FetchSpec => ImplementsInsnMemory
<1>1. FetchInit => Port!InsnMemoryInit
  <2> SUFFICES ASSUME FetchInit PROVE Port!InsnMemoryInit
    OBVIOUS
  <2>1. FetchTypeOK
    BY InitType
  <2>2. \A w \in Words : ~Cached(w)
    BY LineType, NoneIsNoWord DEF FetchInit, Cached
  <2>3. Visible = [w \in Words |-> {mem[w]}]
    BY <2>2 DEF Visible
  <2>4. QED
    BY <2>1, <2>3 DEF FetchTypeOK, Port!InsnMemoryInit
<1>2. FetchTypeOK /\ [FetchNext]_fetchVars
        => [Port!InsnMemoryNext]_<<mem, Visible, got>>
  <2> SUFFICES ASSUME FetchTypeOK, [FetchNext]_fetchVars
               PROVE  [Port!InsnMemoryNext]_<<mem, Visible, got>>
    OBVIOUS
  <2>1. CASE UNCHANGED fetchVars
    BY <2>1 DEF fetchVars, Visible, Cached
  <2>2. QED
    BY <2>1, FetchStepRefines
<1>3. QED
  BY <1>1, <1>2, FetchTypeCorrect, PTL
  DEF FetchSpec, ImplementsInsnMemory, Port!InsnMemorySpec

-----------------------------------------------------------------------------
(* Lines without a handler                                                  *)

LEMMA LookupReports ==
  ASSUME FetchTypeOK, HalfLineReported, NEW w \in Words, NEW e \in BOOLEAN, Lookup(w, e)
  PROVE  HalfLineReported'
<1>1. CASE UNCHANGED <<cache, refused>>
  BY <1>1 DEF HalfLineReported, Cached
<1>2. CASE Fill(w) /\ (mem[w] \in Legal \/ w \in refused') /\ OnOtherLines(w) \subseteq refused'
  <2> SUFFICES ASSUME NEW x \in Words, CacheOn, cache'[Line(x)].tag = x,
                      ~cache'[Line(x)].exec
               PROVE  x \in refused'
    BY DEF HalfLineReported, Cached
  <2>1. Line(w) \in Lines /\ Line(x) \in Lines
    BY LineType
  <2>2. cache' = [cache EXCEPT ![Line(w)] = Filled(w)]
    BY <1>2 DEF Fill, Filled
  <2>3. CASE Line(x) = Line(w)
    <3>1. cache'[Line(x)] = Filled(w)
      BY <2>1, <2>2, <2>3 DEF FetchTypeOK
    <3>2. Filled(w).tag = w /\ (Filled(w).exec <=> mem[w] \in Legal)
      BY Zenon DEF Filled
    <3>3. x = w /\ mem[w] \notin Legal
      BY <3>1, <3>2
    <3>4. QED
      BY <1>2, <3>3
  <2>4. CASE Line(x) # Line(w)
    <3>1. cache'[Line(x)] = cache[Line(x)]
      BY <2>1, <2>2, <2>4 DEF FetchTypeOK
    <3>2. x \in refused
      BY <3>1 DEF HalfLineReported, Cached
    <3>3. QED
      BY <1>2, <2>4, <3>2 DEF OnOtherLines
  <2>5. QED
    BY <2>3, <2>4
<1>3. QED
  BY <1>1, <1>2 DEF Lookup, Compile

LEMMA InvalidateReports ==
  ASSUME FetchTypeOK, HalfLineReported, NEW w \in Words, Invalidate(w)
  PROVE  HalfLineReported'
<1> SUFFICES ASSUME NEW x \in Words, CacheOn, cache'[Line(x)].tag = x, ~cache'[Line(x)].exec
             PROVE  x \in refused'
  BY DEF HalfLineReported, Cached
<1>1. Line(x) \in Lines /\ x # None
  BY LineType, NoneIsNoWord
<1>2. cache[Line(x)].tag \notin InBlock(w)
  <2> SUFFICES ASSUME cache[Line(x)].tag \in InBlock(w) PROVE FALSE
    OBVIOUS
  <2>1. cache'[Line(x)] = [cache[Line(x)] EXCEPT !.tag = None]
    BY <1>1 DEF Invalidate
  <2>2. cache'[Line(x)].tag = None
    BY <1>1, <2>1 DEF FetchTypeOK
  <2>3. QED
    BY <1>1, <2>2
<1>3. cache'[Line(x)] = cache[Line(x)]
  BY <1>1, <1>2 DEF Invalidate
<1>4. x \in refused /\ x \notin InBlock(w)
  BY <1>2, <1>3 DEF HalfLineReported, Cached
<1>5. QED
  BY <1>4 DEF Invalidate

LEMMA StepReports ==
  ASSUME FetchTypeOK, HalfLineReported, FetchNext
  PROVE  HalfLineReported'
<1>1. UNCHANGED <<cache, refused>> => HalfLineReported'
  BY DEF HalfLineReported, Cached
<1>2. ASSUME NEW p \in Pages, NEW o \in Offsets, NEW e \in BOOLEAN, FetchUntranslated(p, o, e)
      PROVE  HalfLineReported'
  <2>1. p \in Frames
    BY PagingAssumption, FetchAssumption DEF Pages, Frames
  <2>2. QED
    BY <1>2, <2>1, PhysicalType, LookupReports DEF FetchUntranslated
<1>3. ASSUME NEW p \in Pages, NEW o \in Offsets, NEW e \in BOOLEAN, FetchOnPage(p, o, e)
      PROVE  HalfLineReported'
  <2>1. ipg.phys \in Frames
    BY DEF FetchTypeOK
  <2>2. QED
    BY <1>3, <2>1, PhysicalType, LookupReports DEF FetchOnPage
<1>4. ASSUME NEW p \in Pages, NEW o \in Offsets, NEW e \in BOOLEAN, NEW pte \in WalkResults(p),
             FetchTranslated(p, o, pte, e)
      PROVE  HalfLineReported'
  <2>1. CASE answer'.result = "OKAY"
    <3>1. FetchRequest(p) \in Requests /\ FetchRequest(p).page = p
      BY RequestType DEF FetchRequest
    <3>2. TypeOK'
      BY <1>4, <3>1, TranslateType DEF FetchTranslated, FetchTypeOK
    <3>3. answer'.frame \in Frames
      BY <2>1, <3>2 DEF TypeOK, Answers, TlbMiss, PageFault, Okay
    <3>4. Lookup(Physical(answer'.frame, o), e)
      BY <1>4, <2>1 DEF FetchTranslated
    <3>5. QED
      BY <3>3, <3>4, PhysicalType, LookupReports
  <2>2. CASE answer'.result # "OKAY"
    BY <1>1, <1>4, <2>2 DEF FetchTranslated
  <2>3. QED
    BY <2>1, <2>2
<1>5. QED
  BY <1>1, <1>2, <1>3, <1>4, InvalidateReports DEF FetchNext, Store, SetStatus

(* or1k.cpp:295-314, decode.cpp:1557-1560: for every geometry of cache and  *)
(* MMU and whatever is stored, evicted and invalidated, a fetch meets a     *)
(* line without a handler only at a word that the host was told of since    *)
(* the line was last filled or invalidated.                                 *)
THEOREM HalfLineReportedHolds == FetchSpec => []HalfLineReported
<1>1. FetchInit => HalfLineReported
  BY LineType, NoneIsNoWord DEF FetchInit, HalfLineReported, Cached
<1>2. FetchTypeOK /\ HalfLineReported /\ [FetchNext]_fetchVars => HalfLineReported'
  <2>1. UNCHANGED fetchVars /\ HalfLineReported => HalfLineReported'
    BY DEF fetchVars, HalfLineReported, Cached
  <2>2. QED
    BY <2>1, StepReports
<1>3. QED
  BY <1>1, <1>2, FetchTypeCorrect, PTL DEF FetchSpec
===============================================================================
