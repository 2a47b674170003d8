-------------------------- MODULE Exclusive_proofs --------------------------
(***************************************************************************)
(* For any number of cores and words: typing of Exclusive, and that it      *)
(* implements AtomicOps.                                                    *)
(***************************************************************************)
EXTENDS Exclusive, TLAPS

Phases == {"idle", "link", "store", "branch"}
SeqType == [phase : Phases, word : Words \cup {NoWord}, val : Values, flag : BOOLEAN]

\* a sequence under way is about a word of its level
WordInv == \A c \in Cores, l \in Levels :
  seq[c][l].phase # "idle" => seq[c][l].word \in WordsOf(l)

\* between l.lwa and l.swa, an env that still has the address has the value
LinkInv == \A c \in Cores, l \in Levels :
  (seq[c][l].phase = "store" /\ excl[c].addr = seq[c][l].word)
     => excl[c].data = seq[c][l].val

IInv == ExclusiveTypeOK /\ WordInv /\ LinkInv

LEMMA ValuesFacts == 0 \in Values /\ \A v \in Values : Update(v) \in Values
  BY NatAssumption DEF Values, Update

LEMMA WordsOfLevels == /\ \A l \in Levels : WordsOf(l) \subseteq Words /\ NoWord \notin WordsOf(l)
                       /\ \A l \in Levels, k \in Levels :
                            l # k => WordsOf(l) \cap WordsOf(k) = {}
                       /\ \A l \in Levels : PteWords \cap WordsOf(l) = {}
  BY WordsAssumption DEF Levels, WordsOf, Words

LEMMA IdleType == Idle \in SeqType
  BY ValuesFacts DEF Idle, SeqType, Phases

LEMMA InitIInv == Init => IInv
<1> SUFFICES ASSUME Init PROVE IInv
  OBVIOUS
<1>1. mem \in [Words -> Values] /\ events \in 0..MaxEvents
  BY ValuesFacts, NatAssumption DEF Init
<1>2. \A c \in Cores, l \in Levels : seq[c][l] = Idle
  BY DEF Init
<1>3. ExclusiveTypeOK
  BY <1>1, IdleType, ValuesFacts DEF Init, ExclusiveTypeOK, SeqType, Phases, Levels
<1>4. WordInv /\ LinkInv
  BY <1>2 DEF WordInv, LinkInv, Idle
<1> QED BY <1>3, <1>4 DEF IInv

\* What Becomes does to the sequences, and to their type.
LEMMA BecomesFacts ==
  ASSUME ExclusiveTypeOK, NEW c \in Cores, NEW s \in SeqType, Becomes(c, s)
  PROVE  /\ seq' \in [Cores -> [Levels -> SeqType]]
         /\ seq'[c][level[c]] = s
         /\ \A d \in Cores, l \in Levels :
              (d # c \/ l # level[c]) => seq'[d][l] = seq[d][l]
<1>1. seq \in [Cores -> [Levels -> SeqType]] /\ level[c] \in Levels
  BY DEF ExclusiveTypeOK, SeqType, Phases
<1> QED BY <1>1 DEF Becomes

LEMMA TopType ==
  ASSUME ExclusiveTypeOK, NEW c \in Cores
  PROVE  Top(c) \in SeqType /\ level[c] \in Levels
  BY DEF ExclusiveTypeOK, SeqType, Phases, Top

LEMMA NextIInv == IInv /\ [Next]_vars => IInv'
<1> SUFFICES ASSUME IInv, [Next]_vars PROVE IInv'
  OBVIOUS
<1> USE DEF IInv
<1>0. seq \in [Cores -> [Levels -> SeqType]]
  BY DEF ExclusiveTypeOK, SeqType, Phases
<1>1. ASSUME NEW c \in Cores, Begin(c) PROVE IInv'
  <2>1. PICK w \in WordsOf(level[c]) :
          Becomes(c, [Idle EXCEPT !.phase = "link", !.word = w])
    BY <1>1 DEF Begin
  <2> DEFINE s == [Idle EXCEPT !.phase = "link", !.word = w]
  <2>2. s \in SeqType /\ s.phase = "link" /\ s.word = w /\ level[c] \in Levels
    BY IdleType, WordsOfLevels, TopType DEF Idle, SeqType, Phases
  <2> HIDE DEF s
  <2>3. /\ seq' \in [Cores -> [Levels -> SeqType]]
        /\ seq'[c][level[c]] = s
        /\ \A d \in Cores, l \in Levels : (d # c \/ l # level[c]) => seq'[d][l] = seq[d][l]
    BY <2>1, <2>2, BecomesFacts DEF s
  <2>4. events' \in 0..MaxEvents
    BY <1>1, NatAssumption DEF Begin, Event, ExclusiveTypeOK
  <2>5. ExclusiveTypeOK'
    BY <1>1, <2>3, <2>4 DEF Begin, ExclusiveTypeOK, SeqType, Phases
  <2>6. WordInv'
    BY <2>2, <2>3 DEF WordInv
  <2>7. LinkInv'
    BY <1>1, <2>2, <2>3 DEF LinkInv, Begin
  <2> QED BY <2>5, <2>6, <2>7
<1>2. ASSUME NEW c \in Cores, Lwa(c) PROVE IInv'
  <2> DEFINE w == Top(c).word
  <2> DEFINE s == [Top(c) EXCEPT !.phase = "store", !.val = mem[w], !.flag = TRUE]
  <2>1. Top(c) \in SeqType /\ level[c] \in Levels /\ Top(c).phase = "link"
    BY <1>2, TopType DEF Lwa
  <2>2. w \in WordsOf(level[c])
    BY <2>1 DEF WordInv, Top
  <2>3. w \in Words /\ mem[w] \in Values
    BY <2>1, <2>2, WordsOfLevels DEF ExclusiveTypeOK
  <2>4. s \in SeqType /\ s.phase = "store" /\ s.word = w /\ s.val = mem[w]
    BY <2>1, <2>3 DEF SeqType, Phases
  <2>5. Becomes(c, s) /\ excl' = [excl EXCEPT ![c] = [addr |-> w, data |-> mem[w]]]
    BY <1>2 DEF Lwa, ReadExclusive
  <2> HIDE DEF s, w
  <2>6. /\ seq' \in [Cores -> [Levels -> SeqType]]
        /\ seq'[c][level[c]] = s
        /\ \A d \in Cores, l \in Levels : (d # c \/ l # level[c]) => seq'[d][l] = seq[d][l]
    BY <2>5, <2>4, BecomesFacts
  <2>7. ExclusiveTypeOK'
    BY <1>2, <2>3, <2>5, <2>6 DEF Lwa, ExclusiveTypeOK, SeqType, Phases
  <2>8. WordInv'
    BY <2>2, <2>4, <2>6 DEF WordInv
  <2>9. excl'[c].addr = w /\ excl'[c].data = mem[w] /\ \A d \in Cores : d # c => excl'[d] = excl[d]
    BY <2>5 DEF ExclusiveTypeOK
  <2>10. ASSUME NEW d \in Cores, NEW l \in Levels,
                seq'[d][l].phase = "store", excl'[d].addr = seq'[d][l].word
         PROVE  excl'[d].data = seq'[d][l].val
    <3>1. CASE d # c
      BY <3>1, <2>6, <2>9, <2>10 DEF LinkInv
    <3>2. CASE d = c /\ l = level[c]
      BY <3>2, <2>4, <2>6, <2>9
    <3>3. CASE d = c /\ l # level[c]
      <4>1. seq[d][l].phase # "idle" /\ seq[d][l].word = w
        BY <3>3, <2>6, <2>9, <2>10
      <4>2. w \in WordsOf(l)
        BY <4>1 DEF WordInv
      <4> QED BY <4>2, <3>3, <2>1, <2>2, WordsOfLevels
    <3> QED BY <3>1, <3>2, <3>3
  <2> QED BY <2>7, <2>8, <2>10 DEF LinkInv
<1>3. ASSUME NEW c \in Cores, NEW p \in PteWords, Walk(c, p) PROVE IInv'
  <2>1. p \in Words /\ mem[p] \in Values
    BY DEF Words, ExclusiveTypeOK
  <2>2. excl' = [excl EXCEPT ![c] = [addr |-> p, data |-> mem[p]]] /\ UNCHANGED seq
    BY <1>3 DEF Walk, ReadExclusive
  <2>3. ExclusiveTypeOK'
    BY <1>3, <2>1, <2>2 DEF Walk, ExclusiveTypeOK
  <2>4. WordInv'
    BY <2>2 DEF WordInv
  <2>5. excl'[c].addr = p /\ \A d \in Cores : d # c => excl'[d] = excl[d]
    BY <2>2 DEF ExclusiveTypeOK
  <2>6. LinkInv'
    BY <2>2, <2>5, WordsOfLevels DEF LinkInv, WordInv
  <2> QED BY <2>3, <2>4, <2>6
<1>4. ASSUME NEW c \in Cores, Swa(c) PROVE IInv'
  <2> DEFINE w == Top(c).word
  <2> DEFINE s == [Top(c) EXCEPT !.phase = "branch", !.flag = WriteSucceeds(c, w)]
  <2>1. Top(c) \in SeqType /\ level[c] \in Levels /\ Top(c).phase = "store"
    BY <1>4, TopType DEF Swa
  <2>2. w \in WordsOf(level[c])
    BY <2>1 DEF WordInv, Top
  <2>3. WriteSucceeds(c, w) \in BOOLEAN
    BY DEF WriteSucceeds
  <2>4. s \in SeqType /\ s.phase = "branch" /\ s.word = w
    BY <2>1, <2>3 DEF SeqType, Phases
  <2>5. /\ Becomes(c, s)
        /\ mem' = IF WriteSucceeds(c, w) THEN [mem EXCEPT ![w] = Update(Top(c).val)] ELSE mem
    BY <1>4 DEF Swa
  <2>6. mem' \in [Words -> Values]
    <3>1. Update(Top(c).val) \in Values
      BY <2>1, ValuesFacts DEF SeqType
    <3> QED BY <2>5, <3>1 DEF ExclusiveTypeOK
  <2> HIDE DEF s, w
  <2>7. /\ seq' \in [Cores -> [Levels -> SeqType]]
        /\ seq'[c][level[c]] = s
        /\ \A d \in Cores, l \in Levels : (d # c \/ l # level[c]) => seq'[d][l] = seq[d][l]
    BY <2>5, <2>4, BecomesFacts
  <2>8. ExclusiveTypeOK'
    BY <1>4, <2>6, <2>7 DEF Swa, ExclusiveTypeOK, SeqType, Phases
  <2>9. WordInv'
    BY <2>2, <2>4, <2>7 DEF WordInv
  <2>10. LinkInv'
    BY <1>4, <2>4, <2>7 DEF LinkInv, Swa
  <2> QED BY <2>8, <2>9, <2>10
<1>5. ASSUME NEW c \in Cores, Branch(c) \/ GiveUp(c) PROVE IInv'
  <2>1. Top(c) \in SeqType /\ level[c] \in Levels /\ Top(c).phase # "idle"
    BY <1>5, TopType DEF Branch, GiveUp
  <2>2. Top(c).word \in WordsOf(level[c])
    BY <2>1 DEF WordInv, Top
  <2>3. PICK s \in SeqType : /\ Becomes(c, s)
                             /\ s.phase \in {"idle", "link"}
                             /\ s.phase = "link" => s.word = Top(c).word
    <3>1. CASE GiveUp(c)
      BY <3>1, IdleType DEF GiveUp, Idle
    <3>2. CASE Branch(c) /\ Top(c).flag
      <4> DEFINE s == [Idle EXCEPT !.flag = TRUE]
      <4>1. s \in SeqType /\ s.phase = "idle"
        BY IdleType DEF SeqType, Phases, Idle
      <4>2. Becomes(c, s)
        BY <3>2 DEF Branch
      <4> QED BY <4>1, <4>2
    <3>3. CASE Branch(c) /\ ~Top(c).flag
      <4> DEFINE s == [Top(c) EXCEPT !.phase = "link"]
      <4>1. s \in SeqType /\ s.phase = "link" /\ s.word = Top(c).word
        BY <2>1 DEF SeqType, Phases
      <4>2. Becomes(c, s)
        BY <3>3 DEF Branch
      <4> QED BY <4>1, <4>2
    <3> QED BY <1>5, <3>1, <3>2, <3>3
  <2>4. /\ seq' \in [Cores -> [Levels -> SeqType]]
        /\ seq'[c][level[c]] = s
        /\ \A d \in Cores, l \in Levels : (d # c \/ l # level[c]) => seq'[d][l] = seq[d][l]
    BY <2>3, BecomesFacts
  <2>5. events' \in 0..MaxEvents
    BY <1>5, NatAssumption DEF Branch, GiveUp, Event, ExclusiveTypeOK
  <2>6. UNCHANGED <<mem, excl, level, evicted>>
    BY <1>5 DEF Branch, GiveUp
  <2>7. ExclusiveTypeOK'
    BY <2>4, <2>5, <2>6 DEF ExclusiveTypeOK, SeqType, Phases
  <2>8. WordInv'
    BY <2>2, <2>3, <2>4 DEF WordInv
  <2>9. LinkInv'
    BY <2>3, <2>4, <2>6 DEF LinkInv
  <2> QED BY <2>7, <2>8, <2>9
<1>6. ASSUME NEW c \in Cores, Interrupt(c) \/ Rfe(c) PROVE IInv'
  <2>1. UNCHANGED <<mem, excl, seq>>
    BY <1>6 DEF Interrupt, Rfe
  <2>2. events' \in 0..MaxEvents
    BY <1>6, NatAssumption DEF Interrupt, Rfe, Event, ExclusiveTypeOK
  <2>3. level' \in [Cores -> Levels] /\ evicted' \in [Cores -> BOOLEAN]
    BY <1>6 DEF Interrupt, Rfe, ExclusiveTypeOK, Levels
  <2>4. ExclusiveTypeOK'
    BY <2>1, <2>2, <2>3 DEF ExclusiveTypeOK
  <2> QED BY <2>1, <2>4 DEF WordInv, LinkInv
<1>7. ASSUME NEW w \in Words, NEW v \in Values, Store(w, v) PROVE IInv'
  <2>1. UNCHANGED <<excl, level, seq, evicted>> /\ mem' \in [Words -> Values]
    BY <1>7 DEF Store, ExclusiveTypeOK
  <2>2. events' \in 0..MaxEvents
    BY <1>7, NatAssumption DEF Store, Event, ExclusiveTypeOK
  <2>3. ExclusiveTypeOK'
    BY <2>1, <2>2 DEF ExclusiveTypeOK
  <2> QED BY <2>1, <2>3 DEF WordInv, LinkInv
<1>8. CASE UNCHANGED vars
  BY <1>8 DEF vars, ExclusiveTypeOK, WordInv, LinkInv
<1> QED BY <1>1, <1>2, <1>3, <1>4, <1>5, <1>6, <1>7, <1>8 DEF Next, Step

\* Typing and the link invariant hold in every reachable state: an env that
\* still has the address of an open sequence also has the value it read.
THEOREM TypingAndLinks == Spec => [](ExclusiveTypeOK /\ WordInv /\ LinkInv)
<1>1. Init => IInv
  BY InitIInv
<1>2. IInv /\ [Next]_vars => IInv'
  BY NextIInv
<1> QED BY <1>1, <1>2, PTL DEF Spec, IInv

-----------------------------------------------------------------------------
\* The word a level has yet to update, or how its last sequence ended, as
\* ImplementsAtomic maps it.
Job(s) == IF s.phase \in {"idle", "branch"} /\ s.flag THEN "updated"
          ELSE IF s.phase = "idle" THEN "left" ELSE s.word
Jobs == [c \in Cores |-> [l \in Levels |-> Job(seq[c][l])]]

LEMMA JobsFacts ==
  ASSUME NEW c \in Cores, NEW l \in Levels
  PROVE  Jobs[c][l] = Job(seq[c][l]) /\ Jobs'[c][l] = Job(seq'[c][l])
  BY DEF Jobs, Job

\* A step of core c changes at most one job.
LEMMA JobsStep ==
  ASSUME ExclusiveTypeOK, NEW c \in Cores, NEW s \in SeqType, Becomes(c, s)
  PROVE  Jobs' = [Jobs EXCEPT ![c][level[c]] = Job(s)]
<1>1. /\ level[c] \in Levels
      /\ seq'[c][level[c]] = s
      /\ \A d \in Cores, l \in Levels : (d # c \/ l # level[c]) => seq'[d][l] = seq[d][l]
  BY BecomesFacts, TopType
<1> DEFINE J == [Jobs EXCEPT ![c][level[c]] = Job(s)]
<1>2. J = [d \in Cores |-> [l \in Levels |->
             IF d = c /\ l = level[c] THEN Job(s) ELSE Job(seq[d][l])]]
  BY <1>1 DEF Jobs
<1>3. Jobs' = [d \in Cores |-> [l \in Levels |-> Job(seq'[d][l])]]
  BY DEF Jobs, Job
<1>4. \A d \in Cores, l \in Levels :
        Job(seq'[d][l]) = IF d = c /\ l = level[c] THEN Job(s) ELSE Job(seq[d][l])
  BY <1>1
<1>5. Jobs' = [d \in Cores |-> [l \in Levels |->
             IF d = c /\ l = level[c] THEN Job(s) ELSE Job(seq[d][l])]]
  BY <1>3, <1>4
<1> QED BY <1>2, <1>5

LEMMA JobsSame ==
  ASSUME ExclusiveTypeOK, NEW c \in Cores, NEW s \in SeqType, Becomes(c, s),
         Job(s) = Job(Top(c))
  PROVE  Jobs' = Jobs
<1>1. /\ level[c] \in Levels
      /\ seq'[c][level[c]] = s
      /\ \A d \in Cores, l \in Levels : (d # c \/ l # level[c]) => seq'[d][l] = seq[d][l]
  BY BecomesFacts, TopType
<1>2. \A d \in Cores, l \in Levels : Job(seq'[d][l]) = Job(seq[d][l])
  BY <1>1 DEF Top
<1>3. Jobs' = [d \in Cores |-> [l \in Levels |-> Job(seq'[d][l])]]
  BY DEF Jobs, Job
<1> QED BY <1>2, <1>3 DEF Jobs

LEMMA InitMaps == Init => Atomic!Init
<1> SUFFICES ASSUME Init PROVE Atomic!Init
  OBVIOUS
<1>1. \A c \in Cores, l \in Levels : seq[c][l].phase = "idle" /\ ~seq[c][l].flag
  BY DEF Init, Idle
<1>2. mem \in [Words -> Values]
  BY ValuesFacts DEF Init
<1> QED BY <1>1, <1>2 DEF Atomic!Init

LEMMA StepMaps == IInv /\ [Next]_vars => [Atomic!Next]_(Atomic!vars)
<1> SUFFICES ASSUME IInv, [Next]_vars PROVE [Atomic!Next]_(Atomic!vars)
  OBVIOUS
<1> USE DEF IInv
<1>0. Atomic!vars = <<mem, Jobs>> /\ Atomic!vars' = <<mem', Jobs'>>
  BY DEF Atomic!vars, Jobs, Job
<1>a. ASSUME UNCHANGED <<mem, Jobs>> PROVE [Atomic!Next]_(Atomic!vars)
  BY <1>a, <1>0
<1>1. ASSUME NEW c \in Cores, Begin(c) PROVE [Atomic!Next]_(Atomic!vars)
  <2>1. PICK w \in WordsOf(level[c]) :
          Becomes(c, [Idle EXCEPT !.phase = "link", !.word = w])
    BY <1>1 DEF Begin
  <2> DEFINE s == [Idle EXCEPT !.phase = "link", !.word = w]
  <2>2. s \in SeqType /\ Job(s) = w /\ level[c] \in Levels /\ w \in Words
    BY IdleType, WordsOfLevels, TopType DEF Idle, SeqType, Phases, Job
  <2> HIDE DEF s
  <2>3. Jobs' = [Jobs EXCEPT ![c][level[c]] = w]
    BY <2>1, <2>2, JobsStep DEF s
  <2>4. Jobs[c][level[c]] \in Atomic!Outcomes
    BY <1>1, <2>2, JobsFacts DEF Begin, Top, Job, Atomic!Outcomes
  <2>5. UNCHANGED mem
    BY <1>1 DEF Begin
  <2>6. PICK l \in Levels : l = level[c]
    BY <2>2
  <2>7. Atomic!Begin(c, l, w)
    BY <2>3, <2>4, <2>5, <2>6 DEF Atomic!Begin, Jobs, Job
  <2>8. Atomic!Next
    BY <2>2, <2>7 DEF Atomic!Next
  <2> QED BY <2>8
<1>2. ASSUME NEW c \in Cores, Lwa(c) PROVE [Atomic!Next]_(Atomic!vars)
  <2> DEFINE w == Top(c).word
  <2> DEFINE s == [Top(c) EXCEPT !.phase = "store", !.val = mem[w], !.flag = TRUE]
  <2>1. Top(c) \in SeqType /\ level[c] \in Levels /\ Top(c).phase = "link"
    BY <1>2, TopType DEF Lwa
  <2>2. w \in WordsOf(level[c])
    BY <2>1 DEF WordInv, Top
  <2>3. mem[w] \in Values
    BY <2>1, <2>2, WordsOfLevels DEF ExclusiveTypeOK
  <2>4. s \in SeqType /\ Job(s) = Job(Top(c))
    BY <2>1, <2>3 DEF SeqType, Phases, Job
  <2>5. Becomes(c, s) /\ UNCHANGED mem
    BY <1>2 DEF Lwa
  <2> QED BY <2>4, <2>5, JobsSame, <1>a
<1>3. ASSUME NEW c \in Cores, NEW p \in PteWords, Walk(c, p) PROVE [Atomic!Next]_(Atomic!vars)
  BY <1>3, <1>a DEF Walk, Jobs
<1>4. ASSUME NEW c \in Cores, Swa(c) PROVE [Atomic!Next]_(Atomic!vars)
  <2> DEFINE w == Top(c).word
  <2> DEFINE s == [Top(c) EXCEPT !.phase = "branch", !.flag = WriteSucceeds(c, w)]
  <2>1. Top(c) \in SeqType /\ level[c] \in Levels /\ Top(c).phase = "store"
    BY <1>4, TopType DEF Swa
  <2>2. w \in WordsOf(level[c]) /\ w \in Words
    BY <2>1, WordsOfLevels DEF WordInv, Top
  <2>3. WriteSucceeds(c, w) \in BOOLEAN
    BY DEF WriteSucceeds
  <2>4. s \in SeqType /\ s.phase = "branch" /\ s.word = w /\ s.flag = WriteSucceeds(c, w)
    BY <2>1, <2>3 DEF SeqType, Phases
  <2>5. /\ Becomes(c, s)
        /\ mem' = IF WriteSucceeds(c, w) THEN [mem EXCEPT ![w] = Update(Top(c).val)] ELSE mem
    BY <1>4 DEF Swa
  <2>6. Job(Top(c)) = w /\ Jobs[c][level[c]] = w
    BY <2>1, JobsFacts DEF Job, Top
  <2>7. CASE WriteSucceeds(c, w)
    <3>1. mem[w] = Top(c).val
      BY <2>1, <2>7 DEF WriteSucceeds, LinkInv, Top
    <3>2. mem' = [mem EXCEPT ![w] = Update(mem[w])]
      BY <2>5, <2>7, <3>1
    <3>3. Job(s) = "updated"
      BY <2>4, <2>7 DEF Job
    <3>4. Jobs' = [Jobs EXCEPT ![c][level[c]] = "updated"]
      BY <2>4, <2>5, <3>3, JobsStep
    <3>5. PICK l \in Levels : l = level[c]
      BY <2>1
    <3>6. Atomic!Perform(c, l)
      BY <2>2, <2>6, <3>2, <3>4, <3>5 DEF Atomic!Perform, Jobs, Job
    <3>7. Atomic!Next
      BY <3>6 DEF Atomic!Next
    <3> QED BY <3>7
  <2>8. CASE ~WriteSucceeds(c, w)
    <3>1. Job(s) = Job(Top(c)) /\ UNCHANGED mem
      BY <2>4, <2>5, <2>6, <2>8 DEF Job
    <3> QED BY <2>4, <2>5, <3>1, JobsSame, <1>a
  <2> QED BY <2>7, <2>8
<1>5. ASSUME NEW c \in Cores, Branch(c) PROVE [Atomic!Next]_(Atomic!vars)
  <2>1. Top(c) \in SeqType /\ level[c] \in Levels /\ Top(c).phase = "branch"
    BY <1>5, TopType DEF Branch
  <2> DEFINE s == IF Top(c).flag THEN [Idle EXCEPT !.flag = TRUE]
                  ELSE [Top(c) EXCEPT !.phase = "link"]
  <2>2. s \in SeqType /\ Job(s) = Job(Top(c))
    BY <2>1, IdleType DEF SeqType, Phases, Job, Idle
  <2>3. Becomes(c, s) /\ UNCHANGED mem
    BY <1>5 DEF Branch
  <2> QED BY <2>2, <2>3, JobsSame, <1>a
<1>6. ASSUME NEW c \in Cores, GiveUp(c) PROVE [Atomic!Next]_(Atomic!vars)
  <2>1. Becomes(c, Idle) /\ UNCHANGED mem /\ level[c] \in Levels
    BY <1>6, TopType DEF GiveUp
  <2>2. Job(Idle) = "left"
    BY DEF Job, Idle
  <2>3. Jobs' = [Jobs EXCEPT ![c][level[c]] = "left"]
    BY <2>1, <2>2, JobsStep, IdleType
  <2>4. PICK l \in Levels : l = level[c]
    BY <2>1
  <2>5. Atomic!Abandon(c, l)
    BY <2>1, <2>3, <2>4 DEF Atomic!Abandon, Jobs, Job
  <2>6. Atomic!Next
    BY <2>5 DEF Atomic!Next
  <2> QED BY <2>6
<1>7. ASSUME NEW c \in Cores, Interrupt(c) \/ Rfe(c) PROVE [Atomic!Next]_(Atomic!vars)
  BY <1>7, <1>a DEF Interrupt, Rfe, Jobs
<1>8. ASSUME NEW w \in Words, NEW v \in Values, Store(w, v) PROVE [Atomic!Next]_(Atomic!vars)
  <2>1. mem' = [mem EXCEPT ![w] = v] /\ UNCHANGED Jobs
    BY <1>8 DEF Store, Jobs
  <2>2. Atomic!Store(w, v)
    BY <2>1 DEF Atomic!Store, Jobs, Job
  <2> QED BY <2>2 DEF Atomic!Next
<1>9. CASE UNCHANGED vars
  BY <1>9, <1>a DEF vars, Jobs
<1> QED BY <1>1, <1>2, <1>3, <1>4, <1>5, <1>6, <1>7, <1>8, <1>9 DEF Next, Step

\* A successful l.swa is one atomic update of the word as it is at that moment,
\* for any number of cores, words and values, under WordsAssumption.
THEOREM AtomicRefinement == Spec => ImplementsAtomic
<1>1. Init => Atomic!Init
  BY InitMaps
<1>2. IInv /\ [Next]_vars => [Atomic!Next]_(Atomic!vars)
  BY StepMaps
<1>3. Spec => []IInv
  BY TypingAndLinks, PTL DEF IInv
<1> QED BY <1>1, <1>2, <1>3, PTL DEF Spec, ImplementsAtomic, Atomic!Spec
=============================================================================
