----------------------------- MODULE Exclusive -----------------------------
(***************************************************************************)
(* Exclusive accesses: several cores, each with its own env (env.cpp) over  *)
(* one directly accessible memory.  l.lwa leaves the address and the value  *)
(* it read in the env; l.swa succeeds when the address is the same and the  *)
(* word still holds that value, which one compare-and-swap of the host      *)
(* decides.  There is no reservation that a store, an exception or l.rfe    *)
(* would clear.                                                             *)
(*                                                                         *)
(* The software around them is external: at each of two levels, the task   *)
(* and the handler that may interrupt it, a core runs l.lwa, an update of  *)
(* the value, l.swa and a conditional branch back to l.lwa.                 *)
(***************************************************************************)
EXTENDS Naturals, FiniteSets

CONSTANTS Cores, TaskWords, HandlerWords, PteWords, NoWord,
          Modulus,     \* values are taken modulo this
          MaxEvents    \* bound on new sequences, interrupts and plain stores

Words  == TaskWords \cup HandlerWords \cup PteWords
Values == 0..(Modulus - 1)
Levels == {"task", "handler"}

\* A handler does not link the words of the code it interrupts: the env does
\* not know which of the two an l.swa belongs to.
ASSUME WordsAssumption == /\ TaskWords \cap HandlerWords = {}
                          /\ PteWords \cap (TaskWords \cup HandlerWords) = {}
                          /\ {NoWord, "updated", "left"} \cap Words = {}
ASSUME NatAssumption == Modulus \in Nat \ {0} /\ MaxEvents \in Nat

VARIABLES mem,      \* the memory behind m_data_ptr
          excl,     \* excl[c]: m_excl_addr and m_excl_data of the env of c
          level,    \* level[c]: whether core c runs the task or the handler
          seq,      \* seq[c][l]: where the sequence of that level is
          evicted,  \* evicted[c]: a handler ran since the task's l.lwa
          events

vars == <<mem, excl, level, seq, evicted, events>>

Idle == [phase |-> "idle", word |-> NoWord, val |-> 0, flag |-> FALSE]
WordsOf(l) == IF l = "task" THEN TaskWords ELSE HandlerWords
Update(v) == (v + 1) % Modulus

Init == /\ mem \in [Words -> {0}]
        /\ excl = [c \in Cores |-> [addr |-> NoWord, data |-> 0]]
        /\ level = [c \in Cores |-> "task"]
        /\ seq = [c \in Cores |-> [l \in Levels |-> Idle]]
        /\ evicted = [c \in Cores |-> FALSE]
        /\ events = 0

Event == events < MaxEvents /\ events' = events + 1

Top(c) == seq[c][level[c]]
Becomes(c, s) == seq' = [seq EXCEPT ![c][level[c]] = s]

ReadExclusiveOnce(c, w) ==                                          \* mutant
  excl' = IF excl[c].addr = w THEN excl
          ELSE [excl EXCEPT ![c] = [addr |-> w, data |-> mem[w]]]

\* mutant: more bytes are kept than the access has, those of the next word
ReadExclusiveWide(c, w) ==
  excl' = [excl EXCEPT ![c] = [addr |-> w,
             data |-> mem[w] + Modulus * mem[CHOOSE x \in Words : x # w]]]

\* env::exclusive_access() for a read: remember the address and the value
ReadExclusive(c, w) ==
  excl' = [excl EXCEPT ![c] = [addr |-> w, data |-> mem[w]]]

WriteSucceedsAnywhere(c, w) == mem[w] = excl[c].data                \* mutant

\* env::exclusive_access() for a write: same address, and cas() succeeds
WriteSucceeds(c, w) ==
  /\ w = excl[c].addr
  /\ mem[w] = excl[c].data

\* software begins a sequence
Begin(c) ==
  /\ Event
  /\ Top(c).phase = "idle"
  /\ \E w \in WordsOf(level[c]) :
       Becomes(c, [Idle EXCEPT !.phase = "link", !.word = w])
  /\ UNCHANGED <<mem, excl, level, evicted>>

\* l.lwa: a table walk it needs comes first, so that what it leaves in the env
\* is overwritten; SR_F is set (or1k.cpp:215-217).  It fills the TLB.
Lwa(c) ==
  /\ Top(c).phase = "link"
  /\ ReadExclusive(c, Top(c).word)
  /\ Becomes(c, [Top(c) EXCEPT !.phase = "store", !.val = mem[Top(c).word],
                                !.flag = TRUE])
  /\ evicted' = [evicted EXCEPT ![c] = FALSE]
  /\ UNCHANGED <<mem, level, events>>

\* the table walk of an l.swa whose page has left the TLB since its l.lwa: the
\* request of the walk keeps the exclusive flag, so it is an exclusive read
Walk(c, p) ==
  /\ Top(c).phase = "store" /\ evicted[c]
  /\ ReadExclusive(c, p)
  /\ evicted' = [evicted EXCEPT ![c] = FALSE]
  /\ UNCHANGED <<mem, level, seq, events>>

\* l.swa: the compare-and-swap decides, SR_F tells
Swa(c) ==
  LET w  == Top(c).word
      ok == WriteSucceeds(c, w)
  IN  /\ Top(c).phase = "store"
      /\ mem' = IF ok THEN [mem EXCEPT ![w] = Update(Top(c).val)] ELSE mem
      /\ Becomes(c, [Top(c) EXCEPT !.phase = "branch", !.flag = ok])
      /\ UNCHANGED <<excl, level, evicted, events>>

\* l.bnf back to l.lwa; an interrupt between l.swa and here saves SR_F in ESR
Branch(c) ==
  /\ Top(c).phase = "branch"
  /\ Becomes(c, IF Top(c).flag THEN [Idle EXCEPT !.flag = TRUE]
                 ELSE [Top(c) EXCEPT !.phase = "link"])
  /\ UNCHANGED <<mem, excl, level, evicted, events>>

\* the value read does not allow the update: no l.swa follows
GiveUp(c) ==
  /\ Event
  /\ Top(c).phase = "store"
  /\ Becomes(c, Idle)
  /\ UNCHANGED <<mem, excl, level, evicted>>

\* an exception: neither entry nor l.rfe touches the env
Interrupt(c) ==
  /\ Event
  /\ level[c] = "task"
  /\ level' = [level EXCEPT ![c] = "handler"]
  /\ UNCHANGED <<mem, excl, seq, evicted>>

Rfe(c) ==
  /\ level[c] = "handler" /\ Top(c).phase = "idle"
  /\ level' = [level EXCEPT ![c] = "task"]
  /\ evicted' = [evicted EXCEPT ![c] = TRUE]
  /\ UNCHANGED <<mem, excl, seq, events>>

\* l.sw of any core, or a device
Store(w, v) ==
  /\ Event
  /\ mem' = [mem EXCEPT ![w] = v]
  /\ UNCHANGED <<excl, level, seq, evicted>>

Step(c) == \/ Lwa(c) \/ Swa(c) \/ Branch(c) \/ Rfe(c)
           \/ \E p \in PteWords : Walk(c, p)

Next == \/ \E c \in Cores : Step(c) \/ Begin(c) \/ GiveUp(c) \/ Interrupt(c)
        \/ \E w \in Words, v \in Values : Store(w, v)

Spec == Init /\ [][Next]_vars
\* the threads of the host that run the cores go on
FairSpec == Spec /\ \A c \in Cores : WF_vars(Step(c))
-----------------------------------------------------------------------------
\* Every variable holds what the code keeps there.
ExclusiveTypeOK ==
  /\ mem \in [Words -> Values]
  /\ excl \in [Cores -> [addr : Words \cup {NoWord}, data : Values]]
  /\ level \in [Cores -> Levels]
  /\ seq \in [Cores -> [Levels -> [phase : {"idle", "link", "store", "branch"},
                                   word : Words \cup {NoWord}, val : Values,
                                   flag : BOOLEAN]]]
  /\ evicted \in [Cores -> BOOLEAN]
  /\ events \in 0..MaxEvents

\* Whatever interleaves with a sequence - sequences and stores of other cores,
\* values that come back, handlers with sequences of their own, walks that
\* take the reservation away - an l.swa that reports success has updated the
\* value the word held at that moment: no update is lost (env.cpp:38-52).
Atomic == INSTANCE AtomicOps WITH
  job <- [c \in Cores |-> [l \in Levels |->
            IF seq[c][l].phase \in {"idle", "branch"} /\ seq[c][l].flag THEN "updated"
            ELSE IF seq[c][l].phase = "idle" THEN "left" ELSE seq[c][l].word]]
ImplementsAtomic == Atomic!Spec

\* Nobody holds anybody up: once nothing new begins and no interrupt or store
\* interferes, every sequence that was begun comes to its end (l.swa fails only
\* for a reason, env.cpp:44-48).
SequencesEnd == []<>(\A c \in Cores, l \in Levels : seq[c][l].phase = "idle")
=============================================================================
