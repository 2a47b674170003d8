----------------------------- MODULE AtomicOps -----------------------------
(***************************************************************************)
(* What software expects of a read-modify-write sequence l.lwa, l.swa,     *)
(* retried until l.swa succeeds: the word is updated in one step, from the  *)
(* value it holds at that step.  Exclusive.tla implements it.               *)
(***************************************************************************)
EXTENDS Naturals

CONSTANTS Cores, Levels, Words, Values, Update(_)

VARIABLES mem,    \* [Words -> Values]
          job     \* job[c][l]: the word that level l of core c has to update
                  \* yet, or how its last sequence ended

vars == <<mem, job>>

Outcomes == {"updated", "left"}

Init == /\ mem \in [Words -> Values]
        /\ job = [c \in Cores |-> [l \in Levels |-> "left"]]

Begin(c, l, w) == /\ job[c][l] \in Outcomes
                  /\ job' = [job EXCEPT ![c][l] = w]
                  /\ UNCHANGED mem

\* the whole of a successful sequence
Perform(c, l) == /\ job[c][l] \in Words
                 /\ mem' = [mem EXCEPT ![job[c][l]] = Update(@)]
                 /\ job' = [job EXCEPT ![c][l] = "updated"]

\* a sequence may be left without an update: a lock found taken
Abandon(c, l) == /\ job' = [job EXCEPT ![c][l] = "left"]
                 /\ UNCHANGED mem

\* an ordinary store of any core or device
Store(w, v) == /\ mem' = [mem EXCEPT ![w] = v]
               /\ UNCHANGED job

Next == \/ \E c \in Cores, l \in Levels :
             \/ \E w \in Words : Begin(c, l, w)
             \/ Perform(c, l)
             \/ Abandon(c, l)
        \/ \E w \in Words, v \in Values : Store(w, v)

Spec == Init /\ [][Next]_vars
=============================================================================
