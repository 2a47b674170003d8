------------------------------ MODULE InsnMemory ------------------------------
(***************************************************************************)
(* Memory as the instruction port of a core may see it: a word shows what  *)
(* was stored to it last, or anything it held since it was last            *)
(* invalidated.                                                            *)
(***************************************************************************)
CONSTANTS Words, Insns, Blocks   \* Blocks: the sets of words invalidated at once

VARIABLES
  mem,       \* the contents
  visible,   \* what a fetch of each word may yield
  got        \* the last fetch: a word and what it yielded

MayForget(except) ==
  \A w \in Words \ except : /\ visible'[w] \subseteq visible[w]
                            /\ mem[w] \in visible'[w]

Yields(w) ==
  /\ got' \in {[word |-> w, insn |-> i] : i \in visible[w]}
  /\ MayForget({}) /\ UNCHANGED mem

Holds(w, i) ==
  /\ mem' = [mem EXCEPT ![w] = i]
  /\ i \in visible'[w] /\ visible'[w] \subseteq visible[w] \cup {i}
  /\ MayForget({w}) /\ UNCHANGED got

Synchronised(ws) ==
  /\ \A w \in ws : visible'[w] = {mem[w]}
  /\ MayForget(ws) /\ UNCHANGED <<mem, got>>

InsnMemoryInit ==
  /\ mem \in [Words -> Insns] /\ visible = [w \in Words |-> {mem[w]}]
  /\ got \in [word : Words, insn : Insns]

InsnMemoryNext ==
  \/ \E w \in Words : Yields(w)
  \/ \E w \in Words, i \in Insns : Holds(w, i)
  \/ \E ws \in Blocks : Synchronised(ws)

InsnMemorySpec ==
  InsnMemoryInit /\ [][InsnMemoryNext]_<<mem, visible, got>>
===============================================================================
