------------------------------ MODULE PageCache ------------------------------
(***************************************************************************)
(* What software may rely on: a set of mappings of which some are known.   *)
(* A request is answered by a known mapping of its page; only when there   *)
(* is none does a walk of the page table count, and may then be known from *)
(* then on, at the price of any other.  What was flushed is not known      *)
(* until it is loaded again.                                               *)
(***************************************************************************)
EXTENDS Paging

VARIABLES
  known,       \* the mappings that may answer
  table,       \* the page table in memory
  directory,   \* is there a page directory?
  request,     \* the last call
  answer       \* and its answer

KnownOf(page) == {m \in known : m.page = page}

(* A walk yields nothing without a directory, or when the bus fails.        *)
Walks(page) == {NoPte} \cup (IF directory THEN {table[page]} ELSE {})

Answered(r) ==
  \E m \in KnownOf(r.page) : answer' = Answer(m.frame, m.bits, r)

Walked(r) ==
  \E pte \in Walks(r.page) :
    answer' = IF pte = NoPte THEN TlbMiss ELSE Answer(pte.frame, LoadedBits(r, pte), r)

(* ... and what it may know afterwards *)
Learns(r) ==
  \/ known' = known
  \/ /\ answer'.result = "OKAY" /\ r.kind # "debug"
     /\ \E pte \in Walks(r.page) :
          LET m == MappingOf(r.page, pte.frame, LoadedBits(r, pte))
          IN  m \in known' /\ known' \subseteq known \cup {m}

Ask(r) ==
  /\ request' = r
  /\ IF KnownOf(r.page) # {} THEN Answered(r) /\ known' = known
     ELSE Walked(r) /\ Learns(r)
  /\ UNCHANGED <<table, directory>>

Forget(page) ==
  /\ known' = known \ KnownOf(page)
  /\ request' = FlushOf(page)
  /\ UNCHANGED <<table, directory, answer>>

ForgetAll ==
  /\ known' = {} /\ directory' \in BOOLEAN
  /\ request' = FlushOfAll
  /\ UNCHANGED <<table, answer>>

(* Software writes an entry of its own.                                     *)
Load ==
  /\ \A m, n \in known' \ known : m = n
  /\ UNCHANGED <<table, directory, request, answer>>

MemoryChanges ==
  /\ table' \in [Pages -> Ptes] /\ directory' \in BOOLEAN
  /\ UNCHANGED <<known, request, answer>>

PageCacheInit ==
  /\ known = {}
  /\ table \in [Pages -> Ptes] /\ directory \in BOOLEAN
  /\ request \in Requests /\ answer = TlbMiss

PageCacheNext ==
  \/ \E r \in Requests : Ask(r)
  \/ \E p \in Pages : Forget(p)
  \/ ForgetAll
  \/ Load
  \/ MemoryChanges

PageCacheSpec ==
  PageCacheInit /\ [][PageCacheNext]_<<known, table, directory, request, answer>>
===============================================================================
