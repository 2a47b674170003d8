-------------------------------- MODULE MCMmu --------------------------------
(* Instances of Mmu for TLC.                                                *)
EXTENDS Mmu

None == {}

(* a page only the supervisor may write, and one users may read             *)
Kernel == [frame |-> 0, bits |-> {8, 9}]
User == [frame |-> 1, bits |-> {6, 8}]
MCPteWords == {Kernel, User}

(* three pages for two ways; the mapping of page 0 comes and goes           *)
MCTables == {[p \in Pages |-> User]}
MCTableWrites == [page : {0}, pte : {Kernel, NoPte}]

DataKinds == {"read", "write", "debug"}
UserMode == {FALSE}

(* software fills a way in two steps, and may enter a page twice            *)
MCMatchWrites == [v : {TRUE}, page : {0}, age : {0}]
MCTransWrites == {[frame |-> 0, bits |-> {6, 7}]}
==============================================================================
