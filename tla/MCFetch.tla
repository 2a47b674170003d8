------------------------------- MODULE MCFetch -------------------------------
(* Instances of Fetch for TLC.                                              *)
EXTENDS Fetch

(* an executable page, and one whose flags come to the same thing           *)
Text == [frame |-> 0, bits |-> {10}]
Shared == [frame |-> 2, bits |-> {10}]
MCPteWords == {Text, Shared}
MCTables == {[p \in Pages |-> IF p = 0 THEN Text ELSE Shared]}

FetchKinds == {"fetch"}
BothModes == BOOLEAN
Nothing == {}

(* the first page is moved to the frame of the second                       *)
Remaps == {[page |-> 0, pte |-> Shared]}
==============================================================================
