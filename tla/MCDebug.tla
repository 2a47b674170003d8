------------------------------ MODULE MCDebug ------------------------------
(* Instances of DebugSession for TLC: pages of three bytes, a buffer of two. *)
EXTENDS DebugSession

\* over a page boundary, then a turn cut by the buffer and one by the page
MCReads == {<<2, 4>>}

\* the MMUs off, and two epochs with both on: page 0 is known to the data MMU,
\* page 1 to the instruction MMU in one of them and to nobody in the other
MCEpochs == {"off", "kernel", "user"}
MCOn == {"kernel", "user"}
MCDataMap == [e \in MCEpochs |-> [p \in Pages |->
                CASE p = 0 /\ e = "kernel" -> 2 [] p = 0 /\ e = "user" -> 3 [] OTHER -> Fails]]
MCInsnMap == [e \in MCEpochs |-> [p \in Pages |->
                IF p = 1 /\ e = "kernel" THEN 4 ELSE Fails]]

\* page 0 is frame 0, page 1 is in a section of the file
MCElfMap == [p \in Pages |-> IF p = 1 THEN 5 ELSE p]
=============================================================================
