---------------------------- MODULE DebugSession ----------------------------
(***************************************************************************)
(* The debugger stub with a client at the other end of the connection.  The *)
(* client is external: it follows the protocol as gdb does - one command at *)
(* a time, an acknowledgement for each reply, a resumption only when it     *)
(* thinks that the core is stopped - and may interrupt a running core once  *)
(* or go away at any moment.                                                *)
(***************************************************************************)
EXTENDS Gdb

CONSTANT Reads   \* <<address, length>> of the memory accesses of the client

ASSUME ReadsAssumption ==
  \A r \in Reads : r \in Nat \X Nat /\ r[1] + r[2] <= NumPages * PageSize

VARIABLE client

vars == <<gdbVars, client>>

ClientInit == client = [st |-> "stopped", cmd |-> "none", intr |-> FALSE, asked |-> FALSE]

Put(m) == in' = Append(in, m)
Commands == {"simple", "set", "clear"}

Ask ==
  /\ client.st = "stopped"
  /\ \/ \E c \in Commands : /\ Put(Packet(c, 0, 0))
                            /\ client' = [client EXCEPT !.st = "asking", !.cmd = c]
     \/ \E r \in Reads : /\ Put(Packet("mem", r[1], r[2]))
                         /\ client' = [client EXCEPT !.st = "asking", !.cmd = "mem"]
  /\ UNCHANGED <<mode, sim, srv, bp, epoch, moved, woken, here, ran, dtlb, open, closed, out>>

\* a breakpoint is removed before the client lets go
AskDetach ==
  /\ client.st = "stopped" /\ ~bp
  /\ Put(Packet("detach", 0, 0))
  /\ client' = [client EXCEPT !.st = "asking", !.cmd = "detach"]
  /\ UNCHANGED <<mode, sim, srv, bp, epoch, moved, woken, here, ran, dtlb, open, closed, out>>

AskResume ==
  /\ client.st = "stopped"
  /\ \E c \in {"step", "continue"} :
       /\ Put(Packet(c, 0, 0))
       /\ client' = [client EXCEPT !.st = "waiting", !.cmd = c, !.asked = FALSE]
  /\ UNCHANGED <<mode, sim, srv, bp, epoch, moved, woken, here, ran, dtlb, open, closed, out>>

AskKill ==
  /\ client.st = "stopped"
  /\ Put(Packet("kill", 0, 0))
  /\ client' = [client EXCEPT !.st = "gone", !.cmd = "kill"]
  /\ closed' = TRUE /\ out' = <<>>
  /\ UNCHANGED <<mode, sim, srv, bp, epoch, moved, woken, here, ran, dtlb, open>>

Interrupt ==
  /\ client.st = "waiting" /\ ~client.intr
  /\ Put(Intr)
  /\ client' = [client EXCEPT !.intr = TRUE, !.asked = TRUE]
  /\ UNCHANGED <<mode, sim, srv, bp, epoch, moved, woken, here, ran, dtlb, open, closed, out>>

Close ==
  /\ client.st # "gone"
  /\ client' = [client EXCEPT !.st = "gone"]
  /\ closed' = TRUE /\ out' = <<>>
  /\ UNCHANGED <<mode, sim, srv, bp, epoch, moved, woken, here, ran, dtlb, open, in>>

\* where the client stands after a reply; a program may also end between a
\* detachment and its answer
After(m) ==
  CASE m.t = "stop" /\ client.st = "waiting" -> "stopped"
    [] m.t = "exit" /\ (client.st = "waiting" \/ client.cmd = "detach") -> "exited"
    [] m.t \in {"ok", "mem"} /\ client.st = "asking" ->
         IF client.cmd = "detach" THEN "detached" ELSE "stopped"
    [] OTHER -> "confused"

Receive ==
  /\ out # <<>> /\ client.st # "confused"
  /\ out' = Tail(out)
  /\ IF Head(out).t = "ack" THEN UNCHANGED <<in, client>>
     ELSE Put(Ack) /\ client' = [client EXCEPT !.st = After(Head(out))]
  /\ UNCHANGED <<mode, sim, srv, bp, epoch, moved, woken, here, ran, dtlb, open, closed>>

Client == Ask \/ AskDetach \/ AskResume \/ AskKill \/ Interrupt \/ Close \/ Receive

Init == GdbInit /\ ClientInit
Next == \/ (Sim \/ Srv) /\ UNCHANGED client
        \/ Client
Spec == Init /\ [][Next]_vars

\* both threads are loops that the host schedules; the client reads its replies
FairSpec == /\ Spec
            /\ WF_vars(Sim /\ UNCHANGED client)
            /\ WF_vars(Srv /\ UNCHANGED client)
            /\ WF_vars(Receive)
-----------------------------------------------------------------------------
DebugTypes ==
  /\ mode \in Modes /\ sim.copied \in Modes
  /\ sim.pc \in {"top", "run", "report", "send", "ended"}
  /\ srv.pc \in {"listen", "check", "signal", "commands", "handle", "ok", "mem", "gone"}
  /\ bp \in BOOLEAN /\ here \in Spots /\ ran \in 0..2
  /\ {epoch, moved} \subseteq Epochs /\ woken \in BOOLEAN
  /\ dtlb \in [Pages -> Nat]
  /\ srv.addr \in 0..(NumPages * PageSize) /\ srv.left \in Nat

\* The variables hold what the two threads keep in them, and the connection is
\* never filled by messages that nobody takes.
DebugTypeOK == DebugTypes /\ Len(in) <= 6 /\ Len(out) <= 6

NoInterrupt == ~client.intr

\* Every command gets its answer and every resumption one stop reply, in this
\* order, whatever the two threads do with m_mode in between (gdb.cpp:593-617).
OneAnswerEach == NoInterrupt => client.st # "confused"

\* While the client thinks that the core is stopped, no thread is about to let it
\* execute, in the shared mode or in the copy of it: registers and memory are
\* touched between two steps of no cycle (gdb.cpp:160-182, 593-603).
StoppedMeansStopped ==
  (NoInterrupt /\ client.st \in {"stopped", "asking"} /\ client.cmd # "detach") =>
     /\ mode = "halted"
     /\ sim.pc \in {"run", "report"} => sim.copied = "halted"

\* A stop reply is only sent after the core has moved, unless it was resumed at a
\* breakpoint; after a step it has not moved twice (gdb.cpp:612-617): the mode that
\* decides is the one copied before.  An interrupt taken since may have left the
\* breakpoint.
StopAfterProgress ==
  (NoInterrupt /\ client.st = "waiting" /\ (\E i \in 1..Len(out) : out[i].t = "stop"))
     => /\ ran >= 1 \/ (bp /\ (here \/ woken))
        /\ client.cmd = "step" => ran <= 1

\* byte is the one at addr by the mappings of epoch e
IsAt(e, addr, byte) ==
  LET frame == Translate(e, addr \div PageSize)
  IN  frame # Fails /\ byte = (frame * PageSize) + (addr % PageSize)

\* A memory access is about the bytes that the client means, as the core maps
\* them now or, when it has taken an interrupt while halted, mapped them before:
\* over page and buffer boundaries, and never as before the last resumption
\* (gdb.cpp:71-136, 334-366).
MemReplyExact ==
  NoInterrupt =>
    \A i \in 1..Len(out) : out[i].t = "mem" =>
      \A k \in 1..Len(out[i].data) :
        \E e \in {moved, epoch} : IsAt(e, out[i].addr + k - 1, out[i].data[k])

\* A step ends and the client is told, unless a stop reply of an interrupt is on
\* its way, which the client would take for the answer.
StepAnswered ==
  (client.st = "waiting" /\ client.cmd = "step" /\ NoInterrupt)
     ~> (client.st # "waiting" \/ client.intr)

\* An interrupt ends a continuation, also when it crosses a stop reply or
\* arrives while the server is between commands (gdb.cpp:544-559).
InterruptAnswered == (client.st = "waiting" /\ client.asked) ~> (client.st # "waiting")

\* A client that goes away does not leave a halted simulator behind: it runs
\* on without debugger, or ends.  Not so after an interrupt: the quantum that it
\* overtook may end at a breakpoint and put HALTED over KILLED (gdb.cpp:609).
NeverLeftHanging ==
  (closed /\ NoInterrupt) ~> [](mode = "killed" \/ sim.pc = "ended")
=============================================================================
