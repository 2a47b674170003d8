-------------------------------- MODULE Gdb --------------------------------
(***************************************************************************)
(* The debugger stub: gdb.cpp and rsp.cpp.  Two threads share m_mode        *)
(* without a lock: the simulation thread in gdb::run(), the server thread   *)
(* in gdb::listen().  What the core is, to the stub, is an epoch: the MMUs  *)
(* that are on and what they answer.  A core that executes may come to any; *)
(* an interrupt leaves both MMUs off, and is also taken while the core is   *)
(* halted.  The client sets no watchpoint: a core that stops at one ends    *)
(* the simulation at the assertion in step().                               *)
(***************************************************************************)
EXTENDS Naturals, Sequences, SequencesExt, FiniteSetsExt

CONSTANTS Epochs,      \* states of the core told apart
          DataOn,      \* those with the data MMU active
          InsnOn,      \* those with the instruction MMU active
          DataMap,     \* what the data MMU answers to a page, in each epoch
          InsnMap,     \* what the instruction MMU answers
          ElfMap,      \* frames by the ELF file, the page itself without a section
          Fails,       \* an MMU gives no frame
          PageSize,    \* bytes of a page
          BufferSize,  \* OR1KISS_GDB_RDBUF_SIZE
          NumPages     \* virtual pages the client reads

Pages == 0..(NumPages - 1)

ASSUME GdbAssumption ==
  /\ {PageSize, BufferSize, NumPages} \subseteq Nat \ {0}
  /\ Fails \notin Nat
  /\ {DataMap, InsnMap} \subseteq [Epochs -> [Pages -> Nat \cup {Fails}]]
  /\ ElfMap \in [Pages -> Nat]

VARIABLES mode,   \* m_mode, shared by the two threads
          sim,    \* the simulation thread: place, copied mode, result
          srv,    \* the server thread: place, command, the loop of a memory access
          bp,     \* a breakpoint is set
          epoch,  \* what the core is
          moved,  \* what it was when it last executed
          woken,  \* it has taken an interrupt since, while halted
          here,   \* the next instruction has a breakpoint
          ran,    \* calls of step() that moved the core since it was resumed, up to 2
          dtlb,   \* m_tlb: frames cached for the client, 0 for none
          open,   \* the server has not closed its end of the connection
          closed, \* the client has
          in, out \* the connection, each way

gdbVars == <<mode, sim, srv, bp, epoch, moved, woken, here, ran, dtlb, open, closed, in, out>>

Modes == {"halted", "stepping", "running", "killed"}
Packet(cmd, addr, len) ==
  [t |-> "packet", cmd |-> cmd, addr |-> addr, len |-> len, cut |-> FALSE]
Ack  == [t |-> "ack"]
Intr == [t |-> "intr"]
Msg(t) == [t |-> t]
MemReply(addr, data) == [t |-> "mem", addr |-> addr, data |-> data]

MmusOff == Epochs \ (DataOn \cup InsnOn)

\* translate(): no MMU active, the ELF file; else the data MMU, then the other
\* one.  The sections of the file begin with a page.
Translate(e, page) ==
  IF e \in MmusOff THEN ElfMap[page]
  ELSE IF e \in DataOn /\ DataMap[e][page] # Fails THEN DataMap[e][page]
  ELSE IF e \in InsnOn THEN InsnMap[e][page] ELSE Fails

GdbInit ==
  /\ mode = "halted"
  /\ sim = [pc |-> "top", copied |-> "halted", res |-> "ok"]
  /\ srv = [pc |-> "listen", cmd |-> "none", addr |-> 0, left |-> 0, from |-> 0, data |-> <<>>]
  /\ bp = FALSE
  /\ epoch \in MmusOff /\ moved = epoch /\ woken = FALSE
  /\ here = FALSE /\ ran = 0
  /\ dtlb = [p \in Pages |-> 0]
  /\ open = TRUE /\ closed = FALSE
  /\ in = <<>> /\ out = <<>>

\* rsp::send(): nobody reads it after the client has gone
Sent(m) == out' = IF closed THEN out ELSE Append(out, m)
Alive == sim.pc # "ended"
-----------------------------------------------------------------------------
(* The simulation thread: gdb::step() in the loop of gdb::run(). *)

SimCopy ==
  /\ sim.pc = "top"
  /\ sim' = [sim EXCEPT !.pc = "run", !.copied = mode]
  /\ UNCHANGED <<mode, srv, bp, epoch, moved, woken, here, ran, dtlb, open, closed, in, out>>

\* where the next instruction may be
Spots == IF bp THEN BOOLEAN ELSE {FALSE}

\* step(0) executes nothing but looks at the interrupts, and lets a dozing core
\* see its timer; once it has taken one, IEE and TEE are off
TakesInterrupt ==
  /\ ~woken /\ woken' = TRUE
  /\ epoch' \in MmusOff /\ here' \in Spots
  /\ UNCHANGED <<moved, ran>>

\* executes, sleeps or takes an interrupt; asleep, it does not look at breakpoints
Advances(r) ==
  /\ epoch' \in Epochs /\ moved' = epoch' /\ woken' = FALSE
  /\ here' \in Spots /\ (r = "break" => here')
  /\ ran' = Min({2, ran + 1})

\* resumed at a breakpoint that is still set, the core stops before it has moved
StaysHere == here /\ UNCHANGED <<epoch, moved, woken, here, ran>>

\* m_iss.step(cycles): no cycle when halted, one when stepping, else a quantum
SimRun ==
  /\ sim.pc = "run"
  /\ \E r \in {"ok", "break", "exit"} :
       /\ sim' = [sim EXCEPT !.pc = "report", !.res = r]
       /\ IF sim.copied = "halted"
          THEN r = "ok" /\ (TakesInterrupt \/ UNCHANGED <<epoch, moved, woken, here, ran>>)
          ELSE (r = "break" /\ StaysHere) \/ Advances(r)
  /\ UNCHANGED <<mode, srv, bp, dtlb, open, closed, in, out>>

\* Mutant: the mode as it is now decides.
StopsHereNow == \/ sim.res = "break"
                \/ sim.res = "ok" /\ mode = "stepping"

\* Mutant: only breakpoints stop.
StopsAtBreak == sim.res = "break"

StopsHere == \/ sim.res = "break"
             \/ sim.res = "ok" /\ sim.copied = "stepping"

\* Mutant: a breakpoint is reported without halting.
SimReportKeepsMode ==
  /\ sim.pc = "report"
  /\ mode' = IF sim.copied = "stepping" /\ StopsHere THEN "halted" ELSE mode
  /\ sim' = [sim EXCEPT !.pc =
       IF sim.copied = "killed" THEN (IF sim.res = "ok" THEN "top" ELSE "ended")
       ELSE IF StopsHere \/ sim.res = "exit" THEN "send" ELSE "top"]
  /\ UNCHANGED <<srv, bp, epoch, moved, woken, here, ran, dtlb, open, closed, in, out>>

\* the result decides, together with the mode copied before the step
SimReport ==
  /\ sim.pc = "report"
  /\ mode' = IF sim.copied # "killed" /\ StopsHere THEN "halted" ELSE mode
  /\ sim' = [sim EXCEPT !.pc =
       IF sim.copied = "killed" THEN (IF sim.res = "ok" THEN "top" ELSE "ended")
       ELSE IF StopsHere \/ sim.res = "exit" THEN "send" ELSE "top"]
  /\ UNCHANGED <<srv, bp, epoch, moved, woken, here, ran, dtlb, open, closed, in, out>>

\* send() throws once the server thread has closed the connection
SimSend ==
  /\ sim.pc = "send"
  /\ Sent(Msg(IF sim.res = "exit" THEN "exit" ELSE "stop"))
  /\ sim' = [sim EXCEPT !.pc = IF sim.res = "exit" \/ ~open THEN "ended" ELSE "top"]
  /\ UNCHANGED <<mode, srv, bp, epoch, moved, woken, here, ran, dtlb, open, closed, in>>

Sim == SimCopy \/ SimRun \/ SimReport \/ SimSend
-----------------------------------------------------------------------------
(* The server thread: gdb::listen(). *)

At(pc) == Alive /\ srv.pc = pc
Goes(pc) == srv' = [srv EXCEPT !.pc = pc]

Listen ==
  /\ At("listen")
  /\ Goes(CASE mode = "running" -> "check"
            [] mode = "killed"  -> "gone"
            [] OTHER            -> "commands")
  /\ UNCHANGED <<mode, sim, bp, epoch, moved, woken, here, ran, dtlb, open, closed, in, out>>

\* Mutant: the end of the connection is not looked at.
CheckSignalsOpen ==
  /\ At("check")
  /\ IF in # <<>> /\ Head(in).t = "intr"
     THEN Goes("signal") /\ mode' = "halted" /\ in' = Tail(in)
     ELSE Goes("listen") /\ UNCHANGED <<mode, in>>
  /\ UNCHANGED <<sim, bp, epoch, moved, woken, here, ran, dtlb, open, closed, out>>

\* Mutant: an interrupt is seen but left in the connection, and does not halt.
CheckSignalsPeek ==
  /\ At("check")
  /\ Goes(IF in # <<>> /\ Head(in).t = "intr" THEN "signal" ELSE "listen")
  /\ UNCHANGED <<mode, sim, bp, epoch, moved, woken, here, ran, dtlb, open, closed, in, out>>

\* check_signals(): at most one character, whatever it is.  Of a packet that is
\* the start symbol, which recv() does not ask for; a second one would be the
\* command itself.
CheckSignals ==
  /\ At("check")
  /\ CASE in = <<>> /\ ~closed -> Goes("listen") /\ UNCHANGED <<mode, open, in>>
       [] in = <<>> /\ closed ->
            Goes("listen") /\ mode' = "killed" /\ open' = FALSE /\ UNCHANGED in
       [] in # <<>> /\ Head(in).t = "intr" ->
            Goes("signal") /\ mode' = "halted" /\ in' = Tail(in) /\ UNCHANGED open
       [] in # <<>> /\ Head(in).t = "packet" /\ ~Head(in).cut ->
            Goes("listen") /\ in' = <<[Head(in) EXCEPT !.cut = TRUE]>> \o Tail(in)
                           /\ UNCHANGED <<mode, open>>
       [] OTHER -> Goes("listen") /\ in' = Tail(in) /\ UNCHANGED <<mode, open>>
  /\ UNCHANGED <<sim, bp, epoch, moved, woken, here, ran, dtlb, closed, out>>

\* Mutant: an interrupt halts, and nobody is told.
SignalSilent ==
  /\ At("signal")
  /\ Goes("listen")
  /\ UNCHANGED <<mode, sim, bp, epoch, moved, woken, here, ran, dtlb, open, closed, in, out>>

\* the answer to an interrupt
Signal ==
  /\ At("signal")
  /\ Sent(Msg("stop"))
  /\ Goes("listen")
  /\ UNCHANGED <<mode, sim, bp, epoch, moved, woken, here, ran, dtlb, open, closed, in>>

\* process_commands() is left when the mode is no longer halted
LeaveCommands ==
  /\ At("commands") /\ mode # "halted"
  /\ Goes("listen")
  /\ UNCHANGED <<mode, sim, bp, epoch, moved, woken, here, ran, dtlb, open, closed, in, out>>

FirstPacket == SelectInSeq(in, LAMBDA m : m.t = "packet")

\* rsp::recv(): everything before a packet is dropped, also an interrupt; the
\* packet is acknowledged
Recv ==
  /\ At("commands") /\ mode = "halted" /\ FirstPacket # 0
  /\ LET p == in[FirstPacket]
     IN  srv' = [srv EXCEPT !.pc = "handle", !.cmd = p.cmd, !.addr = p.addr,
                            !.from = p.addr, !.left = p.len, !.data = <<>>]
  /\ in' = SubSeq(in, FirstPacket + 1, Len(in))
  /\ Sent(Ack)
  /\ UNCHANGED <<mode, sim, bp, epoch, moved, woken, here, ran, dtlb, open, closed>>

\* the client has gone while the core is halted: handle_detach(NULL) sends on a
\* closed connection, outside of any handler of exceptions
Lost ==
  /\ At("commands") /\ mode = "halted" /\ FirstPacket = 0 /\ closed
  /\ mode' = "running" /\ open' = FALSE
  /\ sim' = [sim EXCEPT !.pc = "ended"]
  /\ Goes("gone")
  /\ UNCHANGED <<bp, epoch, moved, woken, here, ran, dtlb, closed, in, out>>

NoFrames == [p \in Pages |-> 0]

\* Mutant: a resumption is answered at once, like other commands.
ResumeAnswered ==
  /\ At("handle") /\ srv.cmd \in {"step", "continue"}
  /\ dtlb' = NoFrames
  /\ mode' = IF srv.cmd = "step" THEN "stepping" ELSE "running"
  /\ ran' = 0
  /\ Goes("ok")
  /\ UNCHANGED <<sim, bp, epoch, moved, woken, here, open, closed, in, out>>

\* Mutant: the cached frames stay over a resumption.
ResumeKeepsFrames ==
  /\ At("handle") /\ srv.cmd \in {"step", "continue"}
  /\ mode' = IF srv.cmd = "step" THEN "stepping" ELSE "running"
  /\ ran' = 0
  /\ Goes("commands")
  /\ UNCHANGED <<sim, bp, epoch, moved, woken, here, dtlb, open, closed, in, out>>

\* handle_step() and handle_continue()
Resume ==
  /\ At("handle") /\ srv.cmd \in {"step", "continue"}
  /\ dtlb' = NoFrames
  /\ mode' = IF srv.cmd = "step" THEN "stepping" ELSE "running"
  /\ ran' = 0
  /\ Goes("commands")
  /\ UNCHANGED <<sim, bp, epoch, moved, woken, here, open, closed, in, out>>

Detach ==
  /\ At("handle") /\ srv.cmd = "detach"
  /\ dtlb' = NoFrames /\ mode' = "running"
  /\ Goes("ok")
  /\ UNCHANGED <<sim, bp, epoch, moved, woken, here, ran, open, closed, in, out>>

Kill ==
  /\ At("handle") /\ srv.cmd = "kill"
  /\ mode' = "killed"
  /\ Goes("commands")
  /\ UNCHANGED <<sim, bp, epoch, moved, woken, here, ran, dtlb, open, closed, in, out>>

\* handle_breakpoint_set(), handle_breakpoint_delete(): one breakpoint, at the
\* next instruction or elsewhere
Points ==
  /\ At("handle") /\ srv.cmd \in {"set", "clear"}
  /\ bp' = (srv.cmd = "set")
  /\ here' \in IF srv.cmd = "set" THEN BOOLEAN ELSE {FALSE}
  /\ Goes("ok")
  /\ UNCHANGED <<mode, sim, epoch, moved, woken, ran, dtlb, open, closed, in, out>>

\* registers, queries, threads, and every command refused or unknown: one
\* answer, nothing of the stub changes; the client may set the program counter.
\* It writes no register that the translation of addresses depends on: dtlb would
\* be left as it is.
Simple ==
  /\ At("handle") /\ srv.cmd = "simple"
  /\ here' \in Spots
  /\ Goes("ok")
  /\ UNCHANGED <<mode, sim, bp, epoch, moved, woken, ran, dtlb, open, closed, in, out>>

StartMem ==
  /\ At("handle") /\ srv.cmd = "mem"
  /\ Goes("mem")
  /\ UNCHANGED <<mode, sim, bp, epoch, moved, woken, here, ran, dtlb, open, closed, in, out>>

\* to_phys(): a frame number 0 looks like no entry and is translated again
FrameOf(page) == IF dtlb[page] # 0 THEN dtlb[page] ELSE Translate(epoch, page)

\* one turn of the loop of handle_mem_read() and of the two that write
MemChunk ==
  LET page  == srv.addr \div PageSize
      off   == srv.addr % PageSize
      num   == Min({srv.left, BufferSize, PageSize - off})
      bytes == [i \in 1..num |-> ((FrameOf(page) * PageSize) + off + i) - 1]
  IN  /\ At("mem") /\ srv.left > 0 /\ FrameOf(page) # Fails
      /\ dtlb' = [dtlb EXCEPT ![page] = FrameOf(page)]
      /\ srv' = [srv EXCEPT !.addr = @ + num, !.left = @ - num, !.data = @ \o bytes]
      /\ UNCHANGED <<mode, sim, bp, epoch, moved, woken, here, ran, open, closed, in, out>>

\* the translation or the transaction fails: the handler is left by an exception,
\* and the answer is an error
MemFail ==
  LET page == srv.addr \div PageSize
  IN  /\ At("mem") /\ srv.left > 0
      /\ dtlb' = IF FrameOf(page) = Fails THEN dtlb ELSE [dtlb EXCEPT ![page] = FrameOf(page)]
      /\ srv' = [srv EXCEPT !.pc = "ok", !.left = 0]
      /\ UNCHANGED <<mode, sim, bp, epoch, moved, woken, here, ran, open, closed, in, out>>

\* "ok" stands for every answer without the contents of memory, errors included
Reply ==
  /\ At("ok") \/ (At("mem") /\ srv.left = 0)
  /\ Sent(IF srv.pc = "ok" THEN Msg("ok") ELSE MemReply(srv.from, srv.data))
  /\ srv' = [srv EXCEPT !.pc = "commands", !.cmd = "none", !.addr = 0, !.from = 0,
                        !.data = <<>>]
  /\ UNCHANGED <<mode, sim, bp, epoch, moved, woken, here, ran, dtlb, open, closed, in>>

Srv == \/ Listen \/ CheckSignals \/ Signal \/ LeaveCommands \/ Recv \/ Lost
       \/ Resume \/ Detach \/ Kill \/ Points \/ Simple \/ StartMem \/ MemChunk \/ MemFail
       \/ Reply
=============================================================================
