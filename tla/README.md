# A verification project for or1kiss

or1kiss is an instruction set simulator for the OpenRISC 1000 (C++, about 9500
lines in `src/src` and `src/include`, no tests in the repository). It is a
library: a host - the standalone simulator, a SystemC model, the debugger
stub - gives it a quantum of cycles and provides memory and interrupts through
the class `env`. This directory holds TLA+ modules for its core logic, the
configurations that model-check them and theorems checked by TLAPS.

In this file paths such as `or1k.cpp:44` mean `src/src/or1kiss/or1k.cpp`,
headers are those of `src/include/or1kiss`.

## 1. The system

| component | where | state | operations |
|---|---|---|---|
| step loop | `or1k.cpp` `advance`, `or1k.h` `step`, `run` | `m_cycles`, `m_limit`, `m_instructions`, `m_break_requested`, `m_stop_requested` | run a quantum as a sequence of mini-quanta, report why it ended |
| exceptions and delayed jumps | `or1k.cpp:341-414`, `or1k.h:876` | `m_next_pc`, `m_prev_pc`, `m_jump_target`, `m_jump_insn`, SR, ESR, EPCR | `exception`, `schedule_jump`, `l.rfe` |
| tick timer | `tick.cpp`, `tick.h` | TTMR, TTCR (mode, period, pending, count) | `next_tick`, `update`, the two setters |
| interrupt controller | `or1k.cpp:416-437`, `spr.cpp:417-423` | PICSR, PICMR | raise and lower a line, mask, acknowledge |
| power management | `or1k.cpp:111-131`, `spr.cpp:411-414` | PMR, `m_sleep_cycles` | `doze`, the environment's `sleep` |
| break- and watchpoints | `or1k.cpp:448-487, 727-757` | three lists of addresses | insert, remove, `next_breakpoint` |
| memory port | `env.cpp`, `env.h`, `or1k.cpp:133-233` | request, data cycles, direct memory ranges | `transact`, exclusive accesses |
| special purpose registers | `spr.cpp`, `spr.h` | the registers above and the unit present registers | access rights, read, write |
| MMU | `mmu.cpp`, `mmu.h` | TLB ways with their ages, control register | `translate`, refill, flush, direct TLB access |
| fetch and decode cache | `or1k.cpp:235-319`, `insn.h` | cached instructions, page shortcut | fetch, invalidate |
| execution, decoder, FPU | `execute.cpp`, `decode.cpp` | registers, flags, MAC | one handler for each instruction |
| debugger stub | `gdb.cpp`, `gdb.h` | mode, two threads | commands, stop replies, signals |
| remote serial protocol | `rsp.cpp`, `rsp.h` | socket, acknowledgement mode | send, receive, checksum |
| ELF loader, disassembler, tracing, `main.cpp` | | | sequential utilities |

The components meet in `or1k::advance`. It is called with a quantum. Its outer
loop cuts a *mini-quantum* that ends with the quantum, at the next tick or at
the next breakpoint, whichever is first; the inner loop then executes
instructions without looking at timer, interrupts or breakpoints at all, until
the mini-quantum is used up or somebody sets `m_break_requested`. Afterwards
the loop updates the timer by the cycles that passed, raises a pending
external interrupt and reports a breakpoint or watchpoint. During an
instruction control leaves the loop in two ways: the environment is called
back from `transact` and `sleep` (and may call `interrupt`), and a write to a
special purpose register changes the very state the mini-quantum was cut with.

What is hard here:

* **Batching.** Everything is computed ahead - the distance to the next tick
  and to the next breakpoint - and every way to invalidate such a distance must
  end the mini-quantum: register writes, jumps, exceptions, longer memory
  accesses, sleep.
* **One counter, several meanings.** `m_instructions` is a statistic and the
  clock of delayed jumps; `m_cycles` counts work, sleep and memory cycles and
  is compared with `m_limit`, which the same functions move; SR_DSX and EPCR
  are derived from `m_jump_insn - m_instructions`, whose meaning differs
  between the inside of an instruction and the gap between two.
* **Two kinds of exceptions.** Synchronous ones are raised in the middle of an
  instruction and wait for its end to jump; interrupts are raised between two
  instructions and set the program counter at once.
* **Cached decisions**: decoded instructions, the page shortcut, TLB entries.
* **Two threads** in the debugger stub, and a serial line with retransmission.

The hazards this leaves are listed in `PROJECT.json` with the line where each
bites and the properties that would catch it; 40 of them, 36 covered by the
runs, each of the others with a note why not.

What makes each component correct: the step loop never loses or invents budget,
stops in front of every breakpoint and always returns; exceptions and jumps
implement the two-address pipeline of the architecture; the timer driven in
batches cannot be told from one that counts every cycle; an enabled interrupt is
neither lost nor delayed across an instruction that could see it; a translation
never uses a flushed entry and protects what the entry forbids; an instruction
executed is one its word held since it was last invalidated; an `l.swa` that
reports success has updated the word in one step; decoder, executor and
disassembler mean the same operands; flags and results are what the numbers say;
one resumption gives one stop reply, and the debugger sees memory as the core
maps it.

## 2. Modules

| module | models | lines |
|---|---|---|
| `Tick` | class `tick`: state of the timer as a record, `NextTick`, `Update`, the setters | `tick.cpp`, `tick.h` |
| `EagerTimer` | abstract: a timer that counts every cycle when it passes, and takes each register write in its cycle | |
| `TickTimer` | the way `advance()` drives the timer: mini-quanta, memory cycles, register writes | `or1k.cpp:39-95, 439-446`, `spr.cpp:426-431` |
| `Cpu` | state and member functions of `or1k` that decide what is executed next | `or1k.cpp:71-131, 341-446`, `or1k.h:720, 876`, `env.cpp`, `execute.cpp:883` |
| `Core` | `advance()`, `step()`, the instructions, debugger calls and interrupt lines, as actions over `Cpu` | `or1k.cpp:23-109, 470-487, 711-757` |
| `Arch` | abstract: the pipeline with PC and NPC that a programmer sees | |
| `Paging` | pages, page table entries, requests, access rights | `mmu.cpp:22-30, 204-222`, `mmu.h:27-123` |
| `PageCache` | abstract: a set of mappings that answer until they are flushed or forgotten | |
| `Mmu` | class `mmu`: lines of ways with ages, hits, hardware refill, flushes, register writes | `mmu.cpp:32-250` |
| `InsnMemory` | abstract: memory in which a word shows what it held since it was last invalidated | |
| `Fetch` | `or1k::fetch` with the page shortcut and the decode cache, over `Mmu` | `or1k.cpp:235-319`, `insn.h:88-105` |
| `AtomicOps` | abstract: words that are updated in one step | |
| `Exclusive` | `l.lwa` and `l.swa` of several cores over one memory, with interrupts, handlers, table walks and plain stores | `env.cpp:38-80`, `mmu.cpp:187-209`, `execute.cpp:168-180, 256-268` |
| `Gdb` | the two threads of the debugger stub, its translations and its connection | `gdb.cpp:71-658`, `rsp.cpp:100-203` |
| `DebugSession` | `Gdb` with the client at the other end (external) | |
| `Decode` | `decode()` and the handlers of the decode table, words of full width | `decode.cpp`, `or1k.cpp:567-693` |
| `Listing` | the operands that the disassembler prints | `disasm.cpp:165-427` |
| `Alu` | integer and accumulator instructions as functions, for words of W bits | `execute.cpp:312-859` |
| `Spr` | access rights, `get_spr`, `set_spr` over all registers | `spr.cpp`, `spr.h:138-152` |
| `Insn` | one instruction after the other: compiled by `Decode`, executed with `Alu` and `Spr`, with the exceptions, the data port and the floating point flags | `or1k.cpp:133-233, 290-414`, `execute.cpp`, `or1k.h:774-866` |
| `MCTickTimer`, `MCCore`, `MCMmu`, `MCFetch`, `MCExclusive`, `MCDebug`, `MCInsn` | instances for TLC | |
| `Tick_proofs`, `TickTimer_proofs`, `Core_proofs`, `Mmu_proofs`, `Fetch_proofs`, `Exclusive_proofs`, `Debug_proofs`, `Insn_proofs` | lemmas and theorems | |

`TickTimer` and `Core` both use `Tick`; `Core` uses it through `Cpu`. `Fetch`
extends `Mmu` and passes its requests to it. `Listing` and `Alu` extend
`Decode`, and `Insn` composes them with `Spr`. The timer
has a module of its own because the question "does batching lose ticks?" needs
far more timer programming than the instruction stream of `Core` could afford.

### How state corresponds

Absolute counters would make every state new. All of them are read only as
differences, so the modules keep the differences:

| here | in the code |
|---|---|
| `jd` | `m_jump_insn - m_instructions`; 1 a jump awaits its delay slot, 0 it is due, -2 every value below -1 |
| `lag` | `m_cycles - m_tick_update` |
| `ran`, `lim`, `slept` | `m_cycles`, `m_limit`, `m_sleep_cycles` since `advance()` was entered |
| `room` (`left` in `TickTimer`) | `limit - m_cycles` in the inner loop, 0 once passed |
| `tick` | TTMR and TTCR: `mode`, `ie`, `ip`, period `tp`, count |
| `cycles` in `TickTimer` | `m_cycles`, modulo `CycleMod` |
| `op` in `TickTimer` | what the last instruction wrote to TTMR or TTCR, if it wrote one |
| `ctl` | where `advance()` is: not running, at the outer loop's head, inside a mini-quantum |

`cycles` and `op` are what an observer sees of the core, and what `TickTimer` and
`EagerTimer` share: a step of the eager timer needs the clock to move by one and,
for a register write, the same write with the same value in that cycle. A batch
that lost a cycle or a write could not be explained. The timer itself is compared
through `CountedTimer`: what the register holds, and the cycles since.

A member function of `or1k` is an operator from record to record in `Cpu`, so
that `exception()` called twice by one instruction is the operator applied twice.
One action of `Core` is one instruction with all its calls and the tail of the
inner loop (program counter, jump, recomputed limit), or one of the loop's own
steps: entering `advance()` (with its interrupt check and `doze()`), cutting a
mini-quantum, ending it, returning. Interrupt lines move between any two actions.
Whatever the callbacks of the environment do in the middle of an instruction is
seen by the code no earlier than the end of the mini-quantum, so this loses
nothing except in `doze()`, where `sleep()` precedes the check.

The program is chaotic: any instruction of `Ops` may be found at any address,
which over-approximates memory contents and the decode cache. Arithmetic
instructions are one action `Alu`; those that raise exceptions appear once for
each exception. A taken branch and a branch that is not taken are `Jump` and
`Alu`.

`-2` in `jd` stands for all values from -2 down; this is exact as long as an
interrupt that cancels a jump finds at least two instructions executed, since
cancelling sets `m_jump_insn` to 0. `CntReset` (`l.nop 0x5`) resets
`m_instructions`, after which the distance is `m_jump_insn` itself: its possible
values are the constant `JumpInsns`.

The two MMUs are instances of one class, so `Mmu` is written once; `Fetch` uses it
for instructions, the run `mmu` for data. A word of flags is the set of its bit
positions, so that the sharing of positions in `mmu.h` (execution rights lie
where rights of user mode lie) is kept. A page table entry of zero, a directory
entry of zero, a missing directory and a bus error during the walk all come to
"no entry", which a walk may yield at any time while the bus may fail. `request`
and `answer` record the last call and the last result; they steer nothing. The
cache attributes that a hit copies into the request, the cycles of a walk and
plain reads of the registers (`get_tlb`) are left out.

In `Fetch` an address is a page and a word in it. The topmost page of the address
space is not among the pages: `m_virt_ipg` starts as all ones, so there the
shortcut is taken before anything was translated, and the same value is the tag
of an invalid cache line. SPR_ICBIR takes an address as it is, physical and
word-aligned; the model's `Invalidate` ranges over words. The debugger's requests to the
instruction MMU are left to `Mmu`, where they are shown to change nothing.

`Exclusive` keeps of an `env` the two members `m_excl_addr` and `m_excl_data`, of
a core whether its task or an interrupt handler runs and where each of the two is
in its sequence `l.lwa`, update, `l.swa`, branch. The sequence is what software
does and external; each `Lwa` and `Swa` is atomic because `env` decides an `l.swa`
by one compare-and-swap of the host. An `l.swa` whose page has left the TLB walks
the page table with the exclusive flag still set and so moves the reservation to
the page table entry (`Walk`); since an `l.lwa` reads after its walk, only the
walk of an `l.swa` matters. The code around the sequence obeys two rules that the
compare-and-swap needs (`WordsAssumption`): a handler does not link the words of
the code it may have interrupted, and nobody links page table entries.

`Gdb` has the two loops as they are, `gdb::step` cut where it reads and writes
`m_mode`: the mode is copied (`SimCopy`), the core runs with that copy (`SimRun`),
the result is reported with a store to `m_mode` (`SimReport`) and then a packet
(`SimSend`). The connection is two sequences of messages; one packet is one
message, of which `check_signals()` may take the first character (`cut`). What
the core is, to the stub, is an *epoch*: which MMUs are active and what they answer
to each page. `Translate` asks as `gdb::translate` does: with both MMUs off the
ELF file, whose sections are taken to begin at a page; else the data MMU, and if
it gives no frame the instruction MMU; and if that fails too the command is
answered with an error (`MemFail`), as it is when the bus refuses. A core that
executes may come to any epoch. A halted one is called with no cycles, executes
nothing and still looks at its interrupts (`or1k.cpp:30-37`): it may take one,
once, since that clears IEE and TEE and switches both MMUs off (`TakesInterrupt`,
`woken`). `moved` is the epoch in which it last executed. A core resumed at a
breakpoint that is still set stops there without having moved (`StaysHere`, `here`).
A client that follows the protocol is part of the system (`DebugSession`); it sends
commands one at a time.

In `Insn` a step is two actions: `Compile...` chooses a word and finds its
operands, one of the `Exec...` actions is the handler. The programs of a behaviour
stay within one unit (integer, accumulator, memory, registers, floating point),
because the state of the other units does not interact with theirs; all of them
share the status register and `exception()`. Words have all 32 bits: the six bits
of the major opcode and the fields of registers and immediates. Data have W
bits, a halfword W/2 and a byte W/4. `epc` keeps what EPCR is relative to the
instruction (`here`, `prev`, `next`), which is what `or1k.cpp:351-386` decides for an
exception inside an instruction. `x`, `y`, `d` are the values of the operands: what
software keeps in its registers is external. `mac` is `m_mac`, `acc` the exact sum
it stands for, `kept` what was last written to each register, `fp.raised` what
the operation raised; these three history variables steer nothing. A
special purpose register is a value of two bits, whose meaning is that of the
register: SM and SUMRA for the status, the flush request for an MMU's control
register, the valid bit and the page for an entry of a TLB. A write of the status
replaces all of it. Registers that the code treats alike (the ways of a TLB, the
shadow registers) are one. PMR, TTMR and TTCR, of which a write does more than keep
a value, are in `Core` and `TickTimer` alone.

## 3. Runs

Passing runs, each with the question it answers:

* **tick_exact** - is a batched timer indistinguishable from one that counts
  each cycle? (`ImplementsEager`: refinement of `EagerTimer`, cycle by cycle and
  write by write.) Yes for restart and one-shot timers, one-cycle instructions, and
  register writes as the first instruction of a mini-quantum or such as keep mode
  and period (an acknowledgement). Count modulo 8, periods and quanta that make
  the count reach, miss and wrap around the period.
* **tick_memory** - the same with stores of the timer registers anywhere and
  with memory accesses of extra cycles. No tick falls due while instructions of
  the mini-quantum remain (`NoTickInside`, `MiniFits`), a match in the overshoot
  is delivered at the end of the batch (`EveryMatchRaisesTick`), a restart timer
  keeps ticking (`RestartTicks`, liveness).
* **core_program** - does the core implement the order of execution of `Arch`
  (`ImplementsArch`), does `advance()` return (`AdvanceReturns`), and is an
  interrupt that stays pending and enabled taken (`InterruptTaken`)? Three words
  of memory, jumps to an aligned and a misaligned target, every class of fault in
  and out of delay slots, timer and external interrupts, nested handlers, `l.rfe`
  in both privilege levels, the tick enabled in user mode alone, a line that cannot
  be masked (`core_host` has masks); loads and stores that cost cycles, a
  breakpoint on the vector of interrupts, quanta 0 and 2.
* **core_host** - is the accounting between host and core sound
  (`BudgetSound`), is no enabled tick carried on (`TickNeverCarried`), and are
  breakpoints always reported first (`BreakpointNeverSkipped`)? With data cycles,
  `sleep()`, doze, watchpoints, exit requests, timer writes, and a breakpoint on
  an exception vector that is also reached in line, past a wrap of the address
  space, by jumps, returns and writes to SPR_NPC. The host stops at `STEP_EXIT`
  as those in `src/` do, so the run allows the system to stop.
* **mmu** - is the TLB a page cache (`ImplementsPageCache`), whatever software
  writes to its page table and its ways, also when it enters a page twice; and
  does a request that was just granted hit when it is repeated, as it is when
  the instruction restarts (`GrantedRepeats`)? Three pages, two ways, page
  tables that change, the debugger translating in between.
* **fetch** - is the instruction executed one that its word held since it was
  last invalidated (`ImplementsInsnMemory`), is no illegal word ever cached
  (`FetchTypeOK`), and is a cache line without a handler found only for a word
  the host was told of (`HalfLineReported`)? Two cache lines for three words,
  invalidation of two words at once, stores by anyone, illegal words, words
  without a decoder and bus errors, with and without translation, the status
  register changing in between. A word without a decoder (`l.cust2` to `l.cust8`,
  `lf.cust1`) throws after its line was tagged: `main` ends the program on that, but
  a host that catches the error and steps on executes a null pointer the next
  time the word is fetched.
* **exclusive** - is a successful sequence an atomic update (`ImplementsAtomic`),
  and does every sequence end once nothing interferes (`SequencesEnd`)? Two
  cores, one word for tasks, one for handlers, one page table entry, values modulo
  2 that come back (ABA), at most `MaxEvents` new sequences, interrupts and
  plain stores.
* **debug** - with the two threads at any interleaving and any client: is there
  one answer for each command (`OneAnswerEach`), is a core that was reported as
  stopped really stopped (`StoppedMeansStopped`), did it move before the report,
  unless resumed at a breakpoint still set, and not twice for a step
  (`StopAfterProgress`), does a read deliver the bytes the core would see, now or,
  when it took an interrupt while halted, when it last executed (`MemReplyExact`)? Is a step answered
  (`StepAnswered`), does an interrupt end a continuation (`InterruptAnswered`),
  and does a client that goes away leave no halted simulator behind
  (`NeverLeftHanging`)? Most of these hold only as long as the client sends no
  interrupt (see below), and say so. Pages of three bytes and a buffer of two, so
  that a read of four crosses both boundaries.
* **insns** - do decoder and handlers agree on the operands (`OperandsUsable`),
  does the disassembler print them (`ListingTruthful`), are results and flags
  those of the numbers (`ArithmeticExact`), is the accumulator the sum
  (`MacIsSum`), does an exception save what it should (`SavedStateExact`), is a
  request what the instruction asked for (`AccessExact`), does user code stay
  where it is (`UserConfined`), are the registers a memory (`RegistersKeep`), do
  the floating point flags tell of the operation (`FpFlagsTell`)? Every opcode and
  every undefined one with fields at their ends; W = 4 with operands at both
  ends of the signed and unsigned range; in and out of a delay slot, exceptions enabled and not.

Runs that show a disagreement between the code and what it says of itself; each
finding is quoted in `PROJECT.json`:

* **core_pmr** - a write to SPR_PMR raises the tick exception inside the
  instruction; the handler's first word is skipped (`or1k.cpp:129`).
* **mmu_oldest** - ageing wraps an entry of age 3 to age 0, "most recently used",
  so a refill may replace the page used last (`mmu.cpp:137`).
* **fetch_remap** - the page shortcut answers with a frame that the MMU no longer
  gives (`ShortcutAgrees`, `or1k.cpp:245`): the page was moved in the page table
  and flushed from the TLB by code that is not translated, and the core returns to
  it.

Met while modelling and not given a run, in the step loop, the timer and the
MMU:

* in continuous mode the count wraps past the period, and a batch that ends
  exactly on it raises no tick (`tick.cpp:61` against `or1k.cpp:92-94`);
* a system call in a delay slot resumes behind the slot and loses the jump:
  `is_jump_insn` never holds for a synchronous exception (`or1k.cpp:373-374`);
* a fetch on the current page is answered without the MMU (`or1k.cpp:243-245`)
  also when the mode has changed and the page is not executable in the new one
  (`fetch_remap` is about the frame alone);
* `sleep()` adds cycles without `update_timer()` (`or1k.cpp:120`): the next
  mini-quantum is cut with a stale `next_tick()`, and a tick falls due inside it,
  against the comment at `or1k.cpp:92-94`;
* `l.nop 0x5` zeroes `m_instructions` (`execute.cpp:64`): a core that took no jump
  since reset or since its last interrupt has `m_jump_insn` 0 and jumps to a
  stale target;
* memory and sleep cycles are credited to `m_limit`, so `step()` reports fewer
  cycles than `m_cycles` advanced (`or1k.cpp:716` against 712-714);
* the request of a page table walk is a copy of the original (`mmu.cpp:192`) and
  keeps its exclusive flag: the walk for an `l.lwa` makes a reservation of the
  page table entry;
* `mmu.h:107-112` gives execution rights the positions of rights of user mode; an
  executable page refilled by a fetch becomes readable and writable in user mode
  in the instruction TLB, which only ever asks for execution; the entries that
  software writes are checked with the same positions;
* a timer register written in the middle of a mini-quantum charges the cycles
  since the last update to the new setting (`spr.cpp:427`); `tick_exact`
  excludes such writes, `tick_memory` includes them for weaker properties; a read of
  TTCR there does not see those cycles (`spr.cpp:259-262`);
* SR_DSX is set for an exception that follows a delay slot's jump and never
  cleared (`or1k.cpp:349, 392`); the comments at 33-37 and 365 disagree on what
  the counters mean there, and `Arch` leaves SR_DSX out;
* direct memory cycles are added in `env.h:272` and again in `env.cpp:74`;
* with a misaligned EVBAR `exception()` and `schedule_jump()` call each other
  without end (`or1k.cpp:402`); the models take vectors to be aligned;
* `reset_cycles()` leaves `m_tick_update` and `m_limit` as they are (`or1k.h:658`);
* `doze()` decides from PMR only (`or1k.cpp:113`): an interrupt already pending
  at the `l.mtspr` does not keep the core awake until the next loop of
  `advance()`, though `or1k.h:732` says an interrupt wakes it;
* a breakpoint at an unaligned address has distance 0 before the program counter
  passes it (`or1k.cpp:473`), the mini-quantum is empty and `advance()` does not
  return; the runs place breakpoints at instructions;
* `l.nop 0x1` takes `m_instructions` back by one (`execute.cpp:49`): a host that
  went on after `STEP_EXIT` would see the jump of the last delay slot twice.

In the instructions; the properties of `insns` exempt these cases by name:

* `l.addc` compares the result with one operand after the carry was added: with
  an operand of all ones and carry in, the carry out is lost (`execute.cpp:398`,
  `CarryMissed`); `l.ror` shifts left by 31 - n instead of 32 - n (546);
  `INT_MIN / -1` traps on the host (`HostTraps`); a plain `l.add` raises a range
  exception for overflow only, `l.addc` and `l.sub` for carry as well;
* an instruction that raises two exceptions - carry and overflow, or two floating
  point flags, such as overflow, which also gives infinity - saves the status of
  the handler in ESR and the address of the previous instruction in EPCR; one
  raised for carry saves a status without the overflow found later
  (`execute.cpp:404, 421`, `or1k.h:774-866`, `RaisedOnce`). A range exception comes
  after the register was written, so an instruction whose destination is a
  source cannot be repeated;
* nothing clears the exception flags of the host, so OV, UNF and DZF, once
  raised, are reported by every later operation, with an exception each time
  when FPEE is set (`or1k.h:799-819`); an EX_FP in a delay slot resumes behind the slot;
* `l.macrc` takes nine bits as its register number (`decode.cpp:1245`); a pair of
  registers of a double precision operation may reach past `gpr[31]`; `lf.itof`
  converts its operand as unsigned; `lf.madd.s` adds its two operands and
  `lf.madd.d` subtracts them, neither multiplies, and no register shows the result;
* illegal accesses of special purpose registers give 0 or nothing and a warning,
  no exception; `l.rfe` in user mode jumps to address 0 and keeps SR; writes of
  DMMUPR, IMMUPR, DCCR and ICCR are granted and ignored;
* the disassembler prints no operands for `l.lwa`, `l.swa` and the accumulator,
  prints a register that `l.muld` does not write and the signed immediate of
  `l.muli` as unsigned; `decode_cache::is_enabled()` returns whether it is off.

In the debugger stub; the properties of `debug` hold without interrupts or say
what remains with them:

* an interrupt that crosses a stop gives two stop replies (`gdb.cpp:555, 609`),
  and a quantum that ends at a breakpoint after the connection was closed writes
  HALTED over KILLED (609): the simulation then stands still with no server;
* a client that closes the connection while the core is halted makes `send()` throw outside of any `try` (`gdb.cpp:166-167`), which
  ends the process;
* a watchpoint reaches `assert(0)` (620-621), and without assertions the hit is
  lost; the client of the model sets none;
* a packet with a wrong checksum is refused and executed nevertheless
  (`rsp.cpp:159-163`), so that its retransmission executes it twice;
* a halted core takes interrupts: the frames kept in `m_tlb` are then those of
  the mapping before, those found later those of the handler's, and one reply may
  have both (`gdb.cpp:600-603`);
* a core resumed at a breakpoint that is still set reports it again without having
  executed anything (`or1k.cpp:44-49, 102-103`): a client has to remove it first;
* the translations kept in `m_tlb` survive a write to SR or the MMU by the client
  itself, and frame 0 is translated each time (`gdb.cpp:121-131`); the conversion of
  a number reverses its digits (`utils.h:64-66`), and a write in several pieces
  advances its data by one character (`gdb.cpp:404`); removing one watchpoint removes all that overlap.

### Bounds

Addresses are taken modulo 12 or 16 (three or four words), the count modulo 4 or
8: enough for two vectors, a jump with its slot and a wrap around. Wrap-around is
kept, never cut. Quanta are 0 to 3 cycles, longer than a jump with its slot and
longer than the shortest period. Status registers are restricted to the
combinations named in `MCCore`; each run offers the instructions its question is
about. Nothing in `Core` grows without bound, since its counters are reset on
entry and the loop ends at the quantum, so no state constraint is used. One interrupt
line suffices because the code treats the lines alike except for the
non-maskable ones, which `core_program` has.

`mmu` has one set, since a set is chosen by the page alone and sets do not meet
(the theorems are for every number of sets), and ages modulo 2, so that ages
wrap often; the code's two bits are in `mmu_oldest`, which needs them. `fetch`
has one word for each page and pages whose entries have the same rights, so that
nothing but the frame distinguishes them; single pages are flushed, but the TLB is
neither flushed as a whole nor written directly; the theorem of `Fetch_proofs`
covers that for the instruction executed.

`exclusive` counts new sequences, interrupts and plain stores up to `MaxEvents`:
retries are not counted, so the liveness property is about real loops.
`MaxEvents` allows a sequence on each core with an interrupt and a store in
between. Two cores suffice since a core meets the others only through the word;
the theorems are for any number.

`debug` has three epochs: both MMUs off, where the first page is itself, frame 0, which
looks like no frame, and the second is in a section of the ELF file; and two
with both on, in which the data MMU knows the first page, by different frames, and
the instruction MMU the second in one and not in the other. So a stale frame, the
fall from one MMU to the other, and a failure after a chunk that succeeded all
occur. The counter `ran` (up to 2) is cut in the actions. A client interrupts at
most once.

`insns` has words of 4 bits for data: a byte is one bit, a halfword two, and
the signs, carries and shifts of the code all occur. `MaxTerms` bounds the
products in the accumulator, `MaxChanged` the registers that differ from
their reset value, so that two registers may disturb each other; what is written is
0 or 3, all bits of a value clear or set. Register fields
and immediates range over their ends and a value with the sign bit alone.

### Fairness

`FairSpec` of `Core` assumes WF of `Running` - once entered, `advance()` is a
sequential function that goes on - and WF of `Call`, because the hosts call
`step()` in a loop. Nothing is assumed of the debugger, of the interrupt lines
or of which instruction comes next. The timer's `FairSpec` assumes that the loop
goes on (WF of `Next`). In `Exclusive` each core goes on with a sequence it has
begun (WF of `Step`), because a host schedules its threads; new sequences,
interrupts and stores are free. In `DebugSession` both threads go on (they are
loops of the host's threads) and the client reads its replies; what it asks, and
whether it stays, is free. `Insn` has no liveness: it is a loop of `advance()`.

## 4. Theorems

TLAPS proves for every value of the constants, under the assumptions named with
each; those of the timer and the core are `CountModAssumption`, `CpuAssumption`
(vectors and reset address aligned, the address space a multiple of the word
size) and `CoreAssumption` (the inputs are of the right types):

* `TickTimer_proofs`: `TypeCorrect`; `MiniFitsHolds` and `NoTickInsideHolds`
  (no tick falls due inside a mini-quantum, in every mode); with the count kept
  from passing the period, `EveryMatchRaisesTickHolds`; with one-cycle
  instructions and disciplined writes, `BatchesImplementEager`, the refinement
  of the eager timer: every instruction maps to the cycle with the same write and
  the same clock, every other step of the loop to a stutter. The side conditions are hypotheses of these two theorems because
  the code does not meet them otherwise (section 3).
* `Core_proofs`: `TypeCorrect`, `BudgetSoundHolds`,
  `BreakpointNeverSkippedHolds`, `TickNeverCarriedHolds`, for every instruction
  mix, every set of breakpoints and every quantum. `ImplementsArchHolds`, the
  refinement of `Arch`, for a program that is `Disciplined`: it does not write
  SPR_NPC, SPR_PMR or the instruction counter and does not exit, an arithmetic
  instruction raises at most one exception, delay slots hold no jump, `l.rfe` or
  what raises a resuming exception, and EPCR is given aligned addresses. Each of
  these is needed: section 3 tells what the code does otherwise, and
  `core_program` runs such a program.
* `Mmu_proofs`: `TypeCorrect`; `MmuImplementsPageCache`, the refinement of the
  page cache for every number of sets, ways and ages; `GrantedRepeatsHolds`, the
  action property; under `PagingAssumption` and `MmuAssumption` (non-empty
  geometry, writes of the right types).
* `Fetch_proofs`: `FetchTypeCorrect`, `HalfLineReportedHolds` and
  `FetchImplementsInsnMemory`, under `FetchAssumption` (the MMU serves fetches in
  both modes, every page fits memory when it is not translated).

* `Exclusive_proofs`: `TypingAndLinks` and `AtomicRefinement`, the refinement of
  `AtomicOps` for any number of cores, words and values, under `WordsAssumption`.
* `Debug_proofs`: `SessionInvariant`, the inductive invariant, and from it
  `OneAnswerEachHolds`, `StoppedMeansStoppedHolds`, `StopAfterProgressHolds` and
  `MemReplyExactHolds`; `QueuesInvariant`, inductive with interrupts too, and from
  it `DebugTypeCorrect`: all the safety properties of the run `debug`, for every number of pages and bytes in a page or the
  buffer, every set of epochs and what the MMUs answer in them, every ELF file and
  every set of reads, under `GdbAssumption` (the numbers are positive, a frame is a
  number) and `ReadsAssumption` (a client reads what is in the address space).
* `Insn_proofs`: `SpecInvariant`, the inductive invariant, and from it
  `InsnTypeCorrect`, `OperandsUsableHolds`, `ListingTruthfulHolds`, `MacIsSumHolds`,
  `SavedStateExactHolds`, `AccessExactHolds`, `UserConfinedHolds`,
  `RegistersKeepHolds`, `FpFlagsTellHolds` and `ArithmeticExactHolds`, all the
  properties of the run `insns`, for every 32-bit instruction word, every width of the
  data that is a multiple of four, every value of the operands and every setup, under
  `WidthAssumption` and `InsnAssumption` (types of the inputs) and
  `PowerAssumption`, the law 2^(m + n) = 2^m * 2^n, which holds of every width but
  which the provers know nothing of.

The argument for the core: the inductive invariant is

    IInv == TypeOK /\ BudgetInv /\ BreakInv /\ TickInv

`BudgetInv` adds to `BudgetSound` that a mini-quantum never exceeds what is left
of the quantum (`room <= lim - ran`), without which a step of the inner loop
could pass the limit. `BreakInv` says that in a mini-quantum nobody has asked to
break, `room` is at most the distance to *every* breakpoint; it is preserved in
line because the distance falls by one for each instruction and `room` by at
least one (`DistanceInLine`, modular arithmetic over an arbitrary address
space), by a jump because `Completes` cuts `room` again, and by everything that
moves the program counter otherwise because it breaks the quantum. From it,
`room > 0` with the program counter at a breakpoint contradicts distance 0.
`TickInv` adds that no stop is requested while the loop runs. One lemma for
each instruction (`...Outcome`) shows what it may do to the
counters, a single lemma (`CompletesIInv`) that the end of any such instruction
keeps the invariant. TLC has checked `IInv` on the three core instances.

For the timer the inductive invariant is `MiniFits` with the type: what has been
spent since the last update plus what is left of the mini-quantum reaches no
further than the next match.

For the TLB the type is the invariant; what carries the refinement is the set
`Reachable` of mappings in valid ways in the set of their page. Ageing and marks
leave it as it is (`Alike`, `AlikeReach`), a refill or a register write changes
one way and so adds at most one mapping, and what a line matches is exactly what
is known of a page (`KnownIs`). That an oldest way exists rests on every finite
range of numbers having a greatest element (`HasGreatest`).

For the fetch path `Visible` maps each word to what memory and a cache line with
its tag hold. A fill changes a single line, evicting at most another word, which
then shows memory alone (`LookupYields`); invalidation leaves no line with a tag
of its block (`InvalidateSynchronises`). A line without a handler is left by one step
only, which reports the word (`refused`); every fill of the line afterwards
replaces both. That the translated address is a word of
memory comes from the type invariant of the MMU.

For the exclusive accesses the inductive invariant relates three places: a level
that has linked and not yet stored works on a word of its own level, and if the
reservation of its core is for that word, the reservation holds the value that
the level has read. A handler may take the reservation away but not put back one
for the task's word, which is what `WordsAssumption` is for. A compare-and-swap
that succeeds then compares memory with the value that was read, so it is the
step `Perform` of `AtomicOps`.

For the refinement of `Arch` the invariant is `IInv` with `Flow`: the distance to
the last jump is one of -2, -1, 0, 1, nobody dozes, and every address the core
may go to is that of an instruction. Under it an instruction that neither jumps
nor raises is `Moves` of `Arch` (`SpentMoves`), and each other instruction, each
exception inside an instruction and each interrupt between two maps to the action
of `Arch` of that name; the steps of the loop around the instructions stutter.

For the debugger the inductive invariant is a diagram: as long as there is no
interrupt and the connection is open, a session is in one of the phases that
`Phases` lists - at rest, a command on its way, handled, answered; let go by
`detach`; resumed, stopping, told; ended - and each phase says what the two
threads, the mode and its copy, both queues, the cached translations and the
client may be in it at the same time. One lemma for each phase and thread shows where
its steps lead. The properties follow from the phases. `StoppedMeansStopped`
needs more than the mode, since the simulation thread acts on its copy: in every
phase in which the client believes that the core stands, `Calm` says that the
copy is that of a halted core or has not been taken since. `MemReplyExact` needs
`Fresh`, that a kept translation is none, that of now or that of when the core last
executed - an interrupt taken while halted can put the two apart, but only once -,
which holds because each resumption discards them, and counts the bytes across pages
and buffers (`Reading`).

After an interrupt the phases no longer hold: a stop reply may cross it, and the
client takes one answer for another. What still holds is `Queues`, which counts.
`Few`: packets and interrupts in transit, answers in transit and answers that the
two threads are still to send (`InHand`) are together no more than one for what the
client waits for, one for its interrupt, and one more when it detaches, since the
program may end on its way. `InOrder` and `OutOrder`: from any place of a queue on
there are hardly more acknowledgements than what they belong to. `Once`: a program
ends once. From these neither queue can hold more than six messages
(`DebugTypeCorrect`), although nothing in the code limits them. Counting is by the
cardinality of the places in a queue (`Count`), with lemmas for a message appended,
taken or read over (`CountAppend`, `CountRest`, `CountNext`). TLC has checked
`Queues` on the instance of `debug`.

For the instructions the inductive invariant is

    InsnInv == types /\ Compiles /\ Ready /\ Accumulated /\ Kept /\ Beside

`Compiles` says that a compiled instruction is that of its word and that the word
has a handler; the decoder is then followed through its tables (`KnownWord`) and
each of its handlers (`UsableWord`), and what the handler sets is compared with what
the function it chose dereferences. `Accumulated` keeps the two words of the
accumulator congruent to the exact sum modulo 2^2W: sums reduce
(`SumReduced`), the two words are the number split (`TwoWords`), and a product of
two words is not cut (`ProductFits`). `Ready` says that a step begins without a
pending exception, from which `EffectsFields` derives that two checks in a row
raise at most one unless both hit. `Kept` ties each readable register to the
value last written, less the flush request of an MMU: every write has a place of
its own (`OwnPlace`), but for the entries that a flush clears (`MmuWrite`). What a load
leaves in the register, the bits above it being those of the old value until they
are cut or extended, is arithmetic on residues (`LoadedExactly`). TLC has checked
`InsnInv` on the instance of `insns`.

`ArithmeticExactHolds` needs nothing of the invariant but the types; its argument is
about numbers. A flag ends up set exactly if a check that sets it hits, or if it was
set and is not cleared (`EffectsFlags`), whether or not an exception came in between.
The wrapped sum or difference is the exact one or a turn away (`Wraps`), and the three
signs say which (`SumFlags`, `DifferenceFlags`); the carry of `l.addc` is missed in the
one case that `CarryMissed` names, and in no other. Division follows from that of the
magnitudes (`Divides`), and stays in range because the quotient the host traps on is
excluded. A bit is a digit of the number (`BitOf`, `Digits`), which a multiple of a higher
power leaves alone (`BitBelow`); from that follow shifts and extensions (`ShiftedLeft`,
`ShiftedRight`, `SignExtends`). That every set of bits is that of a word (`WordOf`),
and that nothing is left of a number below its lowest one or above its highest
(`ClearBelow`, `ClearAbove`), are inductions over positions, done by the least
counterexample (`HasLeast`).

`InsnTypeCorrect` needs a second invariant beside `InsnInv`, `Values`: an operand, the
result and every register hold a word, and the accumulator no more products than
`MaxTerms`. That a result is a word is one case for each function (`IntegerWord`),
and what remains of it after an exception or a load too (`WrittenType`, `ReadWord`).

`ListingTruthfulHolds` compares the two ways in which the code reads a word. `Compiles`
says that the instruction is what the handler of its family makes of the word;
`Listings` says what the disassembler prints of each family. The immediates agree,
whether they are cut from the word or sign extended twice (`ImmediatesAgree`), and a
list names the same registers wherever the immediate stands in it (`SameOrder`,
`SameAround`). There is one lemma for each group of families (`TruthfulMove` to
`TruthfulImmediate`), and `Excepted` for those that print nothing.

Only model-checked: the liveness properties (`RestartTicks`, `AdvanceReturns`,
`InterruptTaken`, `SequencesEnd`, `StepAnswered`, `InterruptAnswered`,
`NeverLeftHanging`), which rest on fairness and ENABLED and are out of the
prover's reach.

## 5. Not modelled

* **ELF loader** (`elf.cpp`): reads a file once, in order, before the simulation
  starts. Later uses are a lookup of names for the trace, and the debugger's mapping
  of addresses when no MMU is active (`gdb.cpp:75`), which is the constant `ElfMap`
  of `Gdb`.
* **Standalone simulator** (`main.cpp`, `memory.cpp`): options, and a flat memory
  that answers at once; `main` is a host as `Core` assumes hosts.
* **Tracing and layout of the disassembly** (`tracing.cpp`, mnemonics in
  `disasm.cpp`): text without effect on the simulation.
* **Values of floating point operations**: the host's arithmetic. Their flags and
  exceptions are in `Insn`.
* **Byte order and ports without direct memory** (`env.cpp:58-69, 81-94`): the
  conversion swaps bytes twice; a host's own `transact` must decide exclusive
  accesses itself, since the code only hands it the flag.
* **The checksum and the packet buffer of `rsp.cpp`**, the contents of registers in
  the debugger's replies, its monitor commands, watchpoints set by the debugger.
* **Sample software and build files** (`src/sw`): benchmarks that run on the
  simulator.

Contents of memory and general purpose registers do not appear in `Core`, `Mmu`
and `Fetch`, where any instruction may come next; `Insn` has the values but no
program counter.

## 6. Plan

What is left, in the order of worth:

1. `Rsp`: characters instead of packets, with a line that damages and repeats them.
2. The host of several cores: `advance()` of each in turn, over `Exclusive`.
