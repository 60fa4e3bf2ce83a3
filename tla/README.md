# A TLA+ model of the MIPS CPU and the software on it

The repository holds a five-stage MIPS pipeline in Verilog
(`src/2020/func_test_v0.01/soc_sram_func/rtl/myCPU`, top `mycpu_top`), the small
system on chip it runs in, the functional test programs, the test bench that
compares the CPU with a reference trace, a memory game with its C library
(`soft/memory_game`), and an older single-cycle design that nothing instantiates
any more. This directory models the CPU and that comparison, the timer and
the keyboard of the system on chip, the game, and the C library. TLC checks them on small
instances; TLAPS proves, for every size, word width, program and order of calls, that the
pipeline, up to the first exception, keeps in step with a machine that executes one instruction at a time, and the safety of its
holds, the timer and the delays on it, the keyboard and the game, the allocator, the interrupt table, the
cache calls and the streams.

File names of Verilog without a path are in `rtl/myCPU`, those of C in
`soft/memory_game/lib`; the line numbers of every definition are in `PROJECT.json`
under `map`.

## The system

| component | state it keeps | operations | talks to |
|---|---|---|---|
| pipeline: `datapath.v`, `pc.v`, `npc.v`, `if_id.v`, `id_ex.v`, `ex_mem.v`, `mem_wb.v`, `regfile.v`, `HILO_regfile.v` | PC and the PC before it, four stage registers, 32 registers, HI, LO | one clock edge: advance, hold for a load, take an exception | the two synchronous RAMs; a debug port that shows each register write |
| decoding and control: `decode.v`, `decode_ctrl.v`, `exe_ctrl.v`, `mem_ctrl.v`, `wb_ctrl.v` | none | name of an instruction; per stage, what the name asks for | all stages; `exe_ctrl` and `mem_ctrl` see the flush mask, one of the two `wb_ctrl` does not |
| hazards: `hazard_detection_unit.v`, `forwarding_unit.v` | the word held in ID (`test_instruction`) | hold ID and PC; pick EX, MEM, WB or the register file for an operand | decode, EX, MEM, WB |
| exceptions: `exception.v`, `CP0.v` | flush mask `pipe_stall_info`; BadVAddr, Count, Status, Cause, EPC | choose the fault, its pc and mask; mtc0, mfc0, eret; software interrupt | npc, every stage |
| arithmetic: `alu.v`, `multiply.v`, `signext.v` and the byte lanes in `datapath.v` | the ALU result latch | the `aluOp`s, overflow, multiply, divide, lanes of loads and stores | EX, MEM, WB |
| test bench: `testbench/mycpu_tb.v` | place in the trace, error flag | compare each register write with the trace | the debug port |
| reference CPU: `cpu132_gettrace` | a third-party netlist | writes `golden_trace.txt` | the test bench, through the file |
| timer of `CONFREG/confreg.v` | counter on one clock, request and copies on another | bus reads and writes, the handshake | data port of the CPU; `delay()` |
| keyboard of `confreg.v` | scan state, two counters, key register | scan a column, wait for the contacts, show the key | the finger; polled by the game |
| memory game: `memory_main.c`, `time.c` | pattern, presses, score, LEDs | show a pattern, collect presses, count | timer, keyboard |
| allocator: `malloc.c` | a circular free list in the memory it manages | `malloc`, `morecore`, `sbrk`, `free` | its callers |
| interrupt dispatch: `irq.c` | action lists by number; the enable registers | `init_IRQ`, `request_irq`; dispatch, mask, acknowledge, handle, unmask | controllers and devices; the thread it interrupts |
| command loop: `cmdline.c` | line buffer, `argv`, `argc` | a key; the end of a line | `strcmp`, the commands |
| strings: `string.c` and the files of one function each | the place of `strtok` | compare, find, copy, fill, cut | their callers |
| numbers and formatting: `strtoul.c`, `atob.c`, `printbase.c`, `vsprintf.c`, `sscanf.c`, `printf.c`, ... | none | text to number, number to text, formats | each other |
| streams: `stdio.c` | ten streams | `fopen`, `fread`, `getc`, `fgets`, `fclose` | all callers share the table |
| cache maintenance: `cache.c`, `r4kcache.h` | the caches (external) | write back, invalidate, flush a range | devices, handlers, fetch |
| CP0 accessors: `mipsregs.h`, `common.h` | CP0 registers (external) | read, write, set, clear, change | interrupts between two instructions |
| image converters: `convert.c` | one buffer for all files of a run | binary to `.coe` and `.mif` | the build |
| test programs: `soft/func` | -- | inputs of the CPU | -- |
| `BRIDGE/bridge_1x2.v`, `soc_lite_top.v`, display and step buttons of `confreg.v` | select bits, display registers | routing | data port of the CPU |

What is hard in this code is order. There is one clock, but five
instructions are in flight; each of a dozen wires reads some of them before and
some after a write that happens in the same cycle (the register file writes on the
falling edge, HI/LO and the CP0 registers are transparent latches), faults of
three stages meet in one cycle, the flush has to walk with the instructions it
cancels, and a load holds the pipeline by a latch that still shows an old word.
Each unit test of the repository is one program; an error is a combination of
neighbours. The library has no tests. Its allocator can go wrong several calls after the cause; its
interrupt dispatch and cache calls are interrupted between any two accesses; the command loop keeps
pointers into a buffer that the keys write; the conversions meet the ends of their ranges; and the
keyboard bounces. `PROJECT.json` lists under `hazards` the places where that bites,
with the properties that cover each of them.

What makes the components correct:

* pipeline, hazards, exceptions together: the CPU writes the same registers, in
  the same order and with the same values as a machine that executes one
  instruction at a time, leaves the same memory, HI, LO and exception registers,
  and ends when that machine ends;
* hazards alone: a load is never overtaken, its address is never taken for its
  datum, and a hold ends;
* arithmetic: the results are the integers they stand for at the ends of the
  range too, and a store changes exactly the bytes it names;
* timer: a write is not lost, torn or doubled on the way to the other clock, and `delay()`
  of the memory game, which polls the timer, neither returns early nor for ever polls;
* keyboard and game: a press is shown once, entered once and counted;
* allocator: blocks in use are disjoint, no memory is lost, it grows only when it must, and calls return;
* interrupts: every line that gets through has an action, no enable bit and no DMA completion is
  lost, and every device is served;
* command loop: the command that runs is the one typed, an empty line runs the last one again;
* strings, numbers, streams, converters: what their names promise, over all inputs of a family, and
  what goes out comes back;
* cache and CP0: neither side of a transfer reads stale bytes, and a register keeps what was written.

## The modules

* `MipsDefs` -- the 57 instruction names and the classes of names that the control
  units tell apart.
* `Cpu` -- the pipeline. A variable for every register, latch and RAM; the wires are
  state functions under the names they have in `datapath.v`. A step is one rising
  clock edge: `Advance` (PC_write is 1), `Stall` (PC_write is 0), `TakeException`
  (the exception overrides both); the conjunction `Pipe` is what every edge does
  to the stages behind fetch. What happens on the falling edge (register file,
  CP0 and HI/LO latches) is the state just before the rising edge, so it appears in
  `readData`, `out_HI_data`, `CP0_now` and is stored by the same step.
  The arithmetic is left to constant operators, and the program, word size and
  register set are constants: that is what the proofs quantify over.
* `Alu` -- the arithmetic, for any word width; half words, bytes and shift amounts keep
  their proportion to the word.
* `MipsRef` -- the abstract specification: MIPS executed one instruction at a time,
  with delay slots, precise exceptions, EPC and BD. It uses the same constant
  arithmetic, so it and `Cpu` differ only in routing, order and cancellation.
* `MycpuTb` -- `Cpu` composed with the comparison of `mycpu_tb.v`. `golden` is the
  trace `MipsRef` writes for the program that was chosen; `Compare` runs in every
  step. At the end of the trace the last entry remains the reference, as
  `$fscanf` leaves it.
* `LockStep` -- `Cpu` composed with the machine of `MipsRef` without a recorded run: the reference executes an
  instruction in the step in which ID issues it, and `before` remembers, for the instruction in each stage, the state the
  reference was in before it. `before` and `phase` are history variables: `Follow` never restricts `Next`. They part (`phase`) at
  the first exception, and at the first instruction outside `Within`, which names what the CPU is known to treat differently.
* `MCCpu` -- the suites of programs for TLC, and an assembler. `MCAny` -- every
  program of four words. `MCLock` -- the test bench and `LockStep` on one CPU. `MCAlu` -- operand sweeps. `MCFindings` -- a program on which
  the CPU departs from what its test bench expects.
* `ConfTimer` -- the timer of `confreg.v`, a step per edge of `clk`, of `timer_clk`, or of both. The
  bus cycle is the parameter of a `clk` edge. `PatientSpec` lets the edges come in any order.
* `TimerReg` -- the abstract specification of it: one counting register that takes over each
  written word once. `ConfTimer` instantiates it with a refinement mapping: a word is
  pending from the write until the counter is loaded.
* `DelayLoop` -- `ConfTimer` driven by `delay()` and `get_us()` of the memory game. Its clocks are
  those of the PLL (`xilinx_ip/clk_pll/clk_pll.veo:58-59`: 50 and 100 MHz, phase 0).
* `KeyScan` -- the keyboard of `confreg.v` and the finger on it, a step per edge of `clk`. `KeyPad` --
  the abstract specification: press, show, lift, hide. `Game` -- `memory_main.c` on `KeyScan`; a pause is
  a number of edges, the pattern any sequence of lights. `Game` instantiates `KeyPad`.
* `Heap` -- `malloc.c`; a step is one turn of a search or of `free`'s walk, an address counts header units.
  `Allocator` -- the abstract specification: memory may grow while a call waits, and a call is answered by bytes of
  it that nobody has. `Heap` instantiates it.
* `Irq` -- `irq.c` with the controllers and devices: the thread in `request_irq` takes a step per
  access of an enable register, and a handler runs between any two of them.
* `CmdLoop` -- `cmdline.c`, a step per key and, at the end of a line, one per turn of the loop that splits it in place (`scan` has its i, p0
  and c0). The words of a line are defined without the loop: `Spells` says where they begin and end. `MCCmd` has the table of commands.
* `CString` -- the string functions on a memory of bytes. A walk is the first address at which it
  stops; writes are done byte by byte, because areas may overlap. `CStringSpec` -- what the functions promise of a memory, a
  sequence of bytes that ends with a NUL.
* `Numbers`, `Format` -- conversions, and the three implementations of `printf` and `sscanf` that use them.
* `Files` -- `stdio.c` among several callers. `Convert` -- both `convert.c`. `C0` -- the CP0 accessors of
  both headers, as instruction sequences of a thread that ticks interrupt; a register is the sets of ones of its halves.
* `MCLibc` -- sweeps of `CString`, `Numbers`, `Format` and `Convert` over their inputs, and sessions of
  `Files` and `C0`. A behaviour takes one of them.
* `Cache` -- `cache.c` down to the cache instructions, with caches, device, new code and handlers. The instructions of a
  call are a sequence, `issued` says how many of them are behind it.
* `MCIrq`, `MCCache`, `MCGame` -- values of the constants.
* `CpuProofs` (`Cpu` and `LockStep`; `CpuUnits` says what it takes of the arithmetic), `AluProofs`, `TimerProofs` (`ConfTimer` and `DelayLoop`), `GameProofs` (`KeyScan` and `Game`), `HeapProofs`, `IrqProofs`,
  `CacheProofs`, `LibraryProofs` (`Files`, `C0`, `CmdLoop` and `CString`) -- the theorems, each about the module of its name.

An instruction word is a record of name and fields: the bit patterns that
`decode.v` matches are not modelled. A definition whose name ends in `_Bug` is a
plausible mistake in the definition below it; no specification uses it.

### How the model was compared with the repository

The order of same-edge events was settled by the artefacts that come with the code.
`run_vivado/mycpu_prj1/mycpu.sim/sim_1/behav/xsim/simulate.log` records at which time
each of the 89 functional tests ended, and `cpu132_gettrace/golden_trace.txt` each of
93,785 register writes. A transcription of the same equations in another language
reproduces both, cycle by cycle; in particular it fixes that a load holds itself in
ID for two cycles and what `decode_list.v` calls flushed.
Where the code races (`if_exc` is cleared by blocking assignment at the edge that
`pc.v` and `CP0.v` read it) the model takes the order of that simulation. `clk0` in
`npc.v` has no initial value; the model takes the branch the simulator takes for x.

## What is checked

| run | inputs | shows |
|---|---|---|
| `dataflow` | all bodies of 4 instructions over: loads, stores, sums, branches; multiply, divide, HI and LO; jumps and branches that link; mtc0 and mfc0 of four registers among branches | every operand comes from the right place at every distance, also out of CP0; registers, HI, LO, CP0 and RAM are those of the reference at every edge |
| `traps` | all bodies of 4 over twelve instructions, seven of which fault, with a handler that stops; all bodies of 3 with a handler that skips the fault and returns; software interrupts among loads, stores and branches | exceptions are precise, also in delay slots, nothing younger commits, the program ends after the return; an interrupt is taken once and returns behind its mtc0 |
| `any` | all programs of four words over twelve instructions, the exception vector among them | the hold of loads, whatever is flushed, faults or jumps into whatever |
| `timer` | `delay()` over and over on the two-clock timer | no early return, no lost write, no endless poll; to the program the timer is one register |
| `alu` | all pairs of 8-bit operands | arithmetic and byte lanes mean what they should |
| `heap` | every sequence of `malloc` of two sizes and `free` in any order | the free list is one sorted circle of all free memory; an allocator to its callers |
| `irq` | five devices that raise lines at any time, a thread that requests handlers | actions found, enable bits and DMA completions kept, devices served |
| `shell` | every sequence of lines, with erasing and spaces anywhere, until a line leaves its arrays | a line that leaves a cell for its NUL runs as it was typed; an empty line repeats; which lines are undefined |
| `libc` | all texts and numbers up to a bound; all sessions of three callers at two streams, and of a thread at a CP0 register | the functions against definitions of what they promise |
| `cache` | buffers that begin and end inside lines and on borders, smaller and larger than the cache | device, program and fetch read no stale byte |
| `game` | a player with three keys, contacts that bounce in any way | a press is one press, up to the score |

`TraceMatches` is the comparison of the test bench. It does not see stores, mthi, mtlo
or CP0, so `FinalStateMatches` compares the rest of the state when the program is over, in `traps`; in `dataflow`,
`InStep` compares it at every edge with the reference behind the instructions that have left WB (the RAM: MEM). `NeverDeparts` of
`MCLock`, added to `MCDataflow.cfg`, holds as well: the programs of that run stay in step to the end.
`Terminates` is the liveness of stall, flush and return. `LoadHeld`,
`NoLoadForwarded` and `StallEnds` are about the pipeline alone and hold for every program.
`DelayLasts` relates the time that has really passed to the count that `delay()` reads;
`WritesWait` is the condition under which the handshake works, met by the program and not enforced
by the code; `OneRegister` is the refinement of `TimerReg` with its liveness.

`NoLeak` and `ListSound` together say that the blocks tile the memory and the list holds the free ones,
in order and merged; `Allocates` is the refinement of `Allocator`; `GrowsWhenFull` is what first fit owes:
memory grows only when no free block is large enough. `EnableKept` is about the read-modify-write
of the enable registers, `DmaKept` about acknowledging before handling, `Served` about several devices
on one number and the order of bits. `ShownOnce` is the refinement of `KeyPad`. `Strings`, `Numeric`,
`Formats` and `Images` compare functions with a definition written independently of
their loops, or send a value there and back; where they leave an input out, it is a departure listed below. `StaysDefined` pins down the lines
after which the command loop is undefined: a first one that ends in a space (it reads NULL), one that fills the buffer, one of
more words than `argv` has cells. `ReadsBack` holds Status, with the interrupt enable ST0_IE in it, to what it was before an access, or to what the
access asked for if it is the register accessed.
Each property has a mutant of the code that breaks it.

### Where the code departs from what is written about it

`find_link` is a run that TLC finds violated: a link value is not forwarded, so `jr ra` within two slots of its
`jal` goes astray, against the comparison of the test bench. Further departures are modelled as the code has
them and have no run; the suites keep clear of them (see below):

* a syscall or break in a flushed slot still raises an exception, and its mask replaces the one that
  was flushing; the older faulting instruction then commits (`exception.v:154` and `:158`);
* an exception inside a handler overwrites EPC (`CP0.v:53` and `:71`);
* an instruction behind a write to register 0 reads the value written (`regdef.h:44`, `regfile.v:36`);
* the instruction behind eret completes (`CP0.v:57-59`, `datapath.v:728`);
* the software interrupt depends on the register of the wrong field (`decode_ctrl.v:120`);
* `init_IRQ` does not mask the bits a loader left enabled (`irq.c:396-397`): it writes `int_clr`;
* `cmdloop` tests no bound (`cmdline.c:116`, `:150`, `:157-158`): a line of `CMD_BUFF` characters is terminated behind
  `cmdbuffer[CMD_BUFF]`, and a further key or a word beyond `V_NUM` is written behind its array (the state `overrun` of `CmdLoop`);
* the `strncmp` of `strncmp.c:15` and the `memcmp` of `memcmp.c:10`, in the library (`Makefile`) beside those of `string.c`, order
  by signed characters, against `string.c:94-98` and `:322-328`: above 127 they disagree with them on the order, though not on what is equal;
* `int_to_dec` prints characters that are no digits for the most negative number: it stays negative when negated (`sscanf.c:266-287`);
* `sscanf` hands `parse_arg` its argument list by value (`sscanf.c:366`, `:485`; a `va_list` is a pointer, `common.h:7`): every
  conversion stores through the first pointer, and only the last value is left. `Formats` says so;
* `strtoul` takes `0X` for a prefix in base 0 but not in base 16 (`strtoul.c:43`, a parenthesis): there the number is the 0. `Numerals` says so;
* the zero flag of `vsprintf` puts its zeros in front of a minus sign (`str_fmt.c`), and the width of `printf` ends at a zero (`printf.c:64-78`).

### Bounds

* Words have 8 bits in `dataflow` and `traps`: 64 instruction addresses, byte lanes of two
  bits, immediates of four. The pipeline routes words without looking into them
  apart from alignment, sign and equality with zero, which 8 bits have; the arithmetic itself is
  checked by `alu`. `any` has 4-bit words so that every program fits.
* `BodyLength` = 4: an instruction interacts with those in the four stages
  behind ID, and after four slots it has left the pipeline. Prefix and landing code
  put something before and behind every body.
* `GoldenSteps` is more than any suite program executes before it stops; a
  program that loops is compared for as long as the trace goes.
* `DataWords` = 4 words of RAM, `Reg` only the register numbers the programs name (with
  those that share bits with a jump target or an mtc0).

* `timer`: the counter has 64 values and `delay()` waits for 20, with polls 9 or 14 edges of `clk` apart; what
  matters is that a poll interval, in ticks, is less than the counter's range behind the limit, as it is
  in the design by far. `FirstRead` = 4 is the distance from the store to the first load in all five
  inlined copies of `delay()` in `obj/test.s` (`bfc00f68`, `bfc012a0`, `bfc013bc`, `bfc017f8`, `bfc018f0`), on a pipeline
  that completes one instruction per cycle; a stall would make it longer. It leaves no margin: with 3 instead of 4 `DelayLasts` is
  violated, and so it is with `TimerPerClk` = 1, the clocks of a simulation without the PLL
  (`SIMU_USE_PLL` 0 in `soc_lite_top.v:63`). `Pause` = 8 stands for whatever the game does between two delays.
  `DelayAssumption`, which the proofs use, asks for no more than `TimerPerClk` >= 2, `FirstRead` >= 4 and `Pause` >= 2.

* `heap`: a unit is 8 bytes as in the source, morecore asks for 4 units instead of 128, and memory ends
  at 16 units, three times what it asks for. Requests of 1 and 25 bytes take 2 and 5 units: a block that is
  split, one that fits exactly after a merge, and one larger than `NALLOC`. When memory is used up the callers only free.
* `irq`: two banks of two bits instead of five of 32, one read and one write DMA channel. Two devices
  share a number, one is beside the cascade. `MaxRaise` lets each device raise its line once, and the
  read channel twice, for a second completion while the first is handled. The registers boot with all bits off and devices are
  silent until they have a handler: with a bit left enabled `ActionFound` is violated, as noted above.
* `shell`: a buffer of 5 cells, `argv` of 2, names of one and two letters, one of them the beginning of another. Five
  characters make every line of one, two and three words with a space anywhere; four of them leave a cell for the NUL, the fifth does not, and three words,
  the empty one in front of a space with them, are one more than `argv` has cells for.
* `libc`: words have 8 bits (`HalfWord` = 16), texts up to 5 letters (7 for the images, two words
  and a half-filled one), 6 where `strtok` cuts them. The alphabets have the
  letters the code tells apart: digits, signs, `x`, `X`, separators, a character above 127, NUL. The bases of `strtoul` are 0, 8, 10 and 16. The memory of
  the string functions is the text and a NUL, twice where something is written, and they are tried with every pair of addresses and every length. Two streams for three callers, so that
  the table is full, and the empty text among those they open; `Bits` and `Top` make registers of two
  halves of two bits, one of them the sign and the other `IE` of Status. EXL and ERL, which hold interrupts off as well, are left out: with them
  there would be fewer ticks. In `Formats`, `print_arg` is compared without a flag and below the most negative number, `printf` with neither flag nor width.
* `cache`: lines of 2 bytes, a direct-mapped cache of 2 of them, three lines of memory, so that lines compete for a slot;
  `UnrollBy` = 2 makes a flush of the whole cache one unrolled turn. Each buffer is given to a device
  and filled by one; new code is written to the largest and to one smaller than the cache. Buffers of size 0 are excluded (`blast_range` runs past their end).
* `game`: `Half` = 4 and `Scan` = 1 keep the proportion of the two counters to a bounce of 2 edges. `Hold` = 18
  and `Rest` = 10 leave no slack: with `Hold` 16, `Rest` 8 or `Bounce` 4, `ShownOnce` is violated, so these are what the scanner
  needs of a finger; `KeyAssumption` has them for every length of the counters, as sums of the wait, a turn of the columns and the bouncing. In the design the wait takes half a million edges at 50 MHz, a hundredth of a second. `NumLights` = 2 flashes make a
  round; three keys, one outside the row the game looks at.

### What the suites leave out

The suites keep clear of programs on which the CPU is known to differ, so that
what they show is the rest. Each restriction is an operator of `MCCpu`:

* `NoShadow` -- no syscall or break behind another fault (the mask, above), no misaligned jump
  behind a store (the store is dropped: `data_sram_en` looks at the fault of the
  jump too), no younger fault in a delay slot behind a faulting access (BD is
  set for the wrong one);
* `NoNested` -- no branch in a delay slot, which MIPS leaves undefined;
* `LinkSettled` -- nothing reads register 31 within two slots of a link (`find_link`);
* `Cp0Settled` -- no branch on an mfc0 directly behind an mtc0 of another register or of a
  register that keeps only some bits: `EXE_forward_data` hands it the word
  written;
* `NotInSlot` -- no mtc0 in a delay slot: its software interrupt would restart behind the slot
  and lose the branch.

The `any` run has none of these.

### Fairness

For the CPU the only assumption is weak fairness of the whole clock step: the clock runs freely, and exactly one of
the three actions is enabled in every state. No action is favoured over another. There is no
deadlock to except: the CPU always has a next cycle, and deadlock checking stays on.
In `timer` and `game` too it is weak fairness of the whole step:
the clocks run freely and the processor executes.
`heap` assumes it of a step inside a call, not of the callers: nobody has to call. `irq` assumes it of the thread, which
may otherwise stop in the middle of `request_irq`, and of the interrupt: a pending line interrupts. It
assumes nothing of the devices, and none of one handler before another.
`shell`, `libc` and `cache` have safety properties only.

Deadlock is checked except where the system may really stop: `alu` and `libc` end with their last
input, the command loop ends with `exit`, a fault or an overrun, and in `irq` all devices may have raised their last line.

## What is proved

Eight modules of proofs. Each theorem is of the component's specification, rests on an inductive invariant
(its name ends in `Inv`; TLC checked each on the run of its component before it was proved) and has a lemma for each action that says
what that action keeps. The assumptions are those on the constants, named `...Assumption` and evaluated by TLC in the runs. What each
excludes is given below.

### The pipeline

`CpuProofs` proves four theorems of `Spec`, for every word size above 8, register
set, program and every arithmetic that maps words to words:

* `TypeCorrect`: `Spec => []TypeOK`;
* `LoadsAreHeld`: `Spec => []LoadHeld`;
* `LoadsAreNotForwarded`: `Spec => []NoLoadForwarded`;
* `StallsEnd`: `Spec => StallEnds`.

They rest on `CpuAssumption` (in `Cpu`: the constants are words, and programs hold
instructions) and `UnitAssumption` (in `CpuUnits`: the arithmetic returns words, Status and
Cause read as words). TLC evaluates both for the operators of `Alu` in the run `any`, and `UnitsReturnWords` proves
the part about the arithmetic at every width (next section).
(`TypeOK`, `LoadHeld`, `NoLoadForwarded` and `StallEnds` are the properties of that run.)

`LoadHeld` is not inductive: whether ID still holds the load depends on the flush
mask and on which names a stage can have. The inductive invariant is
`LoadInv`, the conjunction of

* `MaskInv`: the mask never flushes ID without EX, and a slot that the mask has just
  stopped covering (its bit is set, the bit of the slot behind it is not) holds a bubble or a trap;
* `NameInv`: the name in a stage is the operation of its instruction or NOP, so a held slot
  is a bubble;
* `LoadHeld` itself.

Each has an initiation lemma and a preservation lemma with one step per action; the theorems combine
them with PTL. `NoLoadForwarded` follows from `LoadInv`; `StallEnds` is a consequence of
one step from a state of `LoadInv`.

### The arithmetic

`AluProofs` proves, for every `Width` that is a power of two from 4 on (`AluAssumption`: the shift amount field counts the bits of a word, and `Words` is 2^`Width`):

* `ArithmeticIsExact`: `Spec => []ArithmeticExact` and `StoresReadBack`: `Spec => []LanesExact`, for the sweeps of `MCAlu`. The run checks
  all operands of 8 bits; the design has 32.
* `LogicIsBitwise`: `and`, `or`, `nor` and `xor` treat every bit alone.
* `UnitsReturnWords`: words in, words out, which is what `CpuProofs` assumes.

There is no state to speak of, and the work is in the lemmas: `Pow2Is` (there is a function with that recursion, by `Induction` and
`Recursion`, which are stated of sets and of functions because the library's theorems are stated of operators), `Pow2Grows`,
`Division` and `DivisionIs` (quotient and remainder are the only pair), `FitsBack` (a value that fits is read back from its word). With these
`SumExact` follows `test_result` through its two top bits, `ShiftIs` an arithmetic shift through the complement, `ProductExact` and
`QuotientIs` the two halves of HI:LO, and `Replacing`, `DigitBelow` and `OthersKept` a store through the three parts of the word around it.

### The pipeline in lock step

`CpuProofs` also proves `StaysInStep`: `LockSpec => []InStep`, for every program, word size, register set and arithmetic, under the
two assumptions above. At every edge, with up to four instructions in flight behind ID, the register file, HI, LO and CP0 are what the
reference has behind the last instruction that left WB, the RAM is what it has behind the last that left MEM, and the debug port
shows what the reference says the instruction in WB writes. This is the comparison of the test bench without a
trace to run out of, and it sees stores, mthi, mtlo and mtc0 too.

`InStep` is about WB alone; what is inductive has a clause for each stage:

* `Takes`: the instruction in a stage takes the reference from the `before` of that stage to the `before` of the next younger one; a bubble takes it nowhere;
* `Fetched`: ID holds the word at the pc of the reference and PC is its next pc; while a load holds ID, the two pcs swap at
  each edge, and come out right because the hold lasts two;
* `Read`: what decode handed to EX was read two instructions too early, behind the one that has just left WB;
* `Computed`, `Answered`: in MEM and WB the ALU, the multiplier, HI, LO and the RAM have answered as the reference's do;
* `Retired`: the register file, HI, LO, CP0 and the RAM;
* `LoadInv` and `TypeOK`, as above.

The lemmas go backwards through the pipeline, because each path forwards from an older stage: `EndsInWB`, `WritesBack` and `RegistersAgree`
(the register file reads the write in progress), `InMEM` and `ForwardsFromMEM`, `Forwards` and `Operands` (`forwarding_unit.v` brings both operands up
to date), `InEX`, `ForwardsFromEX` and `Compared` (what branches, jumps and the software interrupt look at in ID), `Quiet` (nothing is
raised) and `Target` (`npc.v`). Then each clause has a step lemma, and `FirstEdge` is the edge behind reset.

`Within` is what the theorem leaves out, instruction by instruction; each part is a departure of the code listed above, or one the proof needed:

* `Uneventful`: it raises nothing, is no eret, and does not trip the CPU's own tests where the reference has none (the overflow of an
  address, the alignment of the rs field of j and jal, the rs field of an mtc0 to Cause);
* `Regular`: register 0 is no destination, a shift by a constant has rs = 0 (`forwarding_unit.v` would replace the shift amount), and
  mfc0 reads a register that exists (the forwarding paths and WB disagree on the others);
* `InTime`: nothing reads register 31 within two slots of a link, and no branch or jump looks at an mfc0 that an mtc0 of another register, or of one
  that keeps only some bits, is ahead of.

### The timer

`TimerProofs` proves, for every counter width and for edges of the two clocks in any order,
with a bus that writes only when `Quiet` (no trace of the last write is left):

* `TimerTypes`: `PatientSpec => []ConfTypeOK` (proved only);
* `HandshakeHolds`: `PatientSpec => []Handshake`;
* `TimerIsRegister`: `PatientSpec => Reg!SafeSpec`, the refinement of `TimerReg` without its fairness;

and for the program of `DelayLoop`, which nothing makes wait but its own pace,

* `WritesAreApart`: `Spec => WritesWait`;
* `DelaysAreFull`: `Spec => DelayLasts`;
* `ProgramOnRegister`: `Spec => []Handshake /\ Reg!SafeSpec`.

`TimerAssumption` says that the counter has at least one value. `ConfTypeOK /\ Handshake` is inductive as it
stands. `Handshake` lists the phases in which request, copies and acknowledgement may be, and says that the word beside a
request that has not been served is the word written; that is what makes a load of the counter a step `Load` of the register. The
step lemmas are by kind of edge: `EdgeOfTimer`, `EdgeOfClk`, `EdgeOfBoth`.

The program needs real time, which `Handshake` does not have. `LoopInv` measures it in edges of `clk` since the store:
`Settled(n)` is how far the handshake must have come after n of them, `Cleared(n)` what the counter and its copies may hold,
and `Paced` says which n the place in the program and its `wait` stand for. `BothSettles` and `BothClears` take n to n + 1 at an edge of
both clocks, `TimSettles` and `TimClears` keep n at an edge of `timer_clk` alone. `DelayAssumption` says that `clk` is at most half as
fast as `timer_clk`, that the first load is four edges behind the store (the distance in the compiled code; the proof fails with
less, and so does the property), and that the game pauses for two edges between delays. The limit, the polls and the
width of the counter are arbitrary: a counter that overflows only shows less time than has passed.

### The keyboard and the game

`GameProofs`, for any keys and lengths of wait, turn of the columns, bouncing, polls and delays:

* `PressesAreShown`: `Spec => Pad!SafeSpec`, the safety part of `ShownOnce`;
* `PressesAreEntered`: `Spec => EachPressOnce`;
* `RoundsAreScored`: `Spec => []Scored`.

`KeyInv` follows a press through the scanner: `Pressed` bounds the time since the finger came down by where the state machine and its
counters are, so that `Hold` cannot be over before the key is in `btn_key_r`; `Lifted` does the same for the release. `Steady` and
`Counting` relate the contact and the wait to that time. `Entered` says that a press that has been entered is still
in the register while the game waits for the release; `RoundInv` that pattern, presses and the shown score are of one round. `KeyAssumption` is
what the scanner needs of a finger (see the bounds); a shorter press may be missed.

### The allocator

`HeapProofs`, for any unit, growth, memory and requests:

* `ListIsSound`: `HeapSpec => []ListSound`; `NothingLeaks`: `HeapSpec => []NoLeak`;
* `GrowsOnlyWhenFull`: `HeapSpec => GrowsWhenFull`;
* `Implements`: `HeapSpec => Allocates`, the refinement of `Allocator`.

`ListSound` and `NoLeak` are not inductive alone. `IInv` has `Tiled` (blocks side by side from `MemStart` to `membase`), `Circle` (each free block points to the
next free address, the last to `base`, and no two touch), `Searched` (the blocks a search has passed, in the order of the circle from `allocp`, are too small; one that is large enough is in the list or can be had
from `sbrk`, and the one `morecore` frees is large enough) and `Sizes` (a block in use has the units its request takes). `HeapAssumption` keeps a request so far from 2^32 that its size does not wrap (`malloc.c:73`).

### Interrupts

`IrqProofs`, for any number of banks, bits, DMA channels, devices and lines they share:

* `EnableBitsKept`: `IrqSpec => []EnableKept`; `ActionsFound`: `IrqSpec => []ActionFound`; `TransfersKept`: `IrqSpec => []DmaKept`.

What is inductive says which bits are on at each step: `EnabledInv` excepts the bit that a handler in progress has masked and the one the thread is
about to set; `ThreadInv` says that the word the thread has read is still the register, handlers that masked and unmasked in between included; `CtxInv`
what the dispatcher has found; `ChannelInv` that a channel has only its own device. `IrqAssumption` gives a DMA channel one device, as the hardware does;
board numbers may be shared by any. `BootAssumption` says that the loader leaves nothing enabled, because `init_IRQ` clears the pending
bits and not the enable bits (`irq.c:396-397`): without it `ActionFound` is false.

### The caches

`CacheProofs`, for every geometry, buffer and range, and handlers that run between any two cache instructions:

* `DmaIsExact`: `Spec => []DmaExact`; `NewCodeIsFetched`: `Spec => []FetchSees`.

The invariant looks ahead: `Saved` says that a byte that is not in memory yet is in a slot which an instruction the call has still to issue will write back
(`DAhead`), `Emptied` that a line of a buffer to be filled which is still cached will be removed, the lines at both ends (they hold other data) by the first two
instructions, and `Refetched` that a stale line of the instruction cache will be invalidated. Under them are `Types`, `Once` (a line is in one slot),
`CleanKept` and `Whole`. The lemmas `BlastMeets`, `RangeMeets` and `Calls` show that the instructions of `blast_range`, of a whole-cache flush unrolled by
`UnrollBy`, and of the two border lines reach every line of the buffer. `CacheAssumption` excludes buffers of size 0 and sets that are no multiple of the unrolling.

### The streams, the registers, the command loop and the strings

`LibraryProofs` has the theorems about four parts of the library.

`StreamsKeepApart`: `FilesSpec => []InOrder`, for any texts, callers and table. The invariant says that an open stream has one caller (`StreamsApart`)
and that the caller has got exactly the text up to the position of the stream (`Delivered`). `FilesAssumption`: a text is not NULL.

`RegistersReadBack`: `C0Spec => []ReadsBack`, for every accessor of the two tables, Status among them, halves of any width and ticks between any two instructions
while Status enables interrupts. The invariant says that what is left of an access makes the value that is wanted: `Writing`, `Building` and `Reading`
have a line for each place in the instructions of an accessor and what M, L and the register must hold there. While a value of two words is joined
interrupts are off (`Off`: Status is what it was but for its enable, and the flags saved are that bit) and elsewhere only the lower halves of M and L count, which is
what the kernel keeps. `Saves` and `Restores` say what local_irq_save and local_irq_restore make of Status, `Kept` that it is otherwise what it was, unless it is the register accessed. `Plain` says
that only the registers in `Ticks` are those of the tick, `CommonPart` that each accessor of `common.h` names the register and width
of the one in `mipsregs.h`. `C0Assumption`: the sign and the interrupt enable are bits.

`LinesRun`: `CmdSpec => LineRuns`, `RemembersAlways`: `CmdSpec => []Remembers`, `DefinedUnlessLong`: `CmdSpec => []StaysDefined`, for any letters, table and
lengths of cmdbuffer and argv, whose cells are those of the C arrays. The invariant follows the splitting loop: `Buffered` says what it has left of the line in cmdbuffer, `Noted`
that argv has the beginnings of words which have ended, each with a NUL behind it, `Pending` the same of the word the loop is in or has just left,
`AllSeen` that there are no others. `StringIs` shows that what `strcmp` reads from such a place is the word; a line of `CMD_BUFF` characters, which has no NUL,
never gets there. `WordsFill` counts: when argv is full and another word begins, the line has more words than cells. `NoneNoted` and `Unset` say that argv[0] is
NULL only while nothing has run and no second word has begun. `CmdAssumption` is about the table: no two commands have one name, and all but exit
may be repeated (`cmdline.c:18-24`).

`ComparingOrders`, `MovingIsExact` and `CopyingKeepsStrings`: `\A m : IsMemory(m) => StringsCompare(m) /\ SecondsAgree(m)`, and the same of `BlocksMove(m)` and
`StringsCopy(m)`, the conjuncts of `Strings` that are not about `strtok`. They hold of every memory, for all addresses and lengths. What is compared
stops at the first difference or NUL (`DifferOrEndIs`), up to which the strings agree, so that this place decides (`HeadsSplit`, `OrdersIs`); `SignedIs` is what the signed differences of `strncmp.c` and `memcmp.c` say of the two bytes there. A loop that copies is
a recursive function; `UpIs` and `DownIs` show by induction over its index what it holds after each turn, provided the areas are apart, or overlap on the side that loop can
stand: this is where the direction of `memmove` matters. `EndIs` and `StrIs` find the string in the memory that results. The one hypothesis is that the memory ends with a NUL,
so that every pointer is to a string.

### What is only model-checked

* Liveness (`Terminates`, `DelayReturns`, `CallsReturn`, `Served`, `Heard`, and the liveness inside `OneRegister` and `ShownOnce`): beyond the prover.
* The comparison with a whole recorded run (`TraceMatches`, `FinalStateMatches`): the run is computed by a recursive
  function, so a proof would be an induction over data. `StaysInStep` is the same comparison step by step; exceptions, which end
  it, are compared in `traps` only.
* Of `Strings` the part about `strtok` (`Tokens`): it is about a sequence of calls, a RECURSIVE operator.
* `Numeric`, `Formats`, `Images`: they say what a loop computes for every input, by induction over data; `Format` has RECURSIVE operators besides.

## What is not modelled

* Reset in the middle of a run; the test bench holds it at the start only.
* The hardware interrupt input: `soc_lite_top.v` ties it to 0 and nothing reads it.
* Division by zero, which yields x in the design.
* An address past the end of the signed range: loads and stores compute it with the `aluOp` that
  watches for overflow (it is in `Cpu`, but no suite goes there).
* The bit patterns of instructions, and the register numbers outside `Reg`.
* The display monitor and the UART of the test bench: they watch the program.
* The display and the step buttons of confreg, the bridge, the reference netlist, and the RTL that nothing
  instantiates (`ctrl.v`, `mips.v`, `im.v`, `dm.v`, `add.v`, `sl2.v`, `compare.v`): the display drives pins nothing reads
  back, the buttons repeat the debouncing of the keyboard for a register no program reads, and the bridge is a
  decoder whose one-cycle delay is in the read path of `ConfTimer` and in the hold of loads.
* `xsim_1.c`, which the simulator generates.
* Two keys at once: a second key of a column hides both (`confreg.v:438`), and nothing is read until all are up.
* Functions that are compiled out: the profiling variant of `irq.c` (`MYOPROFILE`), floating point and
  64-bit formats (`FLOATINGPT`, `HAVE_QUAD`), `strtol` under `#if 0`.
* `guess.c`, `exception.c`, `udelay.c`, `now.c`, `getchar.c`, `testchar.c`: one device or CP0 access each, or assembly whose outcome
  is a hang. `my_rand` is abstracted to any of its values.
* Of `mipsregs.h`, the wrappers of one instruction each for floating point, DSP, TLB and SMTC, and the
  names of bits; of `r4kcache.h`, the secondary cache, the page variants and the prologues for other
  processors, which `cache.c` does not use. Headers of constants.
* A request close to the end of the address space (`malloc.c:73` wraps) and an eleventh `fopen`
  (`stdio.c:27` writes behind the table): the assumptions and guards exclude them. What happens behind an overrun of the command loop.
* A handler that uses a line shared with a buffer to be filled, between the write back and the invalidation (`cache.c:29-31`): `Touchable` excludes it.
* What the commands `help` and `d4` print, and `puts`.

## Plan

Written, in this order: `MipsDefs`, `Cpu`, `MipsRef`, `MycpuTb`, `Alu` with their runs, `CpuProofs`; `TimerReg`,
`ConfTimer`, `DelayLoop`; then `Allocator`, `Heap`, `Irq`, `CmdLoop`, `CString`, `CStringSpec`, `Numbers`, `Format`, `Files`,
`Cache`, `KeyPad`, `KeyScan`, `Game`, `C0`, `Convert` with theirs; then the other modules of proofs, `LockStep` with its own, `AluProofs`. What is left:

1. `LockStep` across an exception: at the edge that raises it `before` goes back to the reference behind `RefRaise` of the faulting instruction,
   and the invariant says of each slot whether the mask covers it; with it, that the flush covers every slot younger than the fault. `NoShadow`
   lists the pairs of faults it would have to exclude. CP0 changes at the edge of the fault, ahead of older instructions that have yet to retire, so
   it is to be compared with the reference behind the youngest covered slot, and no mfc0 or mtc0 may be in flight; a covered slot in MEM still
   forwards to the branch unit, so the first instruction of the handler must not look at a register in ID.
2. `Bridge`: the read multiplexer of `bridge_1x2.v`, between the CPU's data port, `data_ram` and confreg; the step
   buttons on the pattern of `KeyScan`.
