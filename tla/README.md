# Formal models of the BSP machine

The repository is a nine-core RV32I machine in Bluespec for bulk-synchronous
parallel (BSP) programs.  The cores compute on memories of their own, queue
remote writes with `bsp_put`, and exchange them in `bsp_sync`, a barrier in
hardware, over a 3x3 mesh of wormhole routers.  This directory holds TLA+ models
of the machine, their TLC configurations, and proofs for TLAPS.

## 1. Inventory

| Component | Source | State | Operations | Talks to |
|---|---|---|---|---|
| Matrix arbiter | `hw/network/MatrixArbiter.bsv` | `inited`, `priorityBits` | `initialize`, `getArbit` | called by a router, one per output |
| Crossbar | `hw/network/CrossbarSwitch.bsv` | `mrmwRegisters`, `clearingIndex`, `cbBuffer` | `putFlit`, `getFlit`, `clearingIndexRule` | called by its router |
| Router | `hw/network/Router.bsv` | `inputBuffer`, `arbResBuf`, `outputPortSource`, `outputLatch`, arbiters, crossbar | `doInitialize`, `rl_Switch_Arbitration`, `rl_Switch_Traversal`, `rl_enqOutLatch`, `putFlit`, `getFlit`, `getRouterSync` | four neighbours and a core, by one-flit transfers |
| Mesh | `hw/network/MeshNxN.bsv` | none of its own | two link rules per pair of neighbours, `getNoCSync` | routers, cores, top level |
| Flit engine | `hw/core/FlitEngine.bsv` | `state`, `addr`, `burstCtr`, `burstCtrF`, two FIFOs | `handleHeadFlit`, `handleBodyFlit` | core puts flits, BRAM takes writes |
| Core: memory, MMIO | `hw/core/Core.bsv` | sync registers, `outgoingFlits`, `dreq`, `mmioreq`, `busReqs`, `busResps` | `requestI/D/FE/MMIO`, the responses, `getLocalSync`, `setAllSync`, `putFlit`, `getFlit` | pipeline, BRAM, mesh, sync network, bus |
| Sync network | `hw/top/TopCore.bsv` | `c0sync_r .. c8sync_r`, `allsync_r` | `regSyncs`, `updateSync`, `propogateAllSync` | all cores |
| Firmware | `sw/progs/bsp.h` | `bspQueue`, `bspShadowQueue`, their pointers | `bsp_put`, `bsp_sync` | memory-mapped registers of its core |
| Pipeline | `hw/core/PipelinedSyn.bsv`, `RVUtil.bsv` | stage registers, register files, forwarding registers, epochs | fetch, decode, execute, memory, writeback | core |
| Caches | `hw/mem/*.bsv` (`CACHE_ENABLE`) | lines with tags and dirty bits, request and answer queues, the queue of who asked | requests, misses, write-backs, fills | core, main memory |
| Host bus, SPART | `fpga/src/CoreWrapper.v`, `fpga/src/spart` | bus master, command registers, queue of 8, its pointers, transmitter | bus reads and writes, transmission | core 0, serial line |
| Serial test bench | `fpga/tb/uartdpi.c`, `uartdpi.sv`, `sim_main.cpp` | bit counters of both directions, pseudo-terminal, log | create, read, write, close; the simulation's loop | serial line, a reader |
| Programs on one core | `sw/progs/src`, `sw/risc_v_tests/quicksort` | arrays | multiplication, printing, sorting, merging, self-tests | devices, `exit` |
| Programs on all cores | `dotproduct_9c.c`, `_5c`, `_9c_hw`, `dividesort_9c.c`, `sync_test.c` | scratch memory of each core | supersteps between calls of `bsp_sync` | each other, by `bsp_put` |
| Tools | `tools/elf2hex`, `tools/arrange_mem.py`, `fpga/proj/convert.py` | none | ELF file to memory images; the loader | memories |

Hard behaviours, by component (`PROJECT.json` has each with its line):

* **Sync network and firmware.** START and END reach the cores through two stages
  of registers while the cores go on; they are levels, not events, and can be
  read too early (a value of the last phase) or too late (already gone).
  Correct: no core leaves a wait before all have entered it, none is left behind.
* **Router.** Five outputs arbitrate over the same five input buffers, grants are
  buffered, an output belongs to an input from HEAD to TAIL, and all share one
  crossbar slot.  Correct: flits leave once, in order, by the output they were
  routed to, messages are not cut, and everything leaves.
* **Crossbar.** Registers are invalidated a step after they are read and rows stay
  stale.  Correct: it behaves as a switch with one flit.
* **Arbiter.** Correct: one winner, and no requester starves.
* **Remote put.** Fields packed into 22 bits, a burst counter that passes through
  zero, an address that wraps, stalls through five queues.  Correct: every word
  of every call is written once, in order, where it was to go.
* **Mesh.** Blocking between routers whose outputs share a slot.  Correct: messages
  arrive whole, in order, and the traffic of the programs always arrives.
* **Pipeline.** Results are forwarded from five places while stages wait for
  memory; one bit of epoch marks what is behind a jump.  Correct: an instruction
  reads what the program wrote last, and nothing behind a jump has an effect.
* **Core.** Untagged responses merged from several devices.
* **Caches.** Lines in three places, written back while others are fetched; answers
  without a source.  Correct: to the data side all of it is one memory.
* **Host bus, SPART.** A queue that takes bytes whether it has room or not, a status
  that is old when it is read, registers that move at different edges.  Correct: the
  line carries what the program sent.
* **Serial line.** Two ends that time bits on their own.  Correct: the terminal shows, and
  the receive queue gets, the bytes that were sent, and the simulation does not end
  before the last of them; the log lacks only what its file has not taken.
* **Programs.** Words that arrive while a core computes; sorting in place within
  bounds that differ by one; results that go to and fro between halves of a memory.
* **Tools.** Texts of memory contents with directives, filled at their ends.  Correct:
  the memories hold what the loader would put there.

## 2. Modules

    PriorityMatrix --- MatrixArbiter ........> LeastRecentlyGranted
          |
    FlitStreams --- Router --- OneFlitSwitch <............ CrossbarSwitch
                      |  '......> WormholeRouter --- Mesh --- MCMesh
                      '-- MCRouter

    BspSync ........> BspBarrier               RemotePut ...> RemoteMemory
      '-- MCBspSync       |                        '-- MCRemotePut
    BspSyncClock          |
                          |                    Pipeline --- MCPipeline
                          |                    Caches ......> FlatMemory
    Words, Sorting --- BspPrograms                 '-- MCCaches
         |                 |
         |             MCSoftware --- SerialPort, SerialTerminal
         |                 |
         '------------ Programs --- ImageTools

Dots: a module is shown to implement the abstract one at the arrow's head
(`INSTANCE ... WITH` a refinement mapping, the abstract `Spec` as a property).
The proofs about Router, Mesh, BspSync, BspSyncClock, RemotePut, Pipeline and Caches
are in a module of each name with `Proofs` behind it, those about MatrixArbiter and
CrossbarSwitch in RouterPartsProofs, of which RouterProofs uses the arbiter's half.

Bluespec's semantics is that of one rule at a time: each rule, and each method
that a neighbour calls, is an action, guarded by its explicit condition and by
the conditions of the methods it calls (`generic.mk` compiles with aggressive
conditions, so a method called in one branch guards that branch only).  Any
order of rules is allowed, hence every schedule of the compiler.

* **PriorityMatrix** has the combinational functions of the arbiter; a request
  vector is a set.  **MatrixArbiter** adds the state and a history, `waits`: how
  often each requester has lost in a row.  **LeastRecentlyGranted** is a queue of
  requesters; the triangle of bits is mapped to the order it encodes.
* **CrossbarSwitch** keeps the matrix of registers as it is.  **OneFlitSwitch** has
  one `slot`, and for each output the input whose register is still to be
  cleared (`draining`), which is all that a router can notice of it.
* **Router** uses the arbiter's functions and OneFlitSwitch's actions, in the same
  step as its own, as the rules do.  A flit's data is reduced to the core its
  HEAD names and a tag (input, message, place); `sent` and `got` record what
  came in and went out.  The neighbours put whole messages, in order.
  **FlitStreams** says what such messages look like from one flit to the next.
* **WormholeRouter** is what a router does, seen from its links: input buffers,
  one slot, latches, and whom each output belongs to.  Router is shown to take
  only its steps, so that **Mesh** can be nine WormholeRouters in place of nine
  Routers.  Mesh has the link rules of `MeshNxN.bsv` and a core at each local port
  that sends what a traffic chosen at the start has for it, whole messages one behind
  the other, and takes what comes.  A flit has its type, the core its HEAD names, and
  the core it comes from with its number there; `gone` records how many steps each has
  made, three to a router.  Steps and XY routing tell where a flit is (`Place`).
* **BspSync** has the firmware as a program counter over its memory-mapped
  accesses, and the rules of `TopCore.bsv`.  No clock: any number of rules may
  fire between two accesses and the rules in any order.  The mesh is reduced to
  the number of flits on the way to each core.  **BspBarrier** says what a
  program may rely on: two barriers in alternation.
* **BspSyncClock** has the same registers on the clock, one step a cycle, because
  whether a level is missed depends on cycles.  `bsp_sync_all_start` and `_end`
  are `Ehr`s written by `setAllSync` on port 0 in every cycle and read by the
  firmware on port 1, so that a core reads `allsync_r`, and its clearing of the
  register (port 1) is overwritten before it is read.
* **RemotePut** follows the words of `bsp_put` through queue, FIFOs, network,
  engine and memory port.  Heads are packed and unpacked as numbers.  The
  network is reduced to what Router establishes (`ExactlyOnceInOrder`,
  `NoInterleaving`).  **RemoteMemory** says what `bsp_put` promises: the writes of a
  sender to a receiver are a set, of which the least, by call and place, is done next,
  and none of another sender while a message is written in part.  The mapping takes what
  is behind the last word written of the pair (`landed`) for the writes to come.
* **Pipeline** is `PipelinedSyn.bsv` on the clock, with one thread as `Core.bsv`
  instantiates it: a step is a cycle in which every rule that can fire does,
  since what is forwarded depends on cycles.  An instruction is reduced to
  load/store, jump or ALU, to the register it writes (the one that is watched,
  another, none) and to whether it reads that register; its value to whether it
  is that of one watched instruction.  Which instruction comes next is left open
  at decode, and how long the memories take (`MemoryInputs`), but for what a
  request FIFO with one place allows.  `latest` is the register as the program
  has it and `stale` marks what was fetched before a jump that has been taken.
* **Caches** has `Cache32` twice, `Cache512`, the rules of `CacheInterface.bsv` and
  `MainMem` with its delay line, one action per rule or method.  A line is a function
  from offsets to words, and what the RAMs answer to a request (tag, dirty bit, data
  as they were then) is kept with the request.  **FlatMemory** is a memory with one
  request at a time; `Freshest` names the copy of a line that the data side would
  be given, which is the refinement mapping.
* **SerialPort** is the way of a character from `puts` to the line.  Core's rules
  (`requestMMIO`, `getBusResp`, `responseMMIO`) are steps of their own; the board
  (bus master, command registers, queue, transmitter) moves in one step, `Edge`, as
  on its clock.  A byte read at the falling edge is what `Edge` takes from the queue
  as it was before.  A frame lasts as long as it likes, from when the pointer has
  moved.  Characters are numbered, so that none can stand for another.
* **SerialTerminal** is the line of the simulation bit by bit: `UART_tx` and `UART_rx` on
  the clock's rising edge, uartdpi on its falling one, in the loop of `sim_main`.  What is
  sent, or typed, may pause; registers hold anything before reset, and some of them
  after it.  `uartdpi_write` ends the simulation when the pseudo-terminal is full or
  `fwrite` says that the log cannot be written; a file's log is written line by line.
  Whenever the buffer is written (`WriteOut`) the file may take only the front of it:
  `fwrite` may count a character that got no further than the buffer, and
  `uartdpi_close` does not look at what `fflush` and `fclose` say.
* **Words** (arithmetic and printing by hand), **Sorting** (both partitions, the bubble
  sort, merging), and **ImageTools** (ElfFile, elf2hex, ElfLoader, arrange_mem.py,
  convert.py) are operators.  **Programs** runs them, and the mains of the programs on
  one core, on inputs: a run is one step from a task to its outcome, which is what
  was printed and given to `exit`.  `init.S` calls `exit(0)` whatever `main` has done.
* **BspPrograms** has the programs on all cores as functions from a core's memory at
  its k-th `bsp_sync` to what it does before the next, over the barrier of BspBarrier
  and messages as RemoteMemory has them.  `late` says whether `bsp_sync` may end
  while words are in flight (as it does) or not.  The waiting loops of
  `dividesort_9c.c` and `sync_test.c` are taken to be long enough for the words in
  flight; the one of `dotproduct_9c.c` is commented out.

Most runs check conjunctions: `IInv` is the inductive invariant of a module that has
proofs, with its type invariant and the safety properties it is for (`RouterInv`,
`EngineInv`, `PipelineInv` and `MeshInv` are parts of it; `CachesInv` and `SwitchInv`, the
crossbar's, are inductive as they stand); `RoutinesRight`,
`ProgramsRight`, `ImagesRight`, `BspRight`, `SerialRight` and `TerminalRight` (the last two
together: `CharactersRight`) are what is owed of one kind of outcome.

Modules named `MC...` instantiate a model for TLC.  Definitions under the heading
"Wrong variant" are not part of a model: they are plausible errors, put in the
place of the definition that follows them to see that a property notices.

## 3. Runs

| Run | Configuration | What it shows |
|---|---|---|
| `arbiter` | 4 requesters, all request vectors | one winner, at most 3 losses in a row, refines the queue |
| `crossbar` | 3 ports, 2 flits | stale registers are never read, no input locks up, refines the one-flit switch |
| `router` | router (0,0), inputs E, S, L, two messages in a row on S, messages of 2 or 3 flits, buffers of 2, fair | nothing lost, duplicated, misrouted, overtaken or cut; grants agree with buffers; all leaves; refines WormholeRouter; the invariant of the proofs |
| `mesh` | 9 routers, buffers of 1; distribution by core 0, results of three cores to it, two messages that cross; fair | messages arrive whole and in order; the invariant of the proofs; one-way traffic always arrives; crossing traffic stops only face to face |
| `bsp_sync` | 3 cores, 2 calls, up to 2 flits, FIFO of 1 | START and END separate the phases; refines the two barriers |
| `bsp_sync_in_flight` | 2 cores, 1 call, 1 flit | *violated*: a core computes while a flit for it is in flight |
| `bsp_sync_clock` | 2 cores, 2 flits, FIFO of 1, access every cycle or slower, polls within 5 cycles, fair | no level is missed and every call returns; the invariant of the proofs |
| `put` | 2 cores; overlapping destinations, one round the end of memory; 2 calls of one core, of 16 words, 1 or 17 (refused); fair | refines RemoteMemory; error messages unreachable; the length field and counter at their limits; all words land, at the addresses of their calls |
| `pipeline` | loads, calls, branches, writes of other registers; all memories late or not | the epoch tells what is behind a jump; the register file catches up; operands are right while data memory is prompt; why that is (`IInv`) |
| `pipeline_forward` | load, write, use without jumps; data memory late or not | *violated*: a value can drop out of all forwarding paths |
| `caches` | two lines that share every place, words of two bytes, one word data, one instruction; fair | the data side sees a memory, instructions never stored to are as loaded, one line on its way per miss, every request is answered |
| `software` | tasks: words of 16 bits, arrays of 5, ELF files of 11 bytes; scenarios: all orders for 2 slaves, all at once for the source's sizes; the printing of the source and 20 characters; four bytes sent, ten typed | arithmetic, text, sorting, merging, self-tests and images are right; the BSP programs come to their result; what is printed reaches the line, and what is on the line the terminal and its log |

The last run holds four kinds of behaviour, told apart by the initial state: a
task, a BSP program, a program that prints through the serial port, or a talk over
the serial line.

**Bounds.**  Three ports are the fewest with a conflict at an output while a third
is stale; four requesters give the order room to be non-transitive.  The corner
router receives by each port only what XY routing sends there; the links compete for
the local output, and the core and the link from the east for the one to the south,
while the core's messages to the east pass by, and two messages in a row give a
hand-over at the TAIL; buffers of two (four in the source) fill with messages of three.
In `bsp_sync` two calls let values of the first meet the second, and two flits overfill
a FIFO of one.
The pipeline needs no bound: programs are endless and its states finitely many;
its FIFOs have the two places of `mkFIFO`, and one register and one operand stand
for all, since registers only meet by being equal and operands only stall together.
`BspSyncClock` needs no bound on calls: its state is finite.  RemotePut has the
source's widths (4096 words, 16 in a burst).  MaxMessages, MaxLen, MaxRounds,
MaxFlits and NetDepth only bound the runs.
The mesh has its real shape; its buffers of one (four in the source) make routers
block after few flits, and the messages of three are longer than what a router
holds of them.  Four distributed messages share links, and of three results two meet at a
router before the last, the third at the last.  Two lines that fall into the same set of every cache make
each access drive the other line out, which larger caches only do less often; L1Sets
and L2Sets differ so that tags and indices do.  Arithmetic is checked at 16 bits for
pairs of words that include both ends of the range, because the product of 32-bit
words is beyond TLC's integers; printing at 32.  Arrays of five words with one in front
and values 0 to 2 have all patterns of equal words.  Two slaves with blocks of two
words give every order of arrival; with the source's own sizes (eight slaves, 128
numbers) the supersteps are taken at once, for the result.  Twenty characters take
the 4-bit pointers past their end.  Bits of 24 cycles (434 in the source) make the one
cycle by which the two ends of the line differ count for more: below 21 bytes get lost.
With 434 `TerminalRight` holds too; that takes a million states and is no run of its own.

**Fairness.**  A rule that stays enabled fires (weak fairness): the compiler's
schedule attempts every rule in every cycle, and a rule that loses a conflict
does so to one that disables it.  Neighbours take flits that are offered and
finish messages they have begun; they need not begin one.  In BspSyncClock every
core goes on with its program and calls `bsp_sync` as often as the others, and
the mesh takes what is offered.  In RemotePut the network delivers.
In Mesh some rule fires when one can, which suffices as the traffic is finite.  In
Caches rules are weakly fair, but `connectCacheL1DL2` strongly: the rule for the
instruction side goes first, in cycles that are never all of them.  In BspPrograms
cores run and the network delivers; in SerialPort Core's rules fire, the clock
ticks and a frame ends.  SerialTerminal has safety properties only.

**An assumption about timing.**  `ClockAssumption` bounds a poll of the waiting loop
by `2 * AccessTime + 3` cycles: START lasts for the two accesses a core that
sends nothing makes after it has seen it, and three cycles in the wires.  The
bound is tight: with a `PollPeriod` of 6 and an `AccessTime` of 1 a core misses
START and no core returns.  The loop is a load and a branch, and between two
accesses of the sending code lie loads of the queue's pointers, so the compiled
firmware keeps it; nothing in the hardware enforces it.

**Findings.**  `bsp_sync_in_flight`: END is computed without asking the mesh
(`TopCore.bsv:60`), against README.md:65.
`pipeline_forward`: backpressure does not take care of all forwarding, against
`PipelinedSyn.bsv:263`.  When a load waits (a cache miss, a device, a message that
holds the memory's port), up to five instructions are before one that has read
the register file, and only the last two writes are kept.  The other way to lose
a value is the second place of `m2w`, which no path shows; it takes a gap behind
the producer.  `pipeline` shows that without waiting loads and stores there is
no error (`OperandIsLatestIfPrompt`).

**Observations.**  Not findings, since no document says otherwise:

* Messages that cross on a line can stop the mesh for good, two routers face to face,
  each with its one slot taken by a flit for the other (`StuckOnlyFaceToFace` says
  that in the run's traffic there is no other way).  There is another with more
  traffic: 4 to 1, 0 to 1 and 5 to 0, messages of 2, 3 and 6 flits and buffers of
  one, can stop in a ring round 0, 1, 4, 3; a simulation finds it, the run has not
  the room.  The programs send one to many or many to one, with a sync between.
* `getRouterSync`, made for the question that END does not ask, looks at input buffers and
  latches and not into the crossbar (`Router.bsv:222`); nothing calls it.
* `dotproduct_9c.c` and its variants do not wait for words in flight (the loop is
  commented out at :69); they are right if `bsp_sync` ends with nothing in flight,
  which is the case of `ResultsRight` that is checked for them.
* `dividesort.c:111` and `dividesort_9c.c:130` sort a word that is not of the array
  (one behind, one before it); `ExtraWordStaysOut` and `ResultsRight` say when this
  does no harm.  `thelie.c` prints the NUL behind its text.
* `matmul2.c:80` compares with 6969 what is 6973 if the load that is to be tested did not
  happen (it has added 4): this test passes whatever the machine does.  The second one,
  at :89, can fail.
* When nobody reads the simulation's terminal and its buffer is full, an assertion ends the
  simulation (`uartdpi.c:134`), and what was in the log's buffer is lost.
* `uartdpi_close` ignores the results of `fflush` and `fclose` (`uartdpi.c:102` to `:104`):
  when the log cannot be written at the end, what is left in the buffer (a last line
  without its end; for stdout more) is missing though the simulation ends well, in
  spite of the comment "Always ensure the log file is flushed".  `EndsWithEverything` has
  `~incomplete`, that no write has failed, as its condition for a complete log.
* The instruction cache is not told of stores: code that is stored to is not seen.
* On the board a read that the SPART does not answer blocks the bus; `dramtest.c`
  makes one.  The data register reads as the last byte received, not the oldest.

## 4. Proofs

All for every value of the constants, by TLAPS.

* **RouterPartsProofs.**  MatrixArbiter's `IInv`: besides types, the relation "beats" is
  transitive (totality and antisymmetry are built into the triangle), the
  diagonal is clear after `initialize`, and for each requester its losses in a
  row plus the number of those above it stay below `NumReq`.
  `ExactlyOneWinner` needs transitivity (a finite set of requesters has a first
  one); `BoundedWaiting` is the last conjunct.  Each lost call puts the winner,
  who was above, below the loser.

  CrossbarSwitch's `SwitchInv`: a token in `cbBuffer` stands for exactly one
  register that waits to be read; registers of a row agree; an offered flit
  fills its row; what is about to be cleared is an offer.  From it follow
  `InputFree` and the refinement of OneFlitSwitch.
* **BspSyncProofs.**  `IInv`: all cores are in the communication half of one call
  or in the gathering half (`Comm`, `Gather`); whatever stage of the wires says
  "all set" implies the first, "all clear" the second (`WiresTellPhase`); and
  while a core still waits, a later stage that has the news is not followed by
  the previous phase (`NoStaleClear`, `NoStaleSet`), without which the old
  values could come through after the new.  From it follow both barriers,
  `SendOnlyInside` and the refinement of BspBarrier.

* **RouterProofs.**  `RouterInv`, the run's smaller invariants, is not inductive.
  `IInv` adds where each message is: the flits of an input's buffer are the rest of
  what was sent behind what has left (`BuffersHoldTheRest`); an output that has an
  owner is in the middle of a message of that input, and no other input is
  (`OwnersUnderWay`); the last flit that went to an output, be it in the slot or a latch
  still, is the last its owner gave (`LastDepartedIsOwners`); and the arbiters stay orders
  (`ArbitersOrdered`), without which a grant might name nobody.  From it follow
  `ExactlyOnceInOrder`, `NoInterleaving`, and that each rule is a step of
  WormholeRouter or a stutter.
* **MeshProofs.**  For every traffic of whole messages and every depth of the buffers.
  `OrderInv`: every flit is once in the mesh, at the place its steps have led it to
  (`EachInPlace`); of two with the same way the later is not ahead (`NoneOvertakes`);
  wherever one flit of a message has been and the next has not, nothing else gets between
  (`Reserved`, `NothingBetween`); and an output belongs to the input of the one message
  that is passing it (`OwnersRight`).  Each rule takes one flit from the head of a place to
  the end of the next, so that one set of lemmas serves all of them, and only two
  things remain.  Ways that meet at a place outside the crossbar come there from one
  place, which is a fact about XY routing on nine routers; in the crossbar they come from up to five,
  and it is the owner that keeps a second message out.  At the place `got` `OrderInv`
  gives `MeshInv`: what core d has from core c is the beginning of what c has for
  it, in order, and messages do not mix.
* **BspSyncClockProofs.**  `NoPulseIsMissed`: no core overlooks a level of START or
  END.  As in BspSync all cores are in one of two halves (`Comm`, `Gather`), but here
  with cycles: how long a level has stood, on one side, and on the other
  how long a core may still take to its next access.  This is the place where
  `ClockAssumption` is needed, and the only one.
* **CachesProofs.**  `CachesInv` says at which stage the request of each cache is and
  what the queues between hold for it (`Stage1`, `Stage2`): that what a lookup has found is
  in its place still (`Missed`, `Lookup2`), and that a dirty line was written below
  before its place is taken (`Saved`).  The answers of the shared cache and the queue
  of who asked agree (`SourcesMatch`), and a copy that is not dirty is what is `Below`.
  The refinement maps FlatMemory's memory to the copy that is `Freshest`, and a
  rule that moves a line changes no word of that.  `InstructionsSafe`: a word that is
  never stored to is fetched as loaded, whatever happens around it.
* **RemotePutProofs.**  Every flit has a place in its stream (`Before`, `After`: words
  left, next address, receiver), and queue, FIFOs, network and engine each hold a
  `Chain` of flits that starts where the next one ends.  The engine's place is a
  number that exists rather than one that is computed: `burstCtr` alone does not
  tell 0 from MaxBurst.  `PackHead`'s fields are shown to come out as they went in, for
  every width.  `EngineIsNeverWrong`: no error message of FlitEngine can be written;
  `WordsLandWhereCalled`: every word in a memory is at the address, and at the core, that
  its call named.  That they land in order (`PutImplementsRemoteMemory`) rests on the
  `Trail` of a sender and a receiver, five places from the memory's port back to the
  queue: the words of the pair on it come after the last one written, each once and in
  order, and every word that is called for and not written is there (`InOrder`).  A step
  moves a word from the front of a place to the end of the next, writes the first, or
  adds a packet's words at the last.  That a message is not broken into at the receiver is
  `WordsJoined`: each word in line for a memory is behind the one in front of it in its
  message, and the first of a message behind the last of another.
* **PipelineProofs.**  For every set of instructions and every delay.  The epoch is
  right because what is stale is in front of what is not in d2e and f2d, and a jump of
  the program makes all of it stale (`EpochsInOrder`); `latest` is what the register
  file becomes when e2m and m2w are written back in order (`LatestOnItsWay`), which
  gives `RegisterFileRight`.  For `OperandsRightIfPrompt`: while data memory is prompt
  memory and writeback never wait, an instruction only stalls on a write that it can
  see, and one that has read an old value sees a newer one by some path; behind the
  second entry of d2e there is at most one more write to come, so that its write must
  not be in `wbForwardR2` yet (`OperandsInReach`).

The refinement of LeastRecentlyGranted (`ArbiterImplementsQueue`) counts: who beats
another has fewer above it, so that the numbers of those above are 0 to `NumReq - 1`,
each once, and are the places of the queue.

Assumptions: those of the modules, and no others.  They are at least one requester; one
to seven ports; a non-empty set of cores, ids of four bits and natural bounds; FIFOs
and caches with at least one place; that calls, requests and instructions have the fields
that they have.  The one about behaviour is `ClockAssumption` (section 3).

Only model-checked: when the mesh can stop (`StuckOnlyFaceToFace` speaks of ENABLED, and
holds for the traffics of the run only); the serial port and line; and everything about
liveness, which is beyond the prover.  What the programs, the sorting routines and the
tools compute is recursion over data (`Sorting` declares RECURSIVE operators) and stays
with TLC.

## 5. Not modelled, and the plan

Left out of modelled parts: `getRouterSync` and `getNoCSync`, which nothing calls; YX
routing, which `NetworkTypes.bsv` does not select; the pipeline's second thread,
which nothing turns on; reads of the SPART's receive queue and writes of its bit rate,
which no program makes; `requestI` and `requestD` of Core but as answers that
come late; parsing of arguments and of the bytes of ELF structures.

Left out for good:

* the ALU and decoder of `RVUtil.bsv` (data without control);
* `Pipelined.bsv` and `Mesh3X3.bsv`, which nothing instantiates;
* `encoding.h` and `elf.h`, which declare constants and structures, the largest files
  of the repository, and the assembly test macros: there is nothing in them that runs;
* the vendor's Verilog, tracing, and the test benches but that of the serial line, which
  drive what is modelled;
* `reverse.c`, whose input is commented out, `scratch_test.c` and `dramtest.c`
  (accesses to a device register or memory and a comparison), and the tests of one
  instruction each.

What could follow:

1. BspSync, RemotePut and the memory's other user, the core, in one: what a program
   may rely on after `bsp_sync`, given the finding above; `requestD` against `requestFE`.
2. A read and a register access of one core in flight together (`mmioreq` merges
   their answers without a tag; SerialPort has only programs that wait).
