------------------------------ MODULE Pipeline -------------------------------
(***************************************************************************)
(* hw/core/PipelinedSyn.bsv with one thread (Core.bsv: mkPipelined(False)):*)
(* fetch, decode, execute, memory and writeback, the FIFOs between them,   *)
(* the wires and registers that forward results, and the epoch that tells  *)
(* the instructions behind a taken jump.                                   *)
(*                                                                         *)
(* A step is a clock cycle in which every rule that can fire does: the     *)
(* rules do not exclude each other, and what they read is the state at the *)
(* beginning of the cycle, but for what the source takes through wires,    *)
(* bypass FIFOs and Ehrs.  The memories may keep the pipeline waiting.     *)
(*                                                                         *)
(* An instruction is what the control looks at: its kind, whether it       *)
(* writes the register "r", another one or none, and whether it reads r.   *)
(* Registers meet only by being the same or not, two operands only by      *)
(* stalling together, so one register and one operand stand for all.       *)
(* Instead of numbers the register holds "watched", the result of one      *)
(* instruction of the program, chosen freely, or "other"; what the data    *)
(* field of a load holds before its response is "none".                    *)
(***************************************************************************)
EXTENDS Naturals, Sequences, FiniteSetsExt, Functions

CONSTANTS Instructions,  \* the program is any sequence of these
          ImemLate       \* may instructions come later than in the next cycle?

ASSUME InstructionsAssumption ==
  Instructions \in SUBSET [kind : {"mem", "control", "alu"},
                           rd : {"none", "r", "another"}, reads : BOOLEAN]
ASSUME ImemLateAssumption == ImemLate \in BOOLEAN

VARIABLES f2d, d2e, e2m, m2w,                    \* FIFOs of two places
          epoch,                                 \* epochT0
          rf,                                    \* the register
          memForwardR, wbForwardR, wbForwardR2,
          watching,   \* has the instruction to watch been chosen?
          latest,     \* history: the register as the program has it
          late        \* history: has data memory kept an instruction waiting?

stages   == <<f2d, d2e, e2m, m2w>>
forwards == <<memForwardR, wbForwardR, wbForwardR2>>
vars     == <<stages, epoch, rf, forwards, watching, latest, late>>

Values    == {"watched", "other", "none"}
FifoDepth == 2

NoForward == [data |-> "other", data_valid |-> FALSE, match |-> FALSE]

Init == /\ f2d = <<>> /\ d2e = <<>> /\ e2m = <<>> /\ m2w = <<>>
        /\ epoch = 0
        /\ rf = "other"
        /\ memForwardR = NoForward /\ wbForwardR = NoForward /\ wbForwardR2 = NoForward
        /\ watching = FALSE
        /\ latest = "other"
        /\ late = FALSE

notEmpty(fifo) == fifo # <<>>

\* Wrong variant: takes one more.
notOverfull(fifo) == Len(fifo) <= FifoDepth

notFull(fifo) == Len(fifo) < FifoDepth

-----------------------------------------------------------------------------
Path(e, match) == [data       |-> IF e.kind = "mem" THEN "none" ELSE e.value,
                   data_valid |-> e.kind = "alu",
                   match      |-> match]

\* Wrong variant: forwards from poisoned instructions too.
ForwardPoisoned(fifo) ==
  IF notEmpty(fifo) THEN Path(Head(fifo), Head(fifo).rd = "r") ELSE NoForward

\* wbForwardApply and memForwardApply: the wires show the first entry.  A
\* forward matches (prodMatches) if its rd is valid and the one that is read.
Forward(fifo) ==
  IF notEmpty(fifo)
  THEN Path(Head(fifo), Head(fifo).rd = "r" /\ ~Head(fifo).poisoned)
  ELSE NoForward

memForward == Forward(e2m)
wbForward  == Forward(m2w)

\* What an instruction that reads the register takes: the first match.
FirstMatch(paths, rv) ==
  LET matches == {p \in 1 .. Len(paths) : paths[p].match}
  IN  IF matches = {} THEN rv ELSE paths[Min(matches)].data

\* Wrong variant: without the last of the registers.
OperandWithoutR2(e) == FirstMatch(<<memForward, memForwardR, wbForward, wbForwardR>>, e.rv)

OperandOf(e) ==
  FirstMatch(<<memForward, memForwardR, wbForward, wbForwardR, wbForwardR2>>, e.rv)

Stall(e) == e.reads /\ \/ memForward.match /\ ~memForward.data_valid
                       \/ wbForward.match /\ ~wbForward.data_valid

Executes == notEmpty(d2e) /\ notFull(e2m) /\ ~Stall(Head(d2e))

\* The instruction that executes is of the program, not behind a jump.
InEpoch(e) == e.epoch = epoch

\* Wrong variant: instructions behind a jump jump as well.
RedirectsAlways(taken) == Executes /\ taken /\ Head(d2e).kind = "control"

Redirects(taken) == Executes /\ taken /\ Head(d2e).kind = "control" /\ InEpoch(Head(d2e))

\* Poisoned instructions make no requests and wait for no responses.
NeedsMemory(e) == e.kind = "mem" /\ ~e.poisoned

MemoryFires(accept) ==
  notEmpty(e2m) /\ notFull(m2w) /\ (NeedsMemory(Head(e2m)) => accept)

WritebackFires(respond) ==
  notEmpty(m2w) /\ (NeedsMemory(Head(m2w)) => respond)

\* Wrong variant: instructions behind a jump write as well.
WritesAlways(e) == e.rd # "none"

\* With valid_rd, rd # 0 and not poisoned.
Writes(e) == e.rd # "none" /\ ~e.poisoned

Decodes(instrReady) == instrReady /\ notEmpty(f2d) /\ notFull(d2e)

Fetches(fetchReady) == fetchReady /\ notFull(f2d)

Drop(fifo, fires) == IF fires THEN Tail(fifo) ELSE fifo

\* History: what has been fetched when the program turns elsewhere is stale.
Stale(fifo, turns) == [i \in 1 .. Len(fifo) |-> [fifo[i] EXCEPT !.stale = @ \/ turns]]

-----------------------------------------------------------------------------
\* The rules, each with the part of the next state that it determines.

\* The epoch is read after execute has written it.
fetchT0(fetchReady, instrReady, taken) ==
  f2d' = Stale(Drop(f2d, Decodes(instrReady)), Redirects(taken))
           \o IF Fetches(fetchReady) THEN <<[epoch |-> epoch', stale |-> FALSE]>> ELSE <<>>

Decoded(i) == [kind  |-> i.kind, rd |-> i.rd, reads |-> i.reads,
               rv    |-> IF i.reads THEN rf ELSE "other",
               epoch |-> Head(f2d).epoch, stale |-> Head(f2d).stale]

decode(instrReady, taken) ==
  \E new \in IF Decodes(instrReady) THEN {<<Decoded(i)>> : i \in Instructions} ELSE {<<>>} :
    d2e' = Stale(Drop(d2e, Executes) \o new, Redirects(taken))

\* The condition of a jump that writes a register is always true; that of
\* instructions that do not control anything never.
MayTake(e, taken) == IF e.kind = "control" THEN taken \/ e.rd = "none" ELSE ~taken

\* The instruction of the program that is watched writes the register.
MayWatch(e, watch) == watch => e.rd = "r" /\ ~e.stale /\ ~watching

Executed(e, watch) ==
  [kind  |-> e.kind, rd |-> e.rd, poisoned |-> ~InEpoch(e),
   value |-> IF watch THEN "watched" ELSE "other"]

execute(taken, watch, accept) ==
  /\ epoch' = IF Redirects(taken) THEN 1 - epoch ELSE epoch
  /\ IF Executes
     THEN LET e == Head(d2e)
          IN  /\ MayTake(e, taken)
              /\ MayWatch(e, watch)
              /\ watching' = (watching \/ watch)
              /\ e2m' = Append(Drop(e2m, MemoryFires(accept)), Executed(e, watch))
              /\ latest' = IF e.rd = "r" /\ ~e.stale THEN Executed(e, watch).value ELSE latest
     ELSE /\ ~taken /\ ~watch
          /\ e2m' = Drop(e2m, MemoryFires(accept))
          /\ UNCHANGED <<watching, latest>>

memory(accept, respond) ==
  m2w' = Drop(m2w, WritebackFires(respond))
           \o IF MemoryFires(accept) THEN <<Head(e2m)>> ELSE <<>>

writeback(respond) ==
  LET e      == Head(m2w)
      writes == WritebackFires(respond) /\ Writes(e)
      toR    == writes /\ e.rd = "r"
      ovr    == [data |-> e.value, data_valid |-> TRUE, match |-> toR]
  IN  /\ rf' = IF toR THEN e.value ELSE rf
      /\ wbForwardR'  = IF writes THEN ovr ELSE wbForwardR    \* wbForwardCanonicalize
      /\ wbForwardR2' = IF writes THEN wbForwardR ELSE wbForwardR2
      /\ memForwardR' = memForward

-----------------------------------------------------------------------------
\* toImem, toDmem and toMMIO hold one request: they are full only if that of
\* an earlier entry has not been taken, which then has no response either.
MemoryInputs(mayWait) ==
  {[ready |-> TRUE, answer |-> TRUE]} \cup
  IF mayWait THEN [ready : BOOLEAN, answer : {FALSE}] ELSE {}

WaitsForData == notEmpty(m2w) /\ NeedsMemory(Head(m2w))

Cycle(imem, dmem, taken, watch) ==
  /\ execute(taken, watch, dmem.ready)
  /\ fetchT0(imem.ready, imem.answer, taken)
  /\ decode(imem.answer, taken)
  /\ memory(dmem.ready, dmem.answer)
  /\ writeback(dmem.answer)
  /\ late' = (late \/ ~dmem.answer)

Next == \E imem \in MemoryInputs(ImemLate /\ notEmpty(f2d)),
           dmem \in MemoryInputs(WaitsForData),
           taken, watch \in BOOLEAN : Cycle(imem, dmem, taken, watch)

Spec == Init /\ [][Next]_vars

-----------------------------------------------------------------------------
Forwards == [data : Values, data_valid : BOOLEAN, match : BOOLEAN]

IsFifo(fifo, entries) == fifo \in Seq(entries) /\ Len(fifo) <= FifoDepth

\* The state is made of the values that the FIFOs and registers are declared for.
TypeOK ==
  LET fetched  == [epoch : {0, 1}, stale : BOOLEAN]
      decoded  == [kind : {"mem", "control", "alu"}, rd : {"none", "r", "another"},
                   reads : BOOLEAN, rv : Values, epoch : {0, 1}, stale : BOOLEAN]
      executed == [kind : {"mem", "control", "alu"}, rd : {"none", "r", "another"},
                   poisoned : BOOLEAN, value : Values]
  IN  /\ IsFifo(f2d, fetched) /\ IsFifo(d2e, decoded)
      /\ IsFifo(e2m, executed) /\ IsFifo(m2w, executed)
      /\ epoch \in {0, 1} /\ rf \in Values /\ latest \in Values /\ {watching, late} \subseteq BOOLEAN
      /\ memForwardR \in Forwards /\ wbForwardR \in Forwards /\ wbForwardR2 \in Forwards

\* An instruction of the program that executes reads the value of the
\* instruction before it that wrote the register last, wherever that value is
\* at the time: on a wire, in a forwarding register or in the register file.
OperandIsLatest ==
  LET e == Head(d2e)
  IN  Executes /\ e.reads /\ ~e.stale => OperandOf(e) = latest

\* So it does as long as loads and stores get their answers in the next cycle.
OperandIsLatestIfPrompt == ~late => OperandIsLatest

\* The one bit of epoch tells exactly the instructions that were fetched
\* before the program went elsewhere from those that came after.
SquashExactly == notEmpty(d2e) => (~InEpoch(Head(d2e)) <=> Head(d2e).stale)

\* The stages hold what they are declared for, and the epoch is right.
PipelineInv == TypeOK /\ SquashExactly

\* When no write to the register is on its way, the register file holds what
\* the program wrote last: nothing got lost, came late or out of order, or was
\* written by an instruction behind a jump.
RegisterFileCatchesUp ==
  (\A e \in Range(e2m) \cup Range(m2w) : e.rd = "r" => e.poisoned) => rf = latest

\* What has been fetched and not executed, the oldest first: what is stale has
\* the other epoch, and nothing is stale behind what is not.
StaleFirst(fifo) == \A i, j \in 1 .. Len(fifo) : i < j /\ fifo[j].stale => fifo[i].stale

EpochsInOrder ==
  /\ \A i \in 1 .. Len(d2e) : ~InEpoch(d2e[i]) <=> d2e[i].stale
  /\ \A i \in 1 .. Len(f2d) : ~InEpoch(f2d[i]) <=> f2d[i].stale
  /\ StaleFirst(d2e) /\ StaleFirst(f2d)
  /\ \A i \in 1 .. Len(d2e), j \in 1 .. Len(f2d) : f2d[j].stale => d2e[i].stale

\* The register when the instructions of a FIFO have written it, one by one.
Updated(e, value) == IF e.rd = "r" /\ ~e.poisoned THEN e.value ELSE value

LastWrite(fifo, value) ==
  CASE Len(fifo) = 0 -> value
    [] Len(fifo) = 1 -> Updated(fifo[1], value)
    [] OTHER         -> Updated(fifo[2], Updated(fifo[1], value))

\* What has been executed and not written back makes the register file right.
LatestOnItsWay == latest = LastWrite(e2m, LastWrite(m2w, rf))

\* The forwarding registers behind writeback have what the register file has.
ForwardsWritten ==
  /\ wbForwardR.match => wbForwardR.data = rf
  /\ wbForwardR2.match /\ ~wbForwardR.match => wbForwardR2.data = rf

\* While data memory is prompt memory and writeback never wait, and an
\* instruction has a value of the register that is old only if a newer one can
\* be seen: the first that waits in d2e by all paths, the second, behind which
\* there is one more write to come, before the last forwarding register.
OperandsInReach ==
  ~late => /\ Len(e2m) <= 1 /\ Len(m2w) <= 1 /\ memForwardR = wbForward
           /\ Len(d2e) = 2 => e2m = <<>>
           /\ Len(d2e) >= 1 /\ d2e[1].reads =>
                \/ memForward.match \/ wbForward.match \/ wbForwardR.match \/ wbForwardR2.match
                \/ d2e[1].rv = rf
           /\ Len(d2e) = 2 /\ d2e[2].reads =>
                wbForward.match \/ wbForwardR.match \/ d2e[2].rv = rf

\* The inductive invariant.
IInv == /\ PipelineInv /\ EpochsInOrder /\ LatestOnItsWay
        /\ ForwardsWritten /\ OperandsInReach

=============================================================================
