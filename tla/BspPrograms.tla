---------------------------- MODULE BspPrograms ----------------------------
(***************************************************************************)
(* The programs of sw/progs/src that run on all cores: dotproduct (for 9   *)
(* cores, for 5 and for the board), dividesort_9c and sync_test.           *)
(*                                                                         *)
(* All cores run the same program: a computation, bsp_sync, a computation, *)
(* ...  What bsp_sync does to them is BspBarrier; it may end while words   *)
(* are in flight (scenario.late, what the code does) or not (what          *)
(* README.md says).  Messages are as RemoteMemory has them.  The shape of  *)
(* the data is a parameter; with the shapes of the source the supersteps   *)
(* are also taken by all cores at once (scenario.atOnce), one order of     *)
(* many but the whole computation.                                         *)
(***************************************************************************)
EXTENDS Words, Sorting

CONSTANTS Cores,      \* the cores of the scenarios that interleave
          Scenarios   \* [program, slaves, size, words, old, v1, v2, goal, late, atOnce]

VARIABLES scenario,       \* constant
          stage, round,   \* where bsp_sync has each core
          scratch,        \* the words from SCRATCH_START on, and the one before
          queue,          \* calls of bsp_put since the last bsp_sync
          flight,         \* words on their way from a core to another
          report,         \* what a core printed, and its codes to exit
          finished

bspVars == <<scenario, stage, round, scratch, queue, flight, report, finished>>

Barrier == INSTANCE BspBarrier WITH MaxRounds <- 4

Members == 0 .. scenario.slaves

ASSUME ScenariosAssumption == \A s \in Scenarios : s.atOnce \/ 0 .. s.slaves = Cores

-----------------------------------------------------------------------------
(* The computations: from a core's memory at the k-th bsp_sync to what it  *)
(* does before the next.                                                   *)

Put(core, dest, words) == [core |-> core, dest |-> dest, words |-> words]

Sends(m, puts) == [m |-> m, puts |-> puts, printed |-> <<>>, exits |-> <<>>]

Prints(m, text) == [m |-> m, puts |-> <<>>, printed |-> text, exits |-> <<>>]

\* Wrong variant: each slave is sent all that is left.
DistributeRest(s, v, dest) ==
  [i \in 1 .. s.slaves |-> Put(i, dest, SubSeq(v, s.size * (i - 1) + 1, Len(v)))]

\* A block of v to each slave.
Distribute(s, v, dest) ==
  [i \in 1 .. s.slaves |-> Put(i, dest, SubSeq(v, s.size * (i - 1) + 1, s.size * i))]

Block(m, from, size) == [k \in 1 .. size |-> m[from + k - 1]]

PrintsDigits(words) == [k \in DOMAIN words |-> 48 + words[k]]

CoreFinished == <<"Core 1: Finished", "Core 2: Finished", "Core 3: Finished", "Core 4: Finished">>

\* The slaves sort from the word before the scratch memory on.
dividesort_9c(s, me, k, m) ==
  CASE k = 0 /\ me = 0 -> Sends(m, Distribute(s, s.v1, 0))
    [] k = 1 /\ me # 0 -> LET sorted == quick_sort(m, -1, s.size - 1, FALSE)
                          IN  Sends(sorted, <<Put(0, s.size * (me - 1), Block(sorted, 0, s.size))>>)
    [] k = 2 /\ me = 0 -> Prints(m, <<"final sorted: ">> \o PrintsDigits(Merged(m, s.slaves, s.size)))
    [] k = 2 /\ me \in DOMAIN CoreFinished -> Prints(m, <<CoreFinished[me]>>)
    [] OTHER -> Sends(m, <<>>)

PartialSum(m, size) ==
  FoldLeft(LAMBDA sum, i : ToWord(sum + multiply(m[i], m[i + size])), 0, Upto(0, size - 1))

TotalSum(m, slaves) == FoldLeft(LAMBDA sum, i : ToWord(sum + m[i]), 0, Upto(1, slaves))

Verdict(s, sum) == IF sum = s.goal THEN "True" ELSE "False"

Led(s, sum) == IF sum = s.goal THEN "LED 1" ELSE "LED 0"

\* A slave's sum goes to a word of its own of core 0.
SumsPart(s, me, m) == LET sum == PartialSum(m, s.size)
                      IN  Sends([m EXCEPT ![0] = sum], <<Put(0, me, <<sum>>)>>)

\* Only the program for 9 cores gives a code to exit.
dotproduct_9c(s, me, k, m) ==
  LET sum == TotalSum(m, s.slaves)
  IN  CASE k = 0 /\ me = 0 -> Sends(m, Distribute(s, s.v1, 0))
        [] k = 1 /\ me = 0 -> Sends(m, Distribute(s, s.v2, s.size))
        [] k = 2 /\ me # 0 -> SumsPart(s, me, m)
        [] k = 3 /\ me = 0 -> [Prints([m EXCEPT ![0] = sum], <<"Result is: ", Verdict(s, sum)>>)
                                 EXCEPT !.exits = IF sum = s.goal THEN <<0>> ELSE <<1>>]
        [] OTHER -> Sends(m, <<>>)

\* The slaves print what they were sent.
dotproduct_5c(s, me, k, m) ==
  LET sum == TotalSum(m, s.slaves)
  IN  CASE k = 0 /\ me = 0 -> Sends(m, Distribute(s, s.v1, 0))
        [] k = 1 /\ me = 0 -> Sends(m, Distribute(s, s.v2, s.size))
        [] k = 2 /\ me # 0 -> [SumsPart(s, me, m) EXCEPT !.printed = PrintsDigits(Block(m, 0, s.size))]
        [] k = 3 /\ me = 0 -> Prints([m EXCEPT ![0] = sum], <<"Result is: ", Verdict(s, sum)>>)
        [] OTHER -> Sends(m, <<>>)

\* The LEDs of the board show how far it is.
dotproduct_9c_hw(s, me, k, m) ==
  LET sum == TotalSum(m, s.slaves)
  IN  CASE k = 0 /\ me = 0 -> [Sends(m, Distribute(s, s.v1, 0)) EXCEPT !.printed = <<"LED 0">>]
        [] k = 1 /\ me = 0 -> Sends(m, Distribute(s, s.v2, s.size))
        [] k = 2 /\ me # 0 -> SumsPart(s, me, m)
        [] k = 3 /\ me = 0 -> Prints([m EXCEPT ![0] = sum],
                                     <<"Result is: ", Led(s, sum), Verdict(s, sum)>>)
        [] OTHER -> Sends(m, <<>>)

sync_test(s, me, k, m) ==
  CASE k = 0 /\ me = 0 -> Sends(m, <<Put(1, 0, s.v1)>>)
    [] k = 1 /\ me = 0 -> Prints(m, <<"Core 0: Finished">>)
    [] k = 1 /\ me = 1 -> Prints(m, PrintsDigits(Block(m, 0, Len(s.v1))) \o <<"Core 1: Finished">>)
    [] OTHER -> Sends(m, <<>>)

Work(s, me, k, m) ==
  CASE s.program = "dividesort_9c" -> dividesort_9c(s, me, k, m)
    [] s.program = "sync_test" -> sync_test(s, me, k, m)
    [] s.program = "dotproduct_9c" -> dotproduct_9c(s, me, k, m)
    [] s.program = "dotproduct_5c" -> dotproduct_5c(s, me, k, m)
    [] s.program = "dotproduct_9c_hw" -> dotproduct_9c_hw(s, me, k, m)

\* Wrong variants: core 0 does not take part in the last bsp_sync; nobody waits.
SyncsButMaster(s, me) == IF me = 0 THEN 1 ELSE 2
WaitsNever(s, me, k) == FALSE

\* Calls of bsp_sync.
Syncs(s, me) == CASE s.program = "sync_test" -> 1 [] s.program = "dividesort_9c" -> 2
                  [] s.program = "dotproduct_9c" -> 3 [] OTHER -> 4

\* Whether a core counts to 1000 before it looks at its memory: for the words
\* in flight, which we take to have arrived by then.
Waits(s, me, k) == \/ s.program = "dividesort_9c" /\ ((k = 1 /\ me # 0) \/ k = 2)
                   \/ s.program = "sync_test" /\ k = 1 /\ me = 1

-----------------------------------------------------------------------------
(* bsp.h and the network.                                                  *)

\* bsp_put does nothing when the length is out of bounds.
Queued(puts) == SelectSeq(puts, LAMBDA p : Len(p.words) \in 1 .. 16)

Write(m, write) == [m EXCEPT ![write.addr] = write.word]

WritesOf(put) == [i \in DOMAIN put.words |->
                    [addr |-> put.dest + i - 1, word |-> put.words[i], first |-> i = 1]]

NoFlight(to) == \A c \in Members : flight[c, to] = <<>>

-----------------------------------------------------------------------------
BspInit ==
  /\ scenario \in Scenarios
  /\ stage = [c \in Members |-> "computing"]
  /\ round = [c \in Members |-> 0]
  /\ scratch = [c \in Members |-> [a \in -1 .. scenario.words - 1 |-> scenario.old]]
  /\ queue = [c \in Members |-> <<>>]
  /\ flight = [pair \in Members \X Members |-> <<>>]
  /\ report = [c \in Members |-> [printed |-> <<>>, exits |-> <<>>]]
  /\ finished = [c \in Members |-> FALSE]

\* After main returns, init.S calls exit.
Reported(c, done, last) ==
  [printed |-> report[c].printed \o done.printed,
   exits |-> report[c].exits \o done.exits \o (IF last THEN <<0>> ELSE <<>>)]

\* A core computes, and calls bsp_sync or is done.
Compute(c) ==
  /\ ~scenario.atOnce
  /\ stage[c] = "computing" /\ ~finished[c]
  /\ Waits(scenario, c, round[c]) => NoFlight(c)
  /\ LET done == Work(scenario, c, round[c], scratch[c])
         last == round[c] = Syncs(scenario, c)
     IN  /\ scratch' = [scratch EXCEPT ![c] = done.m]
         /\ queue' = [queue EXCEPT ![c] = Queued(done.puts)]
         /\ report' = [report EXCEPT ![c] = Reported(c, done, last)]
         /\ IF last THEN finished' = [finished EXCEPT ![c] = TRUE] /\ UNCHANGED <<stage, round>>
            ELSE Barrier!Enter(c) /\ UNCHANGED finished
  /\ UNCHANGED <<scenario, flight>>

BeginSending(c) == /\ Barrier!Communicate(c)
                   /\ UNCHANGED <<scenario, scratch, queue, flight, report, finished>>

SendPut(c) ==
  /\ stage[c] = "communicating" /\ queue[c] # <<>>
  /\ LET put == Head(queue[c])
     IN  flight' = [flight EXCEPT ![c, put.core] = @ \o WritesOf(put)]
  /\ queue' = [queue EXCEPT ![c] = Tail(@)]
  /\ UNCHANGED <<scenario, stage, round, scratch, report, finished>>

EndSending(c) == /\ queue[c] = <<>>
                 /\ Barrier!Finish(c)
                 /\ UNCHANGED <<scenario, scratch, queue, flight, report, finished>>

LeaveSync(c) == /\ scenario.late \/ \A d \in Members : NoFlight(d)
                /\ Barrier!Leave(c)
                /\ UNCHANGED <<scenario, scratch, queue, flight, report, finished>>

\* Messages of different cores do not mix at the receiver.
Amid(c, d) == flight[c, d] # <<>> /\ ~Head(flight[c, d]).first

Land(c, d) ==
  /\ flight[c, d] # <<>>
  /\ \A other \in Members \ {c} : ~Amid(other, d)
  /\ scratch' = [scratch EXCEPT ![d] = Write(@, Head(flight[c, d]))]
  /\ flight' = [flight EXCEPT ![c, d] = Tail(@)]
  /\ UNCHANGED <<scenario, stage, round, queue, report, finished>>

\* All cores at once: they compute, then everything is sent and arrives.
ComputeAll ==
  /\ scenario.atOnce
  /\ \A c \in Members : stage[c] = "computing" /\ ~finished[c]
  /\ LET done(c) == Work(scenario, c, round[c], scratch[c])
         last(c) == round[c] = Syncs(scenario, c)
     IN  /\ scratch' = [c \in Members |-> done(c).m]
         /\ queue' = [c \in Members |-> Queued(done(c).puts)]
         /\ report' = [c \in Members |-> Reported(c, done(c), last(c))]
         /\ round' = [c \in Members |-> IF last(c) THEN round[c] ELSE round[c] + 1]
         /\ finished' = [c \in Members |-> last(c)]
         /\ stage' = [c \in Members |-> IF last(c) THEN "computing" ELSE "exchanging"]
  /\ UNCHANGED <<scenario, flight>>

WithPut(m, put) == [a \in DOMAIN m |-> IF a - put.dest + 1 \in DOMAIN put.words
                                      THEN put.words[a - put.dest + 1] ELSE m[a]]

DeliverAll ==
  /\ scenario.atOnce
  /\ \A c \in Members : stage[c] = "exchanging"
  /\ LET from(c, d) == SelectSeq(queue[c], LAMBDA put : put.core = d)
     IN  scratch' = [d \in Members |->
           FoldLeft(LAMBDA m, k : FoldLeft(WithPut, m, from(k, d)), scratch[d], Upto(0, scenario.slaves))]
  /\ queue' = [c \in Members |-> <<>>]
  /\ stage' = [c \in Members |-> "computing"]
  /\ UNCHANGED <<scenario, round, flight, report, finished>>

CoreStep(c) == Compute(c) \/ BeginSending(c) \/ SendPut(c) \/ EndSending(c) \/ LeaveSync(c)

BspNext == \/ \E c \in Members : CoreStep(c) \/ \E d \in Members : Land(c, d)
           \/ ComputeAll \/ DeliverAll

\* Cores run, and the network delivers.  Every step changes its subscript.
\* (Of the supersteps taken at once nothing is assumed: they are there for
\* their results.)
BspFairness ==
  \A c \in Cores : /\ WF_<<stage, queue, finished>>(c \in Members /\ CoreStep(c))
                    /\ WF_flight(c \in Members /\ \E d \in Members : Land(d, c))

-----------------------------------------------------------------------------
Waiting == {"dividesort_9c", "sync_test"}

SumOf(v) == FoldLeft(LAMBDA a, b : a + b, 0, v)

\* What a core should have printed in the end, and its first code to exit.
RightReport(s, c) ==
  CASE s.program = "sync_test" ->
         CASE c = 0 -> <<"Core 0: Finished">>
           [] c = 1 -> PrintsDigits(s.v1) \o <<"Core 1: Finished">>
           [] OTHER -> <<>>
    [] s.program = "dividesort_9c" ->
         IF c = 0 THEN <<"final sorted: ">> \o [k \in DOMAIN s.v1 |-> 48 + KthOf(s.v1, k)]
         ELSE IF c \in DOMAIN CoreFinished THEN <<CoreFinished[c]>> ELSE <<>>
    [] s.program = "dotproduct_9c" -> IF c = 0 THEN <<"Result is: ", "True">> ELSE <<>>
    [] s.program = "dotproduct_9c_hw" -> IF c = 0 THEN <<"LED 0", "Result is: ", "LED 1", "True">> ELSE <<>>
    [] OTHER -> IF c = 0 THEN <<"Result is: ", "True">>
                ELSE PrintsDigits(SubSeq(s.v1, s.size * (c - 1) + 1, s.size * c))

\* The programs come to the right result in whatever order cores compute and
\* words arrive: dotproduct, which does not wait, if bsp_sync ends with
\* nothing in flight; dividesort and sync_test, which do, anyway.
ResultsRight ==
  ~scenario.late \/ scenario.program \in Waiting =>
    \A c \in Members : finished[c] => /\ report[c].printed = RightReport(scenario, c)
                                      /\ Head(report[c].exits) = 0

\* bsp_put checks neither that its queue of 1024 flits (bsp.h) has room nor
\* that the words fit the scratch memory, and drops a call of more than 16
\* words: no call of the programs is dropped, and none fails to fit.
PutsFit ==
  \A c \in Members : stage[c] = "computing" /\ ~finished[c] =>
    LET puts == Work(scenario, c, round[c], scratch[c]).puts
    IN  /\ SumOf([i \in DOMAIN puts |-> Len(puts[i].words) + 2]) <= 1024
        /\ \A i \in DOMAIN puts : /\ Len(puts[i].words) \in 1 .. 16
                                  /\ puts[i].dest \in 0 .. scenario.words - Len(puts[i].words)

\* The programs on all cores put what fits and come to their result.
BspRight == ResultsRight /\ PutsFit

\* Every core gets through all of its supersteps: no core waits in bsp_sync
\* for one that does not come.
EveryCoreFinishes == <>(scenario.atOnce \/ \A c \in Members : finished[c])

=============================================================================
