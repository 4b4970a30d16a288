--------------------------- MODULE PipelineProofs ----------------------------
(***************************************************************************)
(* The pipeline, for every set of instructions and every delay: the epoch  *)
(* bit, the register file, and the operands while data memory is prompt.   *)
(***************************************************************************)
EXTENDS Pipeline, SequenceTheorems, TLAPS

Fetched == [epoch : {0, 1}, stale : BOOLEAN]

Waiting == [kind : {"mem", "control", "alu"}, rd : {"none", "r", "another"},
            reads : BOOLEAN, rv : Values, epoch : {0, 1}, stale : BOOLEAN]

Done == [kind : {"mem", "control", "alu"}, rd : {"none", "r", "another"},
         poisoned : BOOLEAN, value : Values]

\* What a FIFO holds when its first entry leaves or not, and one comes or not.
Queue(fifo, drop, push, new) ==
  (IF drop = 1 THEN Tail(fifo) ELSE fifo) \o (IF push = 1 THEN <<new>> ELSE <<>>)

Moved(fifo, next, drop, push, new) ==
  /\ Len(next) = Len(fifo) - drop + push
  /\ \A i \in 1 .. Len(fifo) - drop : next[i] = fifo[i + drop]
  /\ push = 1 => next[Len(fifo) - drop + 1] = new

LEMMA QueueMoves ==
  ASSUME NEW S, NEW fifo \in Seq(S), NEW drop \in {0, 1}, drop <= Len(fifo),
         NEW push \in {0, 1}, NEW new \in S
  PROVE  /\ Queue(fifo, drop, push, new) \in Seq(S)
         /\ Moved(fifo, Queue(fifo, drop, push, new), drop, push, new)
<1>1. PICK kept : kept = IF drop = 1 THEN Tail(fifo) ELSE fifo
  OBVIOUS
<1>2. /\ kept \in Seq(S) /\ Len(fifo) \in Nat /\ Len(kept) = Len(fifo) - drop
      /\ \A i \in 1 .. Len(fifo) - drop : kept[i] = fifo[i + drop]
  <2>1. CASE drop = 1
    <3>1. fifo # <<>>
      BY <2>1
    <3> QED
      BY <1>1, <2>1, <3>1, HeadTailProperties
  <2>2. CASE drop = 0
    BY <1>1, <2>2
  <2> QED
    BY <2>1, <2>2
<1>3. CASE push = 1
  <2>1. Queue(fifo, drop, push, new) = kept \o <<new>>
    BY <1>1, <1>3 DEF Queue
  <2>2. /\ kept \o <<new>> \in Seq(S) /\ Len(kept \o <<new>>) = Len(kept) + 1
        /\ \A i \in 1 .. Len(kept) : (kept \o <<new>>)[i] = kept[i]
        /\ (kept \o <<new>>)[Len(kept) + 1] = new
    BY <1>2
  <2> QED
    BY <1>2, <1>3, <2>1, <2>2 DEF Moved
<1>4. CASE push = 0
  <2>1. Queue(fifo, drop, push, new) = kept \o <<>>
    BY <1>1, <1>4 DEF Queue
  <2>2. kept \o <<>> = kept
    BY <1>2
  <2> QED
    BY <1>2, <1>4, <2>1, <2>2 DEF Moved
<1> QED
  BY <1>3, <1>4

LEMMA StaleFetched ==
  ASSUME NEW fifo \in Seq(Fetched), NEW turns \in BOOLEAN
  PROVE  /\ Stale(fifo, turns) \in Seq(Fetched) /\ Len(Stale(fifo, turns)) = Len(fifo)
         /\ \A i \in 1 .. Len(fifo) :
              /\ Stale(fifo, turns)[i].epoch = fifo[i].epoch
              /\ Stale(fifo, turns)[i].stale <=> fifo[i].stale \/ turns
<1>1. Len(fifo) \in Nat /\ \A i \in 1 .. Len(fifo) : fifo[i] \in Fetched
  BY ElementOfSeq
<1>2. Stale(fifo, turns) = [i \in 1 .. Len(fifo) |-> [fifo[i] EXCEPT !.stale = fifo[i].stale \/ turns]]
  BY DEF Stale
<1>3. ASSUME NEW i \in 1 .. Len(fifo)
      PROVE  /\ Stale(fifo, turns)[i] \in Fetched
             /\ Stale(fifo, turns)[i].epoch = fifo[i].epoch
             /\ Stale(fifo, turns)[i].stale <=> fifo[i].stale \/ turns
  BY <1>1, <1>2 DEF Fetched
<1>4. Stale(fifo, turns) \in [1 .. Len(fifo) -> Fetched]
  BY <1>2, <1>3
<1>5. Stale(fifo, turns) \in Seq(Fetched) /\ Len(Stale(fifo, turns)) = Len(fifo)
  BY <1>1, <1>4
<1> QED
  BY <1>3, <1>5

LEMMA StaleWaiting ==
  ASSUME NEW fifo \in Seq(Waiting), NEW turns \in BOOLEAN
  PROVE  /\ Stale(fifo, turns) \in Seq(Waiting) /\ Len(Stale(fifo, turns)) = Len(fifo)
         /\ \A i \in 1 .. Len(fifo) :
              /\ Stale(fifo, turns)[i].epoch = fifo[i].epoch
              /\ Stale(fifo, turns)[i].rv = fifo[i].rv
              /\ Stale(fifo, turns)[i].reads = fifo[i].reads
              /\ Stale(fifo, turns)[i].stale <=> fifo[i].stale \/ turns
<1>1. Len(fifo) \in Nat /\ \A i \in 1 .. Len(fifo) : fifo[i] \in Waiting
  BY ElementOfSeq
<1>2. Stale(fifo, turns) = [i \in 1 .. Len(fifo) |-> [fifo[i] EXCEPT !.stale = fifo[i].stale \/ turns]]
  BY DEF Stale
<1>3. ASSUME NEW i \in 1 .. Len(fifo)
      PROVE  /\ Stale(fifo, turns)[i] \in Waiting
             /\ Stale(fifo, turns)[i].epoch = fifo[i].epoch
             /\ Stale(fifo, turns)[i].rv = fifo[i].rv
             /\ Stale(fifo, turns)[i].reads = fifo[i].reads
             /\ Stale(fifo, turns)[i].stale <=> fifo[i].stale \/ turns
  <2>1. PICK e \in Waiting : e = fifo[i]
    BY <1>1
  <2>2. PICK b \in BOOLEAN : b = (e.stale \/ turns)
    OBVIOUS
  <2>3. Stale(fifo, turns)[i] = [e EXCEPT !.stale = b]
    BY <1>2, <2>1, <2>2
  <2>4. [e EXCEPT !.stale = b] \in Waiting
    BY DEF Waiting
  <2>5. /\ [e EXCEPT !.stale = b].epoch = e.epoch /\ [e EXCEPT !.stale = b].rv = e.rv
        /\ [e EXCEPT !.stale = b].reads = e.reads /\ [e EXCEPT !.stale = b].stale = b
    BY DEF Waiting
  <2> QED
    BY <2>1, <2>2, <2>3, <2>4, <2>5
<1>4. Stale(fifo, turns) \in [1 .. Len(fifo) -> Waiting]
  BY <1>2, <1>3
<1>5. Stale(fifo, turns) \in Seq(Waiting) /\ Len(Stale(fifo, turns)) = Len(fifo)
  BY <1>1, <1>4
<1> QED
  BY <1>3, <1>5

\* What a cycle does to the FIFOs.  w, m, x, d and f are 1 if writeback, memory,
\* execute, decode and fetch fire, t is whether execute redirects the program.
Fires(imem, dmem, w, m, x, d, f) ==
  /\ w = 1 <=> WritebackFires(dmem.answer)
  /\ m = 1 <=> MemoryFires(dmem.ready)
  /\ x = 1 <=> Executes
  /\ d = 1 <=> Decodes(imem.answer)
  /\ f = 1 <=> Fetches(imem.ready)

FetchMoves(d, f, t) ==
  /\ f2d' \in Seq(Fetched) /\ Len(f2d') = Len(f2d) - d + f
  /\ \A i \in 1 .. Len(f2d) - d : /\ f2d'[i].epoch = f2d[i + d].epoch
                                  /\ f2d'[i].stale <=> f2d[i + d].stale \/ t
  /\ f = 1 => f2d'[Len(f2d) - d + 1] = [epoch |-> epoch', stale |-> FALSE]

DecodeMoves(x, d, t) ==
  /\ d2e' \in Seq(Waiting) /\ Len(d2e') = Len(d2e) - x + d
  /\ \A i \in 1 .. Len(d2e) - x : /\ d2e'[i].epoch = d2e[i + x].epoch
                                  /\ d2e'[i].rv = d2e[i + x].rv
                                  /\ d2e'[i].reads = d2e[i + x].reads
                                  /\ d2e'[i].stale <=> d2e[i + x].stale \/ t
  /\ d = 1 => /\ d2e'[Len(d2e) - x + 1].epoch = f2d[1].epoch
              /\ d2e'[Len(d2e) - x + 1].reads => d2e'[Len(d2e) - x + 1].rv = rf
              /\ d2e'[Len(d2e) - x + 1].stale <=> f2d[1].stale \/ t

ExecuteMoves(watch, m, x) ==
  /\ e2m' \in Seq(Done)
  /\ Moved(e2m, e2m', m, x, Executed(d2e[1], watch))

MemoryMoves(w, m) ==
  /\ m2w' \in Seq(Done)
  /\ Moved(m2w, m2w', w, m, e2m[1])

FifosOK == /\ IsFifo(f2d, Fetched) /\ IsFifo(d2e, Waiting)
           /\ IsFifo(e2m, Done) /\ IsFifo(m2w, Done)
           /\ epoch \in {0, 1} /\ rf \in Values

Inputs == [ready : BOOLEAN, answer : BOOLEAN]

LEMMA FifoHead ==
  ASSUME NEW S, NEW fifo \in Seq(S)
  PROVE  /\ Len(fifo) \in Nat
         /\ notEmpty(fifo) <=> Len(fifo) >= 1
         /\ notEmpty(fifo) => Head(fifo) = fifo[1] /\ fifo[1] \in S
<1>1. Len(fifo) \in Nat
  OBVIOUS
<1>2. CASE fifo = <<>>
  BY <1>1, <1>2 DEF notEmpty
<1>3. CASE fifo # <<>>
  BY <1>1, <1>3, HeadTailProperties DEF notEmpty
<1> QED
  BY <1>1, <1>2, <1>3

LEMMA Fetching ==
  ASSUME FifosOK, NEW imem \in Inputs, NEW taken \in BOOLEAN, fetchT0(imem.ready, imem.answer, taken),
         epoch' \in {0, 1},
         NEW d \in {0, 1}, d = 1 <=> Decodes(imem.answer),
         NEW f \in {0, 1}, f = 1 <=> Fetches(imem.ready),
         NEW t \in BOOLEAN, t <=> Redirects(taken)
  PROVE  FetchMoves(d, f, t)
<1>1. f2d \in Seq(Fetched) /\ Len(f2d) \in Nat
  BY DEF FifosOK, IsFifo
<1>2. d <= Len(f2d)
  BY <1>1, FifoHead DEF Decodes
<1>3. PICK new \in Fetched : new = [epoch |-> epoch', stale |-> FALSE]
  BY DEF Fetched
<1>4. PICK kept : kept = Queue(f2d, d, 0, new)
  OBVIOUS
<1>5. kept \in Seq(Fetched) /\ Moved(f2d, kept, d, 0, new)
  BY <1>1, <1>2, <1>4, QueueMoves
<1>6. PICK staled : staled = Stale(kept, t)
  OBVIOUS
<1>7. /\ staled \in Seq(Fetched) /\ Len(staled) = Len(kept)
      /\ \A i \in 1 .. Len(kept) : /\ staled[i].epoch = kept[i].epoch
                                   /\ staled[i].stale <=> kept[i].stale \/ t
  BY <1>5, <1>6, StaleFetched
<1>8. f2d' = Queue(staled, 0, f, new)
  <2>1. Drop(f2d, Decodes(imem.answer)) = kept
    <3>1. PICK dropped : dropped = Drop(f2d, Decodes(imem.answer))
      OBVIOUS
    <3>2. dropped = IF d = 1 THEN Tail(f2d) ELSE f2d
      BY <3>1 DEF Drop
    <3>3. kept = dropped \o <<>>
      BY <1>4, <3>2 DEF Queue
    <3>4. dropped \in Seq(Fetched)
      <4>1. d = 1 => f2d # <<>>
        BY <1>1, <1>2
      <4> QED
        BY <1>1, <3>2, <4>1, HeadTailProperties
    <3> QED
      BY <3>1, <3>3, <3>4
  <2>2. Stale(kept, Redirects(taken)) = staled
    BY <1>6 DEF Stale
  <2>3. f2d' = staled \o (IF Fetches(imem.ready) THEN <<new>> ELSE <<>>)
    BY <1>3, <2>1, <2>2 DEF fetchT0
  <2> QED
    BY <2>3 DEF Queue
<1>9. /\ Queue(staled, 0, f, new) \in Seq(Fetched)
      /\ Moved(staled, Queue(staled, 0, f, new), 0, f, new)
  <2>1. 0 <= Len(staled)
    BY <1>7
  <2> QED
    BY <1>7, <2>1, QueueMoves
<1>10. f2d' \in Seq(Fetched) /\ Moved(staled, f2d', 0, f, new)
  BY <1>8, <1>9
<1>11. Len(kept) = Len(f2d) - d /\ \A i \in 1 .. Len(f2d) - d : kept[i] = f2d[i + d]
  BY <1>1, <1>5 DEF Moved
<1>12. /\ Len(f2d') = Len(kept) + f
       /\ \A i \in 1 .. Len(kept) : f2d'[i] = staled[i]
       /\ f = 1 => f2d'[Len(kept) + 1] = new
  <2>1. PICK l \in Nat : l = Len(kept) /\ l = Len(staled)
    BY <1>5, <1>7
  <2>2. Len(f2d') = l - 0 + f
    BY <1>10, <2>1 DEF Moved
  <2>3. f = 1 => f2d'[l + 1] = new
    <3>1. f = 1 => f2d'[l - 0 + 1] = new
      BY <1>10, <2>1 DEF Moved
    <3>2. l - 0 + 1 = l + 1
      OBVIOUS
    <3> QED
      BY <3>1, <3>2
  <2>4. ASSUME NEW i \in 1 .. l PROVE f2d'[i] = staled[i]
    <3>1. i \in 1 .. l - 0 /\ i + 0 = i
      OBVIOUS
    <3>2. f2d'[i] = staled[i + 0]
      BY <1>10, <2>1, <3>1 DEF Moved
    <3> QED
      BY <3>1, <3>2
  <2> QED
    BY <2>1, <2>2, <2>3, <2>4
<1> QED
  BY <1>1, <1>3, <1>7, <1>10, <1>11, <1>12 DEF FetchMoves

LEMMA Decoding ==
  ASSUME FifosOK, NEW imem \in Inputs, NEW taken \in BOOLEAN, decode(imem.answer, taken),
         NEW x \in {0, 1}, x = 1 <=> Executes,
         NEW d \in {0, 1}, d = 1 <=> Decodes(imem.answer),
         NEW t \in BOOLEAN, t <=> Redirects(taken)
  PROVE  DecodeMoves(x, d, t)
<1>1. /\ d2e \in Seq(Waiting) /\ Len(d2e) \in Nat /\ f2d \in Seq(Fetched)
      /\ rf \in Values
  BY DEF FifosOK, IsFifo
<1>2. x <= Len(d2e)
  BY <1>1, FifoHead DEF Executes
<1>3. PICK came : /\ came \in IF d = 1 THEN {<<Decoded(i)>> : i \in Instructions} ELSE {<<>>}
                  /\ d2e' = Stale(Drop(d2e, Executes) \o came, t)
  <2>1. PICK came \in IF Decodes(imem.answer) THEN {<<Decoded(i)>> : i \in Instructions}
                      ELSE {<<>>} :
          d2e' = Stale(Drop(d2e, Executes) \o came, Redirects(taken))
    BY DEF decode
  <2>2. PICK all : all = Drop(d2e, Executes) \o came
    OBVIOUS
  <2>3. Stale(all, Redirects(taken)) = Stale(all, t)
    BY DEF Stale
  <2>4. d2e' = Stale(Drop(d2e, Executes) \o came, t)
    BY <2>1, <2>2, <2>3
  <2>5. came \in IF d = 1 THEN {<<Decoded(i)>> : i \in Instructions} ELSE {<<>>}
    BY <2>1
  <2> QED
    BY <2>4, <2>5
<1>4. PICK dropped : dropped = Drop(d2e, Executes)
  OBVIOUS
<1>5. dropped = IF x = 1 THEN Tail(d2e) ELSE d2e
  BY <1>4 DEF Drop
<1>6. \E new \in Waiting : /\ dropped \o came = Queue(d2e, x, d, new)
                           /\ d = 1 => /\ new.epoch = f2d[1].epoch
                                       /\ new.stale = f2d[1].stale
                                       /\ new.reads => new.rv = rf
  <2>1. CASE d = 1
    <3>1. PICK i \in Instructions : came = <<Decoded(i)>>
      BY <1>3, <2>1
    <3>2. PICK old \in Fetched : old = f2d[1] /\ old = Head(f2d)
      BY <1>1, <2>1, FifoHead DEF Decodes
    <3>3. i \in [kind : {"mem", "control", "alu"}, rd : {"none", "r", "another"}, reads : BOOLEAN]
      BY InstructionsAssumption
    <3>4. PICK rv \in Values : rv = IF i.reads THEN rf ELSE "other"
      BY <1>1 DEF Values
    <3>5. PICK new : new = [kind |-> i.kind, rd |-> i.rd, reads |-> i.reads, rv |-> rv,
                            epoch |-> old.epoch, stale |-> old.stale]
      OBVIOUS
    <3>6. new \in Waiting
      BY <3>2, <3>3, <3>5 DEF Waiting, Fetched
    <3>7. Decoded(i) = new
      BY <3>2, <3>4, <3>5 DEF Decoded
    <3>8. /\ new.epoch = f2d[1].epoch /\ new.stale = f2d[1].stale
          /\ new.reads => new.rv = rf
      BY <3>2, <3>3, <3>4, <3>5
    <3>9. dropped \o came = Queue(d2e, x, d, new)
      BY <1>5, <2>1, <3>1, <3>7 DEF Queue
    <3> QED
      BY <3>6, <3>8, <3>9
  <2>2. CASE d = 0
    <3>1. [kind |-> "mem", rd |-> "r", reads |-> TRUE, rv |-> "none", epoch |-> 0, stale |-> TRUE]
            \in Waiting
      BY DEF Waiting, Values
    <3>2. came = <<>>
      BY <1>3, <2>2
    <3> QED
      BY <1>5, <2>2, <3>1, <3>2 DEF Queue
  <2> QED
    BY <2>1, <2>2
<1>7. PICK new \in Waiting : /\ dropped \o came = Queue(d2e, x, d, new)
                             /\ d = 1 => /\ new.epoch = f2d[1].epoch
                                         /\ new.stale = f2d[1].stale
                                         /\ new.reads => new.rv = rf
  BY <1>6
<1>8. PICK kept : kept = Queue(d2e, x, d, new)
  OBVIOUS
<1>9. kept \in Seq(Waiting) /\ Moved(d2e, kept, x, d, new)
  BY <1>1, <1>2, <1>8, QueueMoves
<1>10. d2e' = Stale(kept, t)
  BY <1>3, <1>4, <1>7, <1>8
<1>11. /\ d2e' \in Seq(Waiting) /\ Len(d2e') = Len(kept)
       /\ \A i \in 1 .. Len(kept) : /\ d2e'[i].epoch = kept[i].epoch
                                    /\ d2e'[i].rv = kept[i].rv
                                    /\ d2e'[i].reads = kept[i].reads
                                    /\ d2e'[i].stale <=> kept[i].stale \/ t
  BY <1>9, <1>10, StaleWaiting
<1>12. /\ Len(kept) = Len(d2e) - x + d
       /\ \A i \in 1 .. Len(d2e) - x : kept[i] = d2e[i + x]
       /\ d = 1 => kept[Len(d2e) - x + 1] = new
  BY <1>9 DEF Moved
<1>13. \A i \in 1 .. Len(d2e) - x : i \in 1 .. Len(kept)
  BY <1>1, <1>12
<1>14. d = 1 => Len(d2e) - x + 1 \in 1 .. Len(kept)
  BY <1>1, <1>2, <1>12
<1> QED
  BY <1>7, <1>11, <1>12, <1>13, <1>14, SMTT(30) DEF DecodeMoves

LEMMA Executing ==
  ASSUME FifosOK, NEW dmem \in Inputs, NEW taken \in BOOLEAN, NEW watch \in BOOLEAN,
         execute(taken, watch, dmem.ready),
         NEW m \in {0, 1}, m = 1 <=> MemoryFires(dmem.ready),
         NEW x \in {0, 1}, x = 1 <=> Executes
  PROVE  ExecuteMoves(watch, m, x)
<1>1. /\ d2e \in Seq(Waiting) /\ e2m \in Seq(Done) /\ Len(e2m) \in Nat /\ epoch \in {0, 1}
  BY DEF FifosOK, IsFifo
<1>2. m <= Len(e2m)
  BY <1>1, FifoHead DEF MemoryFires
<1>3. PICK dropped : dropped = Drop(e2m, MemoryFires(dmem.ready))
  OBVIOUS
<1>4. dropped = IF m = 1 THEN Tail(e2m) ELSE e2m
  BY <1>3 DEF Drop
<1>5. dropped \in Seq(Done)
  <2>1. m = 1 => e2m # <<>>
    BY <1>1, <1>2
  <2> QED
    BY <1>1, <1>4, <2>1, HeadTailProperties
<1>6. CASE x = 1
  <2>1. PICK e \in Waiting : e = d2e[1] /\ e = Head(d2e)
    BY <1>1, <1>6, FifoHead DEF Executes
  <2>2. PICK new : new = Executed(e, watch)
    OBVIOUS
  <2>3. new \in Done
    <3>1. PICK b \in BOOLEAN : b = ~InEpoch(e)
      BY DEF InEpoch
    <3>2. PICK v \in Values : v = IF watch THEN "watched" ELSE "other"
      BY DEF Values
    <3>3. new = [kind |-> e.kind, rd |-> e.rd, poisoned |-> b, value |-> v]
      BY <2>2, <3>1, <3>2 DEF Executed
    <3> QED
      BY <3>3 DEF Waiting, Done
  <2>4. e2m' = Append(dropped, new)
    BY <1>3, <1>6, <2>1, <2>2 DEF execute
  <2>5. e2m' = Queue(e2m, m, x, new)
    BY <1>4, <1>5, <1>6, <2>3, <2>4 DEF Queue
  <2>6. e2m' \in Seq(Done) /\ Moved(e2m, e2m', m, x, new)
    BY <1>1, <1>2, <2>3, <2>5, QueueMoves
  <2> QED
    BY <2>1, <2>2, <2>6 DEF ExecuteMoves
<1>7. CASE x = 0
  <2>1. e2m' = dropped
    BY <1>3, <1>7 DEF execute
  <2>2. PICK new \in Done : TRUE
    <3>1. [kind |-> "mem", rd |-> "r", poisoned |-> TRUE, value |-> "none"] \in Done
      BY DEF Done, Values
    <3> QED
      BY <3>1
  <2>3. e2m' = Queue(e2m, m, x, new)
    BY <1>4, <1>5, <1>7, <2>1 DEF Queue
  <2>4. e2m' \in Seq(Done) /\ Moved(e2m, e2m', m, x, new)
    BY <1>1, <1>2, <2>3, QueueMoves
  <2> QED
    BY <1>7, <2>4 DEF ExecuteMoves, Moved
<1> QED
  BY <1>6, <1>7

LEMMA GoingToMemory ==
  ASSUME FifosOK, NEW dmem \in Inputs, memory(dmem.ready, dmem.answer),
         NEW w \in {0, 1}, w = 1 <=> WritebackFires(dmem.answer),
         NEW m \in {0, 1}, m = 1 <=> MemoryFires(dmem.ready)
  PROVE  MemoryMoves(w, m)
<1>1. /\ e2m \in Seq(Done) /\ m2w \in Seq(Done) /\ Len(m2w) \in Nat
  BY DEF FifosOK, IsFifo
<1>2. w <= Len(m2w)
  BY <1>1, FifoHead DEF WritebackFires
<1>3. PICK new \in Done : m = 1 => new = e2m[1] /\ new = Head(e2m)
  <2>1. CASE m = 1
    BY <1>1, <2>1, FifoHead DEF MemoryFires
  <2>2. CASE m = 0
    <3>1. [kind |-> "mem", rd |-> "r", poisoned |-> TRUE, value |-> "none"] \in Done
      BY DEF Done, Values
    <3> QED
      BY <2>2, <3>1
  <2> QED
    BY <2>1, <2>2
<1>4. m2w' = Queue(m2w, w, m, new)
  <2>1. PICK dropped : dropped = Drop(m2w, WritebackFires(dmem.answer))
    OBVIOUS
  <2>2. dropped = IF w = 1 THEN Tail(m2w) ELSE m2w
    BY <2>1 DEF Drop
  <2>3. m2w' = dropped \o (IF m = 1 THEN <<new>> ELSE <<>>)
    BY <1>3, <2>1 DEF memory
  <2> QED
    BY <2>2, <2>3 DEF Queue
<1>5. m2w' \in Seq(Done) /\ Moved(m2w, m2w', w, m, new)
  BY <1>1, <1>2, <1>4, QueueMoves
<1> QED
  BY <1>3, <1>5 DEF MemoryMoves, Moved

InStep(imem, dmem, taken, watch, w, m, x, d, f, t) ==
  /\ Fires(imem, dmem, w, m, x, d, f)
  /\ t <=> Redirects(taken)
  /\ FetchMoves(d, f, t) /\ DecodeMoves(x, d, t)
  /\ ExecuteMoves(watch, m, x) /\ MemoryMoves(w, m)

SomeStep(imem, dmem, taken, watch) ==
  \E w, m, x, d, f \in {0, 1}, t \in BOOLEAN :
    InStep(imem, dmem, taken, watch, w, m, x, d, f, t)

LEMMA CycleMoves ==
  ASSUME FifosOK, NEW imem \in Inputs, NEW dmem \in Inputs,
         NEW taken \in BOOLEAN, NEW watch \in BOOLEAN, Cycle(imem, dmem, taken, watch)
  PROVE  SomeStep(imem, dmem, taken, watch)
<1>1. /\ execute(taken, watch, dmem.ready) /\ fetchT0(imem.ready, imem.answer, taken)
      /\ decode(imem.answer, taken) /\ memory(dmem.ready, dmem.answer)
  BY DEF Cycle
<1>2. PICK w \in {0, 1} : w = 1 <=> WritebackFires(dmem.answer)
  OBVIOUS
<1>3. PICK m \in {0, 1} : m = 1 <=> MemoryFires(dmem.ready)
  OBVIOUS
<1>4. PICK x \in {0, 1} : x = 1 <=> Executes
  OBVIOUS
<1>5. PICK d \in {0, 1} : d = 1 <=> Decodes(imem.answer)
  OBVIOUS
<1>6. PICK f \in {0, 1} : f = 1 <=> Fetches(imem.ready)
  OBVIOUS
<1>7. PICK t \in BOOLEAN : t <=> Redirects(taken)
  BY DEF Redirects
<1>8. epoch' \in {0, 1}
  BY <1>1 DEF execute, FifosOK
<1>9. FetchMoves(d, f, t)
  BY <1>1, <1>5, <1>6, <1>7, <1>8, Fetching
<1>10. DecodeMoves(x, d, t)
  BY <1>1, <1>4, <1>5, <1>7, Decoding
<1>11. ExecuteMoves(watch, m, x)
  BY <1>1, <1>3, <1>4, Executing
<1>12. MemoryMoves(w, m)
  BY <1>1, <1>2, <1>3, GoingToMemory
<1>13. InStep(imem, dmem, taken, watch, w, m, x, d, f, t)
  BY <1>2, <1>3, <1>4, <1>5, <1>6, <1>7, <1>9, <1>10, <1>11, <1>12 DEF InStep, Fires
<1> QED
  BY <1>13 DEF SomeStep

-----------------------------------------------------------------------------
\* The values: what is written, forwarded and latest.

LEMMA LastWriteMoves ==
  ASSUME NEW fifo \in Seq(Done), Len(fifo) <= 2, NEW next \in Seq(Done), Len(next) <= 2,
         NEW drop \in {0, 1}, drop <= Len(fifo), NEW push \in {0, 1}, NEW new, NEW v,
         Moved(fifo, next, drop, push, new)
  PROVE  LastWrite(next, IF drop = 1 THEN Updated(fifo[1], v) ELSE v)
           = IF push = 1 THEN Updated(new, LastWrite(fifo, v)) ELSE LastWrite(fifo, v)
<1>1. Len(fifo) \in 0 .. 2 /\ Len(next) \in 0 .. 2
  <2>1. PICK k \in Nat : k = Len(fifo)
    OBVIOUS
  <2>2. PICK l \in Nat : l = Len(next)
    OBVIOUS
  <2>3. k \in 0 .. 2 /\ l \in 0 .. 2
    BY <2>1, <2>2
  <2> QED
    BY <2>1, <2>2, <2>3
<1>2. CASE drop = 0
  <2>1. /\ Len(next) = Len(fifo) + push
        /\ \A i \in 1 .. Len(fifo) : next[i] = fifo[i]
        /\ push = 1 => next[Len(fifo) + 1] = new
    BY <1>1, <1>2 DEF Moved
  <2>2. CASE Len(fifo) = 0
    BY <1>1, <1>2, <2>1, <2>2 DEF LastWrite
  <2>3. CASE Len(fifo) = 1
    BY <1>1, <1>2, <2>1, <2>3 DEF LastWrite
  <2>4. CASE Len(fifo) = 2
    BY <1>1, <1>2, <2>1, <2>4 DEF LastWrite
  <2> QED
    BY <1>1, <2>2, <2>3, <2>4
<1>3. CASE drop = 1
  <2>1. /\ Len(next) = Len(fifo) - 1 + push
        /\ \A i \in 1 .. Len(fifo) - 1 : next[i] = fifo[i + 1]
        /\ push = 1 => next[Len(fifo)] = new
    <3>1. Len(fifo) - 1 + 1 = Len(fifo)
      BY <1>1
    <3> QED
      BY <1>1, <1>3, <3>1 DEF Moved
  <2>2. CASE Len(fifo) = 1
    BY <1>1, <1>3, <2>1, <2>2 DEF LastWrite
  <2>3. CASE Len(fifo) = 2
    BY <1>1, <1>3, <2>1, <2>3 DEF LastWrite
  <2> QED
    BY <1>1, <1>3, <2>2, <2>3
<1> QED
  BY <1>2, <1>3

\* What writeback does.
Wrote(w) ==
  /\ rf' = IF w = 1 THEN Updated(m2w[1], rf) ELSE rf
  /\ memForwardR' = memForward
  /\ \/ /\ wbForwardR' = wbForwardR /\ wbForwardR2' = wbForwardR2
        /\ w = 1 => m2w[1].poisoned \/ m2w[1].rd = "none"
     \/ /\ w = 1 /\ ~m2w[1].poisoned
        /\ wbForwardR2' = wbForwardR
        /\ wbForwardR'.match <=> m2w[1].rd = "r"
        /\ wbForwardR'.data = m2w[1].value
        /\ wbForwardR' \in Forwards

LEMMA WritingBack ==
  ASSUME FifosOK, NEW dmem \in Inputs, writeback(dmem.answer),
         NEW w \in {0, 1}, w = 1 <=> WritebackFires(dmem.answer)
  PROVE  Wrote(w)
<1>1. m2w \in Seq(Done) /\ rf \in Values
  BY DEF FifosOK, IsFifo
<1>2. memForwardR' = memForward
  BY DEF writeback
<1>3. CASE w = 0
  BY <1>2, <1>3 DEF writeback, Wrote
<1>4. CASE w = 1
  <2>1. PICK e \in Done : e = Head(m2w) /\ e = m2w[1]
    BY <1>1, <1>4, FifoHead DEF WritebackFires
  <2>2. CASE Writes(e)
    <3>1. rf' = IF e.rd = "r" THEN e.value ELSE rf
      BY <1>4, <2>1, <2>2 DEF writeback
    <3>2. wbForwardR' = [data |-> e.value, data_valid |-> TRUE, match |-> e.rd = "r"]
      BY <1>4, <2>1, <2>2 DEF writeback
    <3>3. wbForwardR2' = wbForwardR
      BY <1>4, <2>1, <2>2 DEF writeback
    <3>4. wbForwardR' \in Forwards /\ (wbForwardR'.match <=> e.rd = "r")
          /\ wbForwardR'.data = e.value
      BY <3>2 DEF Forwards, Done
    <3>5. ~e.poisoned /\ rf' = Updated(e, rf)
      BY <2>2, <3>1 DEF Writes, Updated
    <3> QED
      BY <1>2, <1>4, <2>1, <3>3, <3>4, <3>5 DEF Wrote
  <2>3. CASE ~Writes(e)
    <3>1. rf' = rf /\ wbForwardR' = wbForwardR /\ wbForwardR2' = wbForwardR2
      BY <1>4, <2>1, <2>3 DEF writeback
    <3>2. e.poisoned \/ e.rd = "none"
      BY <2>3 DEF Writes
    <3>3. rf' = Updated(e, rf)
      BY <3>1, <3>2 DEF Updated
    <3> QED
      BY <1>2, <1>4, <2>1, <3>1, <3>2, <3>3 DEF Wrote
  <2> QED
    BY <2>2, <2>3
<1> QED
  BY <1>3, <1>4

LEMMA TypesApart ==
  TypeOK <=> /\ FifosOK /\ latest \in Values /\ watching \in BOOLEAN /\ late \in BOOLEAN
             /\ memForwardR \in Forwards /\ wbForwardR \in Forwards /\ wbForwardR2 \in Forwards
  BY DEF TypeOK, FifosOK, Fetched, Waiting, Done

\* The state is of the declared types, and the FIFOs hold no more than two.
LEMMA TypesKept ==
  ASSUME TypeOK, NEW imem \in Inputs, NEW dmem \in Inputs,
         NEW taken \in BOOLEAN, NEW watch \in BOOLEAN, Cycle(imem, dmem, taken, watch)
  PROVE  TypeOK'
<1>1. /\ FifosOK /\ latest \in Values /\ watching \in BOOLEAN /\ late \in BOOLEAN
      /\ memForwardR \in Forwards /\ wbForwardR \in Forwards /\ wbForwardR2 \in Forwards
  BY TypesApart
<1>2. PICK w, m, x, d, f \in {0, 1}, t \in BOOLEAN :
        InStep(imem, dmem, taken, watch, w, m, x, d, f, t)
  <2>1. SomeStep(imem, dmem, taken, watch)
    BY <1>1, CycleMoves
  <2> QED
    BY <2>1 DEF SomeStep
<1>3. /\ Len(f2d) \in Nat /\ Len(f2d) <= 2 /\ Len(d2e) \in Nat /\ Len(d2e) <= 2
      /\ Len(e2m) \in Nat /\ Len(e2m) <= 2 /\ Len(m2w) \in Nat /\ Len(m2w) <= 2
      /\ d2e \in Seq(Waiting) /\ e2m \in Seq(Done) /\ m2w \in Seq(Done)
  BY <1>1 DEF FifosOK, IsFifo, FifoDepth
<1>4. IsFifo(f2d', Fetched)
  <2>1. f = 1 => Len(f2d) < 2
    BY <1>2 DEF InStep, Fires, Fetches, notFull, FifoDepth
  <2>2. f2d' \in Seq(Fetched) /\ Len(f2d') = Len(f2d) - d + f
    BY <1>2 DEF InStep, FetchMoves
  <2> QED
    BY <1>3, <2>1, <2>2 DEF IsFifo, FifoDepth
<1>5. IsFifo(d2e', Waiting)
  <2>1. d = 1 => Len(d2e) < 2
    BY <1>2 DEF InStep, Fires, Decodes, notFull, FifoDepth
  <2>2. d2e' \in Seq(Waiting) /\ Len(d2e') = Len(d2e) - x + d
    BY <1>2 DEF InStep, DecodeMoves
  <2> QED
    BY <1>3, <2>1, <2>2 DEF IsFifo, FifoDepth
<1>6. IsFifo(e2m', Done)
  <2>1. x = 1 => Len(e2m) < 2
    BY <1>2 DEF InStep, Fires, Executes, notFull, FifoDepth
  <2>2. e2m' \in Seq(Done) /\ Len(e2m') = Len(e2m) - m + x
    BY <1>2 DEF InStep, ExecuteMoves, Moved
  <2> QED
    BY <1>3, <2>1, <2>2 DEF IsFifo, FifoDepth
<1>7. IsFifo(m2w', Done)
  <2>1. m = 1 => Len(m2w) < 2
    BY <1>2 DEF InStep, Fires, MemoryFires, notFull, FifoDepth
  <2>2. m2w' \in Seq(Done) /\ Len(m2w') = Len(m2w) - w + m
    BY <1>2 DEF InStep, MemoryMoves, Moved
  <2> QED
    BY <1>3, <2>1, <2>2 DEF IsFifo, FifoDepth
<1>8. epoch' \in {0, 1}
  BY <1>1 DEF Cycle, execute, FifosOK
<1>9. Wrote(w)
  BY <1>1, <1>2, WritingBack DEF Cycle, InStep, Fires
<1>10. rf' \in Values
  <2>1. CASE w = 1
    <3>1. m2w[1] \in Done
      BY <1>2, <1>3, <2>1, FifoHead DEF InStep, Fires, WritebackFires
    <3> QED
      BY <1>1, <1>9, <2>1, <3>1 DEF Wrote, Updated, FifosOK, Done
  <2>2. CASE w = 0
    BY <1>1, <1>9, <2>2 DEF Wrote, FifosOK
  <2> QED
    BY <2>1, <2>2
<1>11. latest' \in Values
  <2>1. \/ latest' = latest
        \/ latest' = Executed(Head(d2e), watch).value
    BY DEF Cycle, execute
  <2>2. Executed(Head(d2e), watch).value \in Values
    BY DEF Executed, Values
  <2> QED
    BY <1>1, <2>1, <2>2
<1>12. watching' \in BOOLEAN /\ late' \in BOOLEAN
  BY <1>1 DEF Cycle, execute
<1>13. memForwardR' \in Forwards
  <2>1. memForward \in Forwards
    <3>1. CASE notEmpty(e2m)
      <4>1. PICK e \in Done : e = Head(e2m)
        BY <1>3, <3>1, FifoHead
      <4>2. PICK data \in Values : data = IF e.kind = "mem" THEN "none" ELSE e.value
        BY DEF Done, Values
      <4>3. PICK valid \in BOOLEAN : valid = (e.kind = "alu")
        OBVIOUS
      <4>4. PICK match \in BOOLEAN : match = (e.rd = "r" /\ ~e.poisoned)
        OBVIOUS
      <4>5. memForward = [data |-> data, data_valid |-> valid, match |-> match]
        BY <3>1, <4>1, <4>2, <4>3, <4>4 DEF memForward, Forward, Path
      <4> QED
        BY <4>5 DEF Forwards
    <3>2. CASE ~notEmpty(e2m)
      BY <3>2 DEF memForward, Forward, NoForward, Forwards, Values
    <3> QED
      BY <3>1, <3>2
  <2> QED
    BY <1>9, <2>1 DEF Wrote
<1>14. wbForwardR' \in Forwards /\ wbForwardR2' \in Forwards
  BY <1>1, <1>9 DEF Wrote
<1>15. FifosOK'
  BY <1>4, <1>5, <1>6, <1>7, <1>8, <1>10 DEF FifosOK
<1> QED
  BY <1>11, <1>12, <1>13, <1>14, <1>15 DEF TypeOK, FifosOK, Fetched, Waiting, Done

\* No instruction is taken for one of the other side of a jump.
LEMMA EpochsKept ==
  ASSUME TypeOK, EpochsInOrder, NEW imem \in Inputs, NEW dmem \in Inputs,
         NEW taken \in BOOLEAN, NEW watch \in BOOLEAN, Cycle(imem, dmem, taken, watch)
  PROVE  EpochsInOrder'
<1>1. FifosOK
  BY TypesApart
<1>2. PICK w, m, x, d, f \in {0, 1}, t \in BOOLEAN :
        InStep(imem, dmem, taken, watch, w, m, x, d, f, t)
  <2>1. SomeStep(imem, dmem, taken, watch)
    BY <1>1, CycleMoves
  <2> QED
    BY <2>1 DEF SomeStep
<1>3. /\ Len(f2d) \in Nat /\ Len(f2d) <= 2 /\ Len(d2e) \in Nat /\ Len(d2e) <= 2
      /\ d2e \in Seq(Waiting) /\ f2d \in Seq(Fetched) /\ epoch \in {0, 1}
  BY <1>1 DEF FifosOK, IsFifo, FifoDepth
<1>4. /\ x = 1 => Len(d2e) >= 1
      /\ d = 1 => Len(f2d) >= 1
  BY <1>2, <1>3, FifoHead DEF InStep, Fires, Executes, Decodes
<1>5. /\ epoch' = IF t THEN 1 - epoch ELSE epoch
      /\ t => x = 1 /\ d2e[1].epoch = epoch
  <2>1. t <=> Redirects(taken)
    BY <1>2 DEF InStep
  <2>2. epoch' = IF t THEN 1 - epoch ELSE epoch
    BY <2>1 DEF Cycle, execute
  <2>3. t => x = 1 /\ InEpoch(Head(d2e)) /\ notEmpty(d2e)
    BY <1>2, <2>1 DEF Redirects, InStep, Fires, Executes
  <2> QED
    BY <1>3, <2>2, <2>3, FifoHead DEF InEpoch
<1>6. /\ \A i \in 1 .. Len(d2e) : d2e[i].epoch # epoch <=> d2e[i].stale
      /\ \A i \in 1 .. Len(f2d) : f2d[i].epoch # epoch <=> f2d[i].stale
      /\ \A i, j \in 1 .. Len(d2e) : i < j /\ d2e[j].stale => d2e[i].stale
      /\ \A i, j \in 1 .. Len(f2d) : i < j /\ f2d[j].stale => f2d[i].stale
      /\ \A i \in 1 .. Len(d2e), j \in 1 .. Len(f2d) : f2d[j].stale => d2e[i].stale
  BY DEF EpochsInOrder, InEpoch, StaleFirst
<1>7. /\ Len(f2d') = Len(f2d) - d + f
      /\ \A i \in 1 .. Len(f2d) - d : /\ f2d'[i].epoch = f2d[i + d].epoch
                                      /\ f2d'[i].stale <=> f2d[i + d].stale \/ t
      /\ f = 1 => /\ f2d'[Len(f2d) - d + 1].epoch = epoch'
                  /\ ~f2d'[Len(f2d) - d + 1].stale
  BY <1>2 DEF InStep, FetchMoves
<1>8. /\ Len(d2e') = Len(d2e) - x + d
      /\ \A i \in 1 .. Len(d2e) - x : /\ d2e'[i].epoch = d2e[i + x].epoch
                                      /\ d2e'[i].stale <=> d2e[i + x].stale \/ t
      /\ d = 1 => /\ d2e'[Len(d2e) - x + 1].epoch = f2d[1].epoch
                  /\ d2e'[Len(d2e) - x + 1].stale <=> f2d[1].stale \/ t
  BY <1>2 DEF InStep, DecodeMoves
<1>9. /\ \A i \in 1 .. Len(f2d) : f2d[i].epoch \in {0, 1}
      /\ \A i \in 1 .. Len(d2e) : d2e[i].epoch \in {0, 1}
  <2>1. /\ \A i \in 1 .. Len(f2d) : f2d[i] \in Fetched
        /\ \A i \in 1 .. Len(d2e) : d2e[i] \in Waiting
    BY <1>3, ElementOfSeq
  <2>2. \A e : e \in Fetched \/ e \in Waiting => e.epoch \in {0, 1}
    BY DEF Fetched, Waiting
  <2> QED
    BY <2>1, <2>2
<1>10. t => /\ \A i \in 1 .. Len(d2e) : d2e[i].epoch = epoch
            /\ \A i \in 1 .. Len(f2d) : f2d[i].epoch = epoch
  <2> SUFFICES ASSUME t
               PROVE  /\ \A i \in 1 .. Len(d2e) : d2e[i].epoch = epoch
                      /\ \A i \in 1 .. Len(f2d) : f2d[i].epoch = epoch
    OBVIOUS
  <2>1. 1 \in 1 .. Len(d2e) /\ ~d2e[1].stale
    BY <1>3, <1>4, <1>5, <1>6
  <2>2. \A i \in 1 .. Len(d2e) : i = 1 \/ 1 < i
    BY <1>3
  <2>3. \A i \in 1 .. Len(d2e) : ~d2e[i].stale
    BY <1>6, <2>1, <2>2
  <2>4. \A i \in 1 .. Len(f2d) : ~f2d[i].stale
    BY <1>6, <2>1
  <2> QED
    BY <1>6, <2>3, <2>4
\* The places of the entries.
<1>11. ASSUME NEW i \in 1 .. Len(f2d')
       PROVE  \/ i \in 1 .. Len(f2d) - d /\ i + d \in 1 .. Len(f2d)
              \/ f = 1 /\ i = Len(f2d) - d + 1
  BY <1>3, <1>7
<1>12. ASSUME NEW i \in 1 .. Len(d2e')
       PROVE  \/ i \in 1 .. Len(d2e) - x /\ i + x \in 1 .. Len(d2e)
              \/ d = 1 /\ i = Len(d2e) - x + 1 /\ 1 \in 1 .. Len(f2d)
  BY <1>3, <1>4, <1>8
<1>13. ASSUME NEW i \in 1 .. Len(f2d') PROVE f2d'[i].epoch # epoch' <=> f2d'[i].stale
  <2>1. CASE i \in 1 .. Len(f2d) - d /\ i + d \in 1 .. Len(f2d)
    <3>1. CASE t
      BY <1>3, <1>5, <1>7, <1>10, <2>1, <3>1
    <3>2. CASE ~t
      BY <1>5, <1>6, <1>7, <2>1, <3>2
    <3> QED
      BY <3>1, <3>2
  <2>2. CASE f = 1 /\ i = Len(f2d) - d + 1
    BY <1>7, <2>2
  <2> QED
    BY <1>11, <2>1, <2>2
<1>14. ASSUME NEW i \in 1 .. Len(d2e') PROVE d2e'[i].epoch # epoch' <=> d2e'[i].stale
  <2>1. CASE i \in 1 .. Len(d2e) - x /\ i + x \in 1 .. Len(d2e)
    <3>1. CASE t
      BY <1>3, <1>5, <1>8, <1>10, <2>1, <3>1
    <3>2. CASE ~t
      BY <1>5, <1>6, <1>8, <2>1, <3>2
    <3> QED
      BY <3>1, <3>2
  <2>2. CASE d = 1 /\ i = Len(d2e) - x + 1 /\ 1 \in 1 .. Len(f2d)
    <3>1. CASE t
      BY <1>3, <1>5, <1>8, <1>10, <2>2, <3>1
    <3>2. CASE ~t
      BY <1>5, <1>6, <1>8, <2>2, <3>2
    <3> QED
      BY <3>1, <3>2
  <2> QED
    BY <1>12, <2>1, <2>2
<1>15. ASSUME NEW i \in 1 .. Len(f2d'), NEW j \in 1 .. Len(f2d'), i < j, f2d'[j].stale
       PROVE  f2d'[i].stale
  <2>1. j \in 1 .. Len(f2d) - d /\ j + d \in 1 .. Len(f2d)
    BY <1>7, <1>11, <1>15
  <2>2. i \in 1 .. Len(f2d) - d /\ i + d \in 1 .. Len(f2d) /\ i + d < j + d
    BY <1>3, <1>15, <2>1
  <2> QED
    BY <1>6, <1>7, <1>15, <2>1, <2>2
<1>16. ASSUME NEW i \in 1 .. Len(d2e'), NEW j \in 1 .. Len(d2e'), i < j, d2e'[j].stale
       PROVE  d2e'[i].stale
  <2>1. i \in 1 .. Len(d2e) - x /\ i + x \in 1 .. Len(d2e)
    BY <1>3, <1>4, <1>8, <1>16
  <2>2. CASE j \in 1 .. Len(d2e) - x /\ j + x \in 1 .. Len(d2e)
    <3>1. i + x < j + x
      BY <1>16
    <3> QED
      BY <1>6, <1>8, <1>16, <2>1, <2>2, <3>1
  <2>3. CASE d = 1 /\ j = Len(d2e) - x + 1 /\ 1 \in 1 .. Len(f2d)
    BY <1>6, <1>8, <1>16, <2>1, <2>3
  <2> QED
    BY <1>12, <2>2, <2>3
<1>17. ASSUME NEW i \in 1 .. Len(d2e'), NEW j \in 1 .. Len(f2d'), f2d'[j].stale
       PROVE  d2e'[i].stale
  <2>1. j \in 1 .. Len(f2d) - d /\ j + d \in 1 .. Len(f2d)
    BY <1>7, <1>11, <1>17
  <2>2. CASE i \in 1 .. Len(d2e) - x /\ i + x \in 1 .. Len(d2e)
    BY <1>6, <1>7, <1>8, <1>17, <2>1, <2>2
  <2>3. CASE d = 1 /\ i = Len(d2e) - x + 1 /\ 1 \in 1 .. Len(f2d)
    <3>1. 1 < j + d
      BY <2>1, <2>3
    <3> QED
      BY <1>6, <1>7, <1>8, <1>17, <2>1, <2>3, <3>1
  <2> QED
    BY <1>12, <2>2, <2>3
<1> QED
  BY <1>13, <1>14, <1>15, <1>16, <1>17 DEF EpochsInOrder, InEpoch, StaleFirst

\* Every write is on its way to the register file behind the earlier ones.
LEMMA LatestKept ==
  ASSUME TypeOK, EpochsInOrder, LatestOnItsWay, NEW imem \in Inputs, NEW dmem \in Inputs,
         NEW taken \in BOOLEAN, NEW watch \in BOOLEAN, Cycle(imem, dmem, taken, watch)
  PROVE  LatestOnItsWay'
<1>1. FifosOK
  BY TypesApart
<1>2. PICK w, m, x, d, f \in {0, 1}, t \in BOOLEAN :
        InStep(imem, dmem, taken, watch, w, m, x, d, f, t)
  <2>1. SomeStep(imem, dmem, taken, watch)
    BY <1>1, CycleMoves
  <2> QED
    BY <2>1 DEF SomeStep
<1>3. /\ d2e \in Seq(Waiting) /\ e2m \in Seq(Done) /\ m2w \in Seq(Done)
      /\ Len(e2m) <= 2 /\ Len(m2w) <= 2
      /\ m <= Len(e2m) /\ w <= Len(m2w)
  <2>1. /\ d2e \in Seq(Waiting) /\ e2m \in Seq(Done) /\ m2w \in Seq(Done)
        /\ Len(e2m) <= 2 /\ Len(m2w) <= 2
    BY <1>1 DEF FifosOK, IsFifo, FifoDepth
  <2>2. m <= Len(e2m) /\ w <= Len(m2w)
    BY <1>2, <2>1, FifoHead DEF InStep, Fires, MemoryFires, WritebackFires
  <2> QED
    BY <2>1, <2>2
<1>4. /\ e2m' \in Seq(Done) /\ m2w' \in Seq(Done) /\ Len(e2m') <= 2 /\ Len(m2w') <= 2
  <2>1. TypeOK'
    BY TypesKept
  <2> QED
    BY <2>1 DEF TypeOK, IsFifo, FifoDepth, Done
<1>5. PICK new : new = Executed(d2e[1], watch)
  OBVIOUS
<1>6. Moved(e2m, e2m', m, x, new) /\ Moved(m2w, m2w', w, m, e2m[1])
  BY <1>2, <1>5 DEF InStep, ExecuteMoves, MemoryMoves
<1>7. latest' = IF x = 1 THEN Updated(new, latest) ELSE latest
  <2>1. CASE x = 1
    <3>1. Executes
      BY <1>2, <2>1 DEF InStep, Fires
    <3>2. PICK e \in Waiting : e = Head(d2e) /\ e = d2e[1] /\ Len(d2e) >= 1 /\ Len(d2e) \in Nat
      BY <1>3, <3>1, FifoHead DEF Executes
    <3>3. ~InEpoch(e) <=> e.stale
      BY <3>2 DEF EpochsInOrder
    <3>4. latest' = IF e.rd = "r" /\ ~e.stale THEN Executed(e, watch).value ELSE latest
      BY <3>1, <3>2 DEF Cycle, execute
    <3>5. new.rd = e.rd /\ (new.poisoned <=> ~InEpoch(e)) /\ new.value = Executed(e, watch).value
      BY <1>5, <3>2 DEF Executed
    <3> QED
      BY <2>1, <3>3, <3>4, <3>5 DEF Updated
  <2>2. CASE x = 0
    <3>1. ~Executes
      BY <1>2, <2>2 DEF InStep, Fires
    <3> QED
      BY <2>2, <3>1 DEF Cycle, execute
  <2> QED
    BY <2>1, <2>2
<1>8. rf' = IF w = 1 THEN Updated(m2w[1], rf) ELSE rf
  <2>1. Wrote(w)
    BY <1>1, <1>2, WritingBack DEF Cycle, InStep, Fires
  <2> QED
    BY <2>1 DEF Wrote
<1>9. PICK before : before = LastWrite(m2w, rf)
  OBVIOUS
<1>10. LastWrite(m2w', rf') = IF m = 1 THEN Updated(e2m[1], before) ELSE before
  BY <1>3, <1>4, <1>6, <1>8, <1>9, LastWriteMoves
<1>11. LastWrite(e2m', IF m = 1 THEN Updated(e2m[1], before) ELSE before)
         = IF x = 1 THEN Updated(new, LastWrite(e2m, before)) ELSE LastWrite(e2m, before)
  BY <1>3, <1>4, <1>6, LastWriteMoves
<1>12. latest = LastWrite(e2m, before)
  BY <1>9 DEF LatestOnItsWay
<1> QED
  BY <1>7, <1>10, <1>11, <1>12 DEF LatestOnItsWay

LEMMA ForwardsKept ==
  ASSUME ForwardsWritten, NEW w \in {0, 1}, Wrote(w)
  PROVE  ForwardsWritten'
<1>1. CASE /\ wbForwardR' = wbForwardR /\ wbForwardR2' = wbForwardR2
           /\ w = 1 => m2w[1].poisoned \/ m2w[1].rd = "none"
  <2>1. rf' = rf
    BY <1>1 DEF Wrote, Updated
  <2> QED
    BY <1>1, <2>1 DEF ForwardsWritten
<1>2. CASE /\ w = 1 /\ ~m2w[1].poisoned
           /\ wbForwardR2' = wbForwardR
           /\ wbForwardR'.match <=> m2w[1].rd = "r"
           /\ wbForwardR'.data = m2w[1].value
  <2>1. rf' = IF m2w[1].rd = "r" THEN m2w[1].value ELSE rf
    BY <1>2 DEF Wrote, Updated
  <2> QED
    BY <1>2, <2>1 DEF ForwardsWritten
<1> QED
  BY <1>1, <1>2 DEF Wrote

\* What the first entry of a FIFO forwards.
LEMMA ForwardFacts ==
  ASSUME NEW fifo \in Seq(Done)
  PROVE  /\ Forward(fifo).match <=> Len(fifo) >= 1 /\ fifo[1].rd = "r" /\ ~fifo[1].poisoned
         /\ Forward(fifo).match /\ Forward(fifo).data_valid => Forward(fifo).data = fifo[1].value
<1>1. CASE notEmpty(fifo)
  <2>1. PICK e \in Done : e = Head(fifo) /\ e = fifo[1] /\ Len(fifo) >= 1
    BY <1>1, FifoHead
  <2>2. PICK valid \in BOOLEAN : valid = (e.kind = "alu")
    OBVIOUS
  <2>3. PICK match \in BOOLEAN : match = (e.rd = "r" /\ ~e.poisoned)
    OBVIOUS
  <2>4. PICK data : data = IF e.kind = "mem" THEN "none" ELSE e.value
    OBVIOUS
  <2>5. Forward(fifo) = [data |-> data, data_valid |-> valid, match |-> match]
    BY <1>1, <2>1, <2>2, <2>3, <2>4 DEF Forward, Path
  <2>6. /\ Forward(fifo).match = match /\ Forward(fifo).data_valid = valid
        /\ Forward(fifo).data = data
    BY <2>5
  <2> QED
    BY <2>1, <2>2, <2>3, <2>4, <2>6
<1>2. CASE ~notEmpty(fifo)
  <2>1. Forward(fifo) = NoForward /\ ~(Len(fifo) >= 1)
    BY <1>2, FifoHead DEF Forward
  <2> QED
    BY <2>1 DEF NoForward
<1> QED
  BY <1>1, <1>2

\* A write that is not seen any more by one path is seen by the next.
LEMMA PathsFollow ==
  ASSUME m2w \in Seq(Done), NEW w \in {0, 1}, Wrote(w)
  PROVE  /\ rf' = rf \/ wbForwardR'.match
         /\ w = 1 /\ wbForward.match => wbForwardR'.match
         /\ wbForwardR.match => wbForwardR'.match \/ wbForwardR2'.match
<1>1. wbForward.match <=> Len(m2w) >= 1 /\ m2w[1].rd = "r" /\ ~m2w[1].poisoned
  BY ForwardFacts DEF wbForward
<1>2. CASE /\ wbForwardR' = wbForwardR /\ wbForwardR2' = wbForwardR2
           /\ w = 1 => m2w[1].poisoned \/ m2w[1].rd = "none"
  <2>1. rf' = rf
    BY <1>2 DEF Wrote, Updated
  <2>2. "r" # "none"
    OBVIOUS
  <2> QED
    BY <1>1, <1>2, <2>1, <2>2
<1>3. CASE /\ w = 1 /\ ~m2w[1].poisoned
           /\ wbForwardR2' = wbForwardR
           /\ wbForwardR'.match <=> m2w[1].rd = "r"
           /\ wbForwardR'.data = m2w[1].value
  <2>1. rf' = IF m2w[1].rd = "r" THEN m2w[1].value ELSE rf
    BY <1>3 DEF Wrote, Updated
  <2> QED
    BY <1>1, <1>3, <2>1
<1> QED
  BY <1>2, <1>3 DEF Wrote

\* What a FIFO of at most one entry forwards is what it writes.
LEMMA ForwardIsLastWrite ==
  ASSUME NEW fifo \in Seq(Done), Len(fifo) <= 1, NEW v
  PROVE  /\ ~Forward(fifo).match => LastWrite(fifo, v) = v
         /\ Forward(fifo).match /\ Forward(fifo).data_valid => LastWrite(fifo, v) = Forward(fifo).data
<1>1. Len(fifo) = 0 \/ Len(fifo) = 1
  <2>1. PICK l \in Nat : l = Len(fifo)
    OBVIOUS
  <2> QED
    BY <2>1
<1>2. CASE Len(fifo) = 0
  <2>1. ~Forward(fifo).match
    <3>1. Forward(fifo).match <=> Len(fifo) >= 1 /\ fifo[1].rd = "r" /\ ~fifo[1].poisoned
      BY ForwardFacts
    <3>2. ~(Len(fifo) >= 1)
      BY <1>2
    <3> QED
      BY <3>1, <3>2
  <2>2. LastWrite(fifo, v) = v
    BY <1>2 DEF LastWrite
  <2> QED
    BY <2>1, <2>2
<1>3. CASE Len(fifo) = 1
  <2>1. LastWrite(fifo, v) = Updated(fifo[1], v)
    BY <1>3 DEF LastWrite
  <2>2. Forward(fifo).match <=> fifo[1].rd = "r" /\ ~fifo[1].poisoned
    BY <1>3, ForwardFacts
  <2> QED
    BY <2>1, <2>2, ForwardFacts DEF Updated
<1> QED
  BY <1>1, <1>2, <1>3

\* While memory is prompt, memory and writeback fire whenever they have something.
PromptMoves(w, m, x) ==
  /\ Len(e2m') = x /\ Len(m2w') = m
  /\ m = 0 => e2m = <<>>
  /\ m = 1 => notEmpty(e2m) /\ notEmpty(m2w') /\ Head(m2w') = Head(e2m)
  /\ w = 0 => m2w = <<>>
  /\ x = 0 /\ Len(d2e) >= 1 => Stall(d2e[1])

LEMMA PromptStages ==
  ASSUME TypeOK, OperandsInReach, ~late, NEW imem \in Inputs, NEW dmem \in Inputs,
         dmem.answer, dmem.ready, NEW taken \in BOOLEAN, NEW watch \in BOOLEAN,
         NEW w \in {0, 1}, NEW m \in {0, 1}, NEW x \in {0, 1}, NEW d \in {0, 1},
         NEW f \in {0, 1}, NEW t \in BOOLEAN, InStep(imem, dmem, taken, watch, w, m, x, d, f, t)
  PROVE  PromptMoves(w, m, x)
<1>1. /\ d2e \in Seq(Waiting) /\ e2m \in Seq(Done) /\ m2w \in Seq(Done)
  BY TypesApart DEF FifosOK, IsFifo
<1>2. PICK de, em, mw \in Nat : de = Len(d2e) /\ em = Len(e2m) /\ mw = Len(m2w)
  BY <1>1
<1>3. em <= 1 /\ mw <= 1
  BY <1>2 DEF OperandsInReach
<1>4. m = 1 <=> em >= 1
  BY <1>1, <1>2, <1>3, FifoHead DEF InStep, Fires, MemoryFires, notFull, FifoDepth
<1>5. w = 1 <=> mw >= 1
  BY <1>1, <1>2, <1>3, FifoHead DEF InStep, Fires, WritebackFires
<1>6. Moved(e2m, e2m', m, x, Executed(d2e[1], watch)) /\ Moved(m2w, m2w', w, m, e2m[1])
  BY DEF InStep, ExecuteMoves, MemoryMoves
<1>7. Len(e2m') = x /\ Len(m2w') = m
  BY <1>2, <1>3, <1>4, <1>5, <1>6 DEF Moved
<1>8. m = 0 => e2m = <<>>
  BY <1>1, <1>2, <1>4
<1>9. w = 0 => m2w = <<>>
  BY <1>1, <1>2, <1>5
<1>10. m = 1 => notEmpty(e2m) /\ notEmpty(m2w') /\ Head(m2w') = Head(e2m)
  <2> SUFFICES ASSUME m = 1
               PROVE  notEmpty(e2m) /\ notEmpty(m2w') /\ Head(m2w') = Head(e2m)
    OBVIOUS
  <2>1. m2w' \in Seq(Done)
    BY DEF InStep, MemoryMoves
  <2>2. mw - w + 1 = 1
    BY <1>3, <1>5
  <2>3. m2w'[1] = e2m[1]
    BY <1>2, <1>6, <2>2 DEF Moved
  <2>4. notEmpty(e2m) /\ Head(e2m) = e2m[1]
    BY <1>1, <1>2, <1>4, FifoHead
  <2>5. Len(m2w') >= 1
    BY <1>7
  <2>6. m2w' # <<>> /\ Head(m2w') = m2w'[1]
    BY <2>1, <2>5
  <2>7. notEmpty(m2w')
    BY <2>6 DEF notEmpty
  <2> QED
    BY <2>3, <2>4, <2>6, <2>7
<1>11. x = 0 /\ Len(d2e) >= 1 => Stall(d2e[1])
  BY <1>1, <1>2, <1>3, FifoHead DEF InStep, Fires, Executes, notFull, FifoDepth
<1> QED
  BY <1>7, <1>8, <1>9, <1>10, <1>11 DEF PromptMoves

\* An instruction that stalls waits for a write, which the next path then shows.
LEMMA StallsOnWrites ==
  ASSUME NEW e, Stall(e)
  PROVE  memForward.match \/ wbForward.match
BY DEF Stall

\* As long as data memory is prompt, every value that is old is in reach.
LEMMA OperandsKept ==
  ASSUME TypeOK, OperandsInReach, NEW imem \in Inputs, NEW dmem \in Inputs,
         dmem.answer => dmem.ready,
         NEW taken \in BOOLEAN, NEW watch \in BOOLEAN, Cycle(imem, dmem, taken, watch)
  PROVE  OperandsInReach'
<1> SUFFICES ASSUME ~late'
             PROVE  /\ Len(e2m') <= 1 /\ Len(m2w') <= 1 /\ memForwardR' = wbForward'
                    /\ Len(d2e') = 2 => e2m' = <<>>
                    /\ Len(d2e') >= 1 /\ d2e'[1].reads =>
                         \/ memForward'.match \/ wbForward'.match
                         \/ wbForwardR'.match \/ wbForwardR2'.match
                         \/ d2e'[1].rv = rf'
                    /\ Len(d2e') = 2 /\ d2e'[2].reads =>
                         wbForward'.match \/ wbForwardR'.match \/ d2e'[2].rv = rf'
  BY DEF OperandsInReach
<1>1. ~late /\ dmem.answer /\ dmem.ready
  BY DEF Cycle
<1>2. FifosOK
  BY TypesApart
<1>3. PICK w, m, x, d, f \in {0, 1}, t \in BOOLEAN :
        InStep(imem, dmem, taken, watch, w, m, x, d, f, t)
  <2>1. SomeStep(imem, dmem, taken, watch)
    BY <1>2, CycleMoves
  <2> QED
    BY <2>1 DEF SomeStep
<1>4. /\ d2e \in Seq(Waiting) /\ e2m \in Seq(Done) /\ m2w \in Seq(Done)
      /\ Len(d2e) <= 2
  BY <1>2 DEF FifosOK, IsFifo, FifoDepth
<1>5. PICK de \in Nat : de = Len(d2e) /\ de <= 2
  BY <1>4
<1>6. /\ Len(e2m') = x /\ Len(m2w') = m
      /\ m = 0 => e2m = <<>>
      /\ m = 1 => notEmpty(e2m) /\ notEmpty(m2w') /\ Head(m2w') = Head(e2m)
      /\ w = 0 => m2w = <<>>
      /\ x = 0 /\ Len(d2e) >= 1 => Stall(d2e[1])
  <2>1. PromptMoves(w, m, x)
    BY <1>1, <1>3, PromptStages
  <2> QED
    BY <2>1 DEF PromptMoves
<1>7. Wrote(w)
  BY <1>2, <1>3, WritingBack DEF Cycle, InStep, Fires
<1>8. /\ e2m' \in Seq(Done) /\ m2w' \in Seq(Done)
  BY <1>3 DEF InStep, ExecuteMoves, MemoryMoves
<1>9. wbForward' = memForward
  <2>1. CASE m = 1
    BY <1>6, <2>1 DEF wbForward, memForward, Forward, notEmpty
  <2>2. CASE m = 0
    <3>1. m2w' = <<>>
      BY <1>6, <1>8, <2>2
    <3> QED
      BY <1>6, <2>2, <3>1 DEF wbForward, memForward, Forward, notEmpty
  <2> QED
    BY <2>1, <2>2
<1>10. memForwardR' = wbForward'
  BY <1>7, <1>9 DEF Wrote
\* A write that could be seen can be seen after the step.
<1>11. /\ memForward.match => wbForward'.match
       /\ wbForward.match => wbForwardR'.match
       /\ wbForwardR.match => wbForwardR'.match \/ wbForwardR2'.match
       /\ rf' = rf \/ wbForwardR'.match
  <2>1. /\ rf' = rf \/ wbForwardR'.match
        /\ w = 1 /\ wbForward.match => wbForwardR'.match
        /\ wbForwardR.match => wbForwardR'.match \/ wbForwardR2'.match
    BY <1>4, <1>7, PathsFollow
  <2>2. w = 0 => ~wbForward.match
    BY <1>6 DEF wbForward, Forward, notEmpty, NoForward
  <2> QED
    BY <1>9, <2>1, <2>2
<1>12. /\ Len(d2e') = de - x + d
       /\ \A i \in 1 .. de - x : d2e'[i].rv = d2e[i + x].rv /\ d2e'[i].reads = d2e[i + x].reads
       /\ d = 1 => (d2e'[de - x + 1].reads => d2e'[de - x + 1].rv = rf)
  BY <1>3, <1>5 DEF InStep, DecodeMoves
<1>13. /\ x = 1 => de >= 1
       /\ d = 1 => de <= 1
  BY <1>3, <1>4, <1>5, FifoHead DEF InStep, Fires, Executes, Decodes, notFull, FifoDepth
<1>14. Len(d2e') = 2 => x = 0
  <2>1. de - x + d = 2 => x = 0
    BY <1>5, <1>13
  <2> QED
    BY <1>12, <2>1
<1>15. Len(d2e') = 2 => e2m' = <<>>
  BY <1>6, <1>8, <1>14
<1>16. x = 0 /\ de >= 1 => wbForward'.match \/ wbForwardR'.match
  BY <1>5, <1>6, <1>11, StallsOnWrites
<1>17. ASSUME Len(d2e') >= 1, d2e'[1].reads
       PROVE  \/ memForward'.match \/ wbForward'.match
              \/ wbForwardR'.match \/ wbForwardR2'.match
              \/ d2e'[1].rv = rf'
  <2>1. CASE x = 0 /\ de >= 1
    BY <1>16, <2>1
  <2>2. CASE x = 1 /\ de = 2
    <3>1. 1 \in 1 .. de - x /\ 1 + x = 2
      BY <2>2
    <3>2. d2e'[1].rv = d2e[2].rv /\ d2e'[1].reads = d2e[2].reads
      BY <1>12, <3>1
    <3>3. wbForward.match \/ wbForwardR.match \/ d2e[2].rv = rf
      BY <1>1, <1>5, <1>17, <2>2, <3>2 DEF OperandsInReach
    <3> QED
      BY <1>11, <3>2, <3>3
  <2>3. CASE d = 1 /\ de - x + 1 = 1
    <3>1. d2e'[1].rv = rf
      BY <1>12, <1>17, <2>3
    <3> QED
      BY <1>11, <3>1
  <2>4. \/ x = 0 /\ de >= 1
        \/ x = 1 /\ de = 2
        \/ d = 1 /\ de - x + 1 = 1
    BY <1>5, <1>12, <1>13, <1>17
  <2> QED
    BY <2>1, <2>2, <2>3, <2>4
<1>18. ASSUME Len(d2e') = 2, d2e'[2].reads
       PROVE  wbForward'.match \/ wbForwardR'.match \/ d2e'[2].rv = rf'
  <2>1. x = 0 /\ de + d = 2
    <3>1. x = 0
      BY <1>14, <1>18
    <3>2. Len(d2e') = de - x + d
      BY <1>12
    <3> QED
      BY <1>5, <1>18, <3>1, <3>2, SMTT(30)
  <2>2. CASE de >= 1
    BY <1>16, <2>1, <2>2
  <2>3. CASE de = 0
    BY <2>1, <2>3
  <2> QED
    BY <1>5, <2>2, <2>3
<1> QED
  BY <1>6, <1>10, <1>15, <1>17, <1>18

-----------------------------------------------------------------------------
\* What the invariant says of a state.

\* The epoch of what executes tells whether it is of the program.
LEMMA EpochTells ==
  ASSUME TypeOK, EpochsInOrder
  PROVE  SquashExactly
<1>1. d2e \in Seq(Waiting)
  BY TypesApart DEF FifosOK, IsFifo
<1>2. CASE notEmpty(d2e)
  <2>1. Head(d2e) = d2e[1] /\ Len(d2e) \in Nat /\ Len(d2e) >= 1
    BY <1>1, <1>2, FifoHead
  <2>2. 1 \in 1 .. Len(d2e)
    BY <2>1
  <2> QED
    BY <2>1, <2>2 DEF EpochsInOrder, SquashExactly
<1> QED
  BY <1>2 DEF SquashExactly

\* Five paths, of which the first that matches counts.
LEMMA FirstOfPaths ==
  ASSUME NEW rv, NEW p1, NEW p2, NEW p3, NEW p4, NEW p5
  PROVE  FirstMatch(<<p1, p2, p3, p4, p5>>, rv)
           = IF p1.match THEN p1.data ELSE IF p2.match THEN p2.data
             ELSE IF p3.match THEN p3.data ELSE IF p4.match THEN p4.data
             ELSE IF p5.match THEN p5.data ELSE rv
<1>1. PICK paths : paths = <<p1, p2, p3, p4, p5>>
  OBVIOUS
<1>2. /\ Len(paths) = 5 /\ paths[1] = p1 /\ paths[2] = p2 /\ paths[3] = p3
      /\ paths[4] = p4 /\ paths[5] = p5
  BY <1>1
<1>3. PICK matches : matches = {p \in 1 .. 5 : paths[p].match}
  OBVIOUS
<1>4. FirstMatch(paths, rv) = IF matches = {} THEN rv ELSE paths[Min(matches)].data
  BY <1>2, <1>3 DEF FirstMatch
<1>5. ASSUME NEW p \in matches, \A q \in matches : p <= q
      PROVE  FirstMatch(paths, rv) = paths[p].data
  <2>1. matches \in SUBSET Nat
    BY <1>3
  <2>2. Min(matches) \in matches /\ \A q \in matches : Min(matches) <= q
    BY <1>5 DEF Min
  <2>3. PICK least \in Nat : least = Min(matches)
    BY <2>1, <2>2
  <2>4. p \in Nat /\ p <= least /\ least <= p
    BY <1>5, <2>1, <2>2, <2>3
  <2>5. Min(matches) = p
    BY <2>3, <2>4
  <2> QED
    BY <1>4, <1>5, <2>5
<1>6. CASE p1.match
  <2>1. 1 \in matches /\ \A q \in matches : 1 <= q
    BY <1>2, <1>3, <1>6
  <2> QED
    BY <1>1, <1>2, <1>5, <1>6, <2>1
<1>7. CASE ~p1.match /\ p2.match
  <2>1. 2 \in matches /\ \A q \in matches : 2 <= q
    BY <1>2, <1>3, <1>7
  <2> QED
    BY <1>1, <1>2, <1>5, <1>7, <2>1
<1>8. CASE ~p1.match /\ ~p2.match /\ p3.match
  <2>1. 3 \in matches /\ \A q \in matches : 3 <= q
    BY <1>2, <1>3, <1>8
  <2> QED
    BY <1>1, <1>2, <1>5, <1>8, <2>1
<1>9. CASE ~p1.match /\ ~p2.match /\ ~p3.match /\ p4.match
  <2>1. 4 \in matches /\ \A q \in matches : 4 <= q
    BY <1>2, <1>3, <1>9
  <2> QED
    BY <1>1, <1>2, <1>5, <1>9, <2>1
<1>10. CASE ~p1.match /\ ~p2.match /\ ~p3.match /\ ~p4.match /\ p5.match
  <2>1. 5 \in matches /\ \A q \in matches : 5 <= q
    BY <1>2, <1>3, <1>10
  <2> QED
    BY <1>1, <1>2, <1>5, <1>10, <2>1
<1>11. CASE ~p1.match /\ ~p2.match /\ ~p3.match /\ ~p4.match /\ ~p5.match
  <2>1. matches = {}
    BY <1>2, <1>3, <1>11
  <2> QED
    BY <1>1, <1>4, <1>11, <2>1
<1> QED
  BY <1>6, <1>7, <1>8, <1>9, <1>10, <1>11

\* While memory is prompt, what is executed reads the latest value.
LEMMA OperandFound ==
  ASSUME TypeOK, LatestOnItsWay, ForwardsWritten, OperandsInReach
  PROVE  OperandIsLatestIfPrompt
<1> SUFFICES ASSUME ~late, Executes, Head(d2e).reads
             PROVE  OperandOf(Head(d2e)) = latest
  BY DEF OperandIsLatestIfPrompt, OperandIsLatest
<1>1. d2e \in Seq(Waiting) /\ e2m \in Seq(Done) /\ m2w \in Seq(Done)
  BY TypesApart DEF FifosOK, IsFifo
<1>2. PICK e : e = Head(d2e) /\ e = d2e[1] /\ Len(d2e) >= 1
  BY <1>1, FifoHead DEF Executes
<1>3. Len(e2m) <= 1 /\ Len(m2w) <= 1 /\ memForwardR = wbForward
  BY DEF OperandsInReach
<1>4. PICK before : before = LastWrite(m2w, rf)
  OBVIOUS
<1>5. latest = LastWrite(e2m, before)
  BY <1>4 DEF LatestOnItsWay
<1>6. /\ ~memForward.match => latest = before
      /\ memForward.match /\ memForward.data_valid => latest = memForward.data
  BY <1>1, <1>3, <1>5, ForwardIsLastWrite DEF memForward
<1>7. /\ ~wbForward.match => before = rf
      /\ wbForward.match /\ wbForward.data_valid => before = wbForward.data
  BY <1>1, <1>3, <1>4, ForwardIsLastWrite DEF wbForward
<1>8. /\ memForward.match => memForward.data_valid
      /\ wbForward.match => wbForward.data_valid
  BY DEF Executes, Stall
<1>9. OperandOf(e)
        = IF memForward.match THEN memForward.data
          ELSE IF memForwardR.match THEN memForwardR.data
          ELSE IF wbForward.match THEN wbForward.data
          ELSE IF wbForwardR.match THEN wbForwardR.data
          ELSE IF wbForwardR2.match THEN wbForwardR2.data ELSE e.rv
  BY FirstOfPaths DEF OperandOf
<1>10. /\ wbForwardR.match => wbForwardR.data = rf
       /\ wbForwardR2.match /\ ~wbForwardR.match => wbForwardR2.data = rf
  BY DEF ForwardsWritten
<1>11. \/ memForward.match \/ wbForward.match \/ wbForwardR.match \/ wbForwardR2.match
       \/ e.rv = rf
  BY <1>2 DEF OperandsInReach
<1>12. OperandOf(e) = latest
  <2>1. CASE memForward.match
    BY <1>6, <1>8, <1>9, <2>1
  <2>2. CASE ~memForward.match /\ wbForward.match
    BY <1>3, <1>6, <1>7, <1>8, <1>9, <2>2
  <2>3. CASE ~memForward.match /\ ~wbForward.match
    <3>1. latest = rf /\ ~memForwardR.match
      BY <1>3, <1>6, <1>7, <2>3
    <3> QED
      BY <1>9, <1>10, <1>11, <2>3, <3>1
  <2> QED
    BY <2>1, <2>2, <2>3
<1> QED
  BY <1>2, <1>12

\* A FIFO in which nothing writes the register leaves it.
LEMMA NothingToWrite ==
  ASSUME NEW fifo \in Seq(Done), Len(fifo) <= 2, NEW v,
         \A e \in Range(fifo) : e.rd = "r" => e.poisoned
  PROVE  LastWrite(fifo, v) = v
<1>1. PICK l \in Nat : l = Len(fifo) /\ l <= 2
  OBVIOUS
<1>2. ASSUME NEW i \in 1 .. l, NEW value PROVE Updated(fifo[i], value) = value
  <2>1. fifo[i] \in Range(fifo)
    BY <1>1 DEF Range
  <2> QED
    BY <2>1 DEF Updated
<1>3. CASE l = 0
  BY <1>1, <1>3 DEF LastWrite
<1>4. CASE l = 1
  BY <1>1, <1>2, <1>4 DEF LastWrite
<1>5. CASE l = 2
  <2>1. LastWrite(fifo, v) = Updated(fifo[2], Updated(fifo[1], v))
    BY <1>1, <1>5 DEF LastWrite
  <2>2. 1 \in 1 .. l /\ 2 \in 1 .. l
    BY <1>5
  <2> QED
    BY <1>2, <2>1, <2>2
<1> QED
  BY <1>1, <1>3, <1>4, <1>5

\* With no write on its way the register file has the latest value.
LEMMA CaughtUp ==
  ASSUME TypeOK, LatestOnItsWay
  PROVE  RegisterFileCatchesUp
<1> SUFFICES ASSUME \A e \in Range(e2m) \cup Range(m2w) : e.rd = "r" => e.poisoned
             PROVE  rf = latest
  BY DEF RegisterFileCatchesUp
<1>1. /\ e2m \in Seq(Done) /\ m2w \in Seq(Done) /\ Len(e2m) <= 2 /\ Len(m2w) <= 2
  BY TypesApart DEF FifosOK, IsFifo, FifoDepth
<1>2. LastWrite(m2w, rf) = rf
  BY <1>1, NothingToWrite
<1>3. LastWrite(e2m, rf) = rf
  BY <1>1, NothingToWrite
<1> QED
  BY <1>2, <1>3 DEF LatestOnItsWay

-----------------------------------------------------------------------------
LEMMA Starts ==
  ASSUME Init
  PROVE  IInv
<1>1. f2d = <<>> /\ d2e = <<>> /\ e2m = <<>> /\ m2w = <<>> /\ rf = "other" /\ latest = "other"
  BY DEF Init
<1>2. NoForward \in Forwards /\ ~NoForward.match
  BY DEF NoForward, Forwards, Values
<1>3. /\ memForwardR = NoForward /\ wbForwardR = NoForward /\ wbForwardR2 = NoForward
      /\ wbForward = NoForward
  BY DEF Init, wbForward, Forward, notEmpty
<1>4. TypeOK
  <2>1. IsFifo(f2d, Fetched) /\ IsFifo(d2e, Waiting) /\ IsFifo(e2m, Done) /\ IsFifo(m2w, Done)
    BY <1>1 DEF IsFifo, FifoDepth
  <2>2. /\ epoch \in {0, 1} /\ rf \in Values /\ latest \in Values
        /\ watching \in BOOLEAN /\ late \in BOOLEAN
    BY DEF Init, Values
  <2>3. FifosOK
    BY <2>1, <2>2 DEF FifosOK
  <2> QED
    BY <1>2, <1>3, <2>2, <2>3, TypesApart
<1>5. EpochsInOrder
  BY <1>1 DEF EpochsInOrder, StaleFirst
<1>6. LatestOnItsWay
  BY <1>1 DEF LatestOnItsWay, LastWrite
<1>7. ForwardsWritten
  BY <1>2, <1>3 DEF ForwardsWritten
<1>8. OperandsInReach
  BY <1>1, <1>3 DEF OperandsInReach
<1>9. SquashExactly
  BY <1>4, <1>5, EpochTells
<1> QED
  BY <1>4, <1>5, <1>6, <1>7, <1>8, <1>9 DEF IInv, PipelineInv

LEMMA CycleKeeps ==
  ASSUME IInv, NEW imem \in Inputs, NEW dmem \in Inputs, dmem.answer => dmem.ready,
         NEW taken \in BOOLEAN, NEW watch \in BOOLEAN, Cycle(imem, dmem, taken, watch)
  PROVE  TypeOK' /\ EpochsInOrder' /\ LatestOnItsWay' /\ ForwardsWritten' /\ OperandsInReach'
<1>1. TypeOK /\ EpochsInOrder /\ LatestOnItsWay /\ ForwardsWritten /\ OperandsInReach
  BY DEF IInv, PipelineInv
<1>2. TypeOK'
  BY <1>1, TypesKept
<1>3. EpochsInOrder'
  BY <1>1, EpochsKept
<1>4. LatestOnItsWay'
  BY <1>1, LatestKept
<1>5. ForwardsWritten'
  <2>1. FifosOK
    BY <1>1, TypesApart
  <2>2. PICK w \in {0, 1} : w = 1 <=> WritebackFires(dmem.answer)
    OBVIOUS
  <2>3. Wrote(w)
    BY <2>1, <2>2, WritingBack DEF Cycle
  <2> QED
    BY <1>1, <2>3, ForwardsKept
<1>6. OperandsInReach'
  BY <1>1, OperandsKept
<1> QED
  BY <1>2, <1>3, <1>4, <1>5, <1>6

LEMMA StepKeeps ==
  ASSUME IInv, [Next]_vars
  PROVE  TypeOK' /\ EpochsInOrder' /\ LatestOnItsWay' /\ ForwardsWritten' /\ OperandsInReach'
<1>1. CASE Next
  <2>1. \A wait : \A input \in MemoryInputs(wait) :
          input \in Inputs /\ (input.answer => input.ready)
    <3> SUFFICES ASSUME NEW wait, NEW input \in MemoryInputs(wait)
                 PROVE  input \in Inputs /\ (input.answer => input.ready)
      OBVIOUS
    <3>1. CASE input = [ready |-> TRUE, answer |-> TRUE]
      BY <3>1 DEF Inputs
    <3>2. CASE input \in [ready : BOOLEAN, answer : {FALSE}]
      <4>1. PICK ready \in BOOLEAN : input = [ready |-> ready, answer |-> FALSE]
        BY <3>2
      <4> QED
        BY <4>1 DEF Inputs
    <3> QED
      BY <3>1, <3>2 DEF MemoryInputs
  <2>2. PICK imem \in MemoryInputs(ImemLate /\ notEmpty(f2d)),
             dmem \in MemoryInputs(WaitsForData), taken \in BOOLEAN, watch \in BOOLEAN :
          Cycle(imem, dmem, taken, watch)
    BY <1>1 DEF Next
  <2> QED
    BY <2>1, <2>2, CycleKeeps
<1>2. CASE UNCHANGED vars
  <2>1. /\ UNCHANGED <<f2d, d2e, e2m, m2w, epoch, rf>>
        /\ UNCHANGED <<memForwardR, wbForwardR, wbForwardR2, watching, latest, late>>
    BY <1>2 DEF vars, stages, forwards
  <2>2. memForward' = memForward /\ wbForward' = wbForward
    BY <2>1 DEF memForward, wbForward, Forward, notEmpty
  <2>3. TypeOK'
    BY <2>1 DEF IInv, PipelineInv, TypeOK
  <2>4. EpochsInOrder'
    BY <2>1 DEF IInv, EpochsInOrder, InEpoch, StaleFirst
  <2>5. LatestOnItsWay'
    BY <2>1 DEF IInv, LatestOnItsWay
  <2>6. ForwardsWritten'
    BY <2>1 DEF IInv, ForwardsWritten
  <2>7. OperandsInReach'
    BY <2>1, <2>2 DEF IInv, OperandsInReach
  <2> QED
    BY <2>3, <2>4, <2>5, <2>6, <2>7
<1> QED
  BY <1>1, <1>2

-----------------------------------------------------------------------------
\* Whatever the instructions and however late the memories: the stages hold
\* what they are declared for, the one bit of epoch squashes exactly what was
\* fetched before a jump, every result is on its way to the register file in
\* the order of the program, and what the forwarding registers hold is written.
THEOREM PipelineInvariant == Spec => []IInv
<1>1. Init => IInv
  BY Starts
<1>2. IInv /\ [Next]_vars => IInv'
  <2> SUFFICES ASSUME IInv, [Next]_vars PROVE IInv'
    OBVIOUS
  <2>1. TypeOK' /\ EpochsInOrder' /\ LatestOnItsWay' /\ ForwardsWritten' /\ OperandsInReach'
    BY StepKeeps
  <2>2. TypeOK' /\ EpochsInOrder' => SquashExactly'
    BY EpochTells, PTL
  <2> QED
    BY <2>1, <2>2 DEF IInv, PipelineInv
<1> QED
  BY <1>1, <1>2, PTL DEF Spec

\* No instruction of the program that executes takes an older value of its
\* operand than the one written last before it, wherever that is, as long as
\* loads and stores get their answers in the next cycle.
THEOREM OperandsRightIfPrompt == Spec => []OperandIsLatestIfPrompt
<1>1. IInv => OperandIsLatestIfPrompt
  BY OperandFound DEF IInv, PipelineInv
<1> QED
  BY <1>1, PipelineInvariant, PTL

\* The register file gets every result of the program, in its order, and none
\* of an instruction behind a jump, however late the memories are.
THEOREM RegisterFileRight == Spec => []RegisterFileCatchesUp
<1>1. IInv => RegisterFileCatchesUp
  BY CaughtUp DEF IInv, PipelineInv
<1> QED
  BY <1>1, PipelineInvariant, PTL

=============================================================================
