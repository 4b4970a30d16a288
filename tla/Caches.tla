------------------------------- MODULE Caches -------------------------------
(***************************************************************************)
(* The memory of a core built with CACHE_ENABLE: an instruction and a data *)
(* cache (Cache32.bsv), the cache they share (Cache512.bsv) and main       *)
(* memory with its delay line, as CacheInterface.bsv connects them.        *)
(*                                                                         *)
(* One action per rule and per method the core calls.  A line is a         *)
(* function from offsets to words, a word from bytes to values.  What the  *)
(* RAMs of a cache answer to a request (tag, dirty bit and data as they    *)
(* were then) is kept with the request.                                    *)
(***************************************************************************)
EXTENDS Integers, SequencesExt

CONSTANTS Lines,      \* addresses of lines that are used
          Offsets, Bytes, Values,   \* the words of a line, the bytes of a word: 16, 4, 256
          L1Sets,     \* 128 in the source
          L2Sets,     \* 256
          DataRequests, InstrRequests,  \* [line, offset, bytes, data]; a load has no bytes
          Contents,   \* memlines.mem
          Ack,        \* what is in hitQ after a store: "don't care"
          NoData      \* the data of a line that was never filled

Word     == [Bytes -> Values]
Data     == [Offsets -> Word]
Requests == [line : Lines, offset : Offsets, bytes : SUBSET Bytes, data : Word]

ASSUME CachesAssumption ==
  /\ Lines \subseteq Nat
  /\ L1Sets \in Nat \ {0} /\ L2Sets \in Nat \ {0}
  /\ DataRequests \subseteq Requests
  /\ InstrRequests \subseteq {r \in Requests : r.bytes = {}}
  /\ Contents \in [Lines -> Data]

VARIABLES l1,         \* for I and for D: a Cache32
          l2,         \* the Cache512
          l2ReqFifo,  \* who waits for a line of l2
          mem, dl     \* MainMem: its BRAM, and answers on their way

vars == <<l1, l2, l2ReqFifo, mem, dl>>

Sides == {"I", "D"}

RequestsOf(s) == IF s = "I" THEN InstrRequests ELSE DataRequests

NoLine == [valid |-> FALSE, dirty |-> FALSE, tag |-> 0, data |-> NoData]

EmptyCache(sets) ==
  [store |-> [i \in 0 .. sets - 1 |-> NoLine], state |-> "WaitCAUResp",
   currReqQ |-> <<>>, hitQ |-> <<>>, lineReqQ |-> <<>>, lineRespQ |-> <<>>]

Init == /\ l1 = [s \in Sides |-> EmptyCache(L1Sets)]
        /\ l2 = EmptyCache(L2Sets)
        /\ l2ReqFifo = <<>>
        /\ mem = Contents
        /\ dl = <<>>

ReadOf(line)         == [write |-> FALSE, line |-> line, data |-> NoData]
WriteOf(line, data)  == [write |-> TRUE, line |-> line, data |-> data]

-----------------------------------------------------------------------------
(* Cache32.                                                                *)

Index1(line) == line % L1Sets
Tag1(line)   == line \div L1Sets
Entry1(s, line) == l1[s].store[Index1(line)]
Hits1(s, line)  == Entry1(s, line).valid /\ Entry1(s, line).tag = Tag1(line)

\* Wrong variant: the offset is left out (data_ofs).
StoredAtStart(data, r) ==
  [data EXCEPT ![0] = [b \in DOMAIN @ |-> IF b \in r.bytes THEN r.data[b] ELSE @[b]]]

\* The bytes that word_byte selects, in the word the offset selects.
Stored(data, r) ==
  [data EXCEPT ![r.offset] = [b \in DOMAIN @ |-> IF b \in r.bytes THEN r.data[b] ELSE @[b]]]

\* cau.req: a store that hits is done at once.
putFromProc(s, r) ==
  /\ l1[s].currReqQ = <<>>
  /\ LET hit   == Hits1(s, r.line)
         entry == Entry1(s, r.line)
         asked == [req |-> r, hit |-> hit, tagged |-> entry]
         new   == IF hit /\ r.bytes # {} THEN [entry EXCEPT !.dirty = TRUE, !.data = Stored(@, r)]
                  ELSE entry
     IN  l1' = [l1 EXCEPT ![s] = [l1[s] EXCEPT !.currReqQ = <<asked>>, !.store[Index1(r.line)] = new]]
  /\ UNCHANGED <<l2, l2ReqFifo, mem, dl>>

\* The request a cache works on, and what hitQ gets for it: a store is only
\* acknowledged.
Curr(s)   == Head(l1[s].currReqQ)
Wanted(s) == Curr(s).req.line

Reply(r, line) == IF r.bytes = {} THEN line[r.offset] ELSE Ack

\* The line that was found in the place of the one asked for: {x.tag, pa.index}.
Evicted(curr) == WriteOf(curr.tagged.tag * L1Sets + Index1(curr.req.line), curr.tagged.data)

handleCAUResponse(s) ==
  /\ l1[s].state = "WaitCAUResp" /\ l1[s].currReqQ # <<>>
  /\ LET curr == Curr(s)
     IN  \/ /\ curr.hit
            /\ l1[s].hitQ = <<>>
            /\ l1' = [l1 EXCEPT ![s] = [l1[s] EXCEPT !.currReqQ = <<>>,
                                                !.hitQ = <<Reply(curr.req, curr.tagged.data)>>]]
         \/ /\ ~curr.hit
            /\ Len(l1[s].lineReqQ) < 2
            /\ LET request == IF curr.tagged.dirty THEN Evicted(curr) ELSE ReadOf(curr.req.line)
                   next    == IF curr.tagged.dirty THEN "SendReq" ELSE "WaitDramResp"
               IN  l1' = [l1 EXCEPT ![s] = [l1[s] EXCEPT !.lineReqQ = Append(@, request), !.state = next]]
  /\ UNCHANGED <<l2, l2ReqFifo, mem, dl>>

handleWriteback(s) ==
  /\ l1[s].state = "SendReq"
  /\ Len(l1[s].lineReqQ) < 2
  /\ l1' = [l1 EXCEPT ![s] = [l1[s] EXCEPT !.lineReqQ = Append(@, ReadOf(Wanted(s))), !.state = "WaitDramResp"]]
  /\ UNCHANGED <<l2, l2ReqFifo, mem, dl>>

\* Wrong variants: a line is clean when it comes, whatever was asked for; its
\* tag is the whole address.
FilledClean(r, line) == [valid |-> TRUE, dirty |-> FALSE, tag |-> Tag1(r.line), data |-> Stored(line, r)]

FilledAddress(r, line) == [valid |-> TRUE, dirty |-> r.bytes # {}, tag |-> r.line, data |-> Stored(line, r)]

\* A line that has come, with the store that waited for it.
Filled(r, line) == [valid |-> TRUE, dirty |-> r.bytes # {}, tag |-> Tag1(r.line), data |-> Stored(line, r)]

handleDramResponse(s) ==
  /\ l1[s].state = "WaitDramResp"
  /\ l1[s].lineRespQ # <<>> /\ l1[s].hitQ = <<>>
  /\ LET r    == Curr(s).req
         line == Head(l1[s].lineRespQ)
     IN  l1' = [l1 EXCEPT ![s] = [l1[s] EXCEPT !.lineRespQ = Tail(@), !.currReqQ = <<>>,
                                          !.hitQ = <<Reply(r, line)>>,
                                          !.store[Index1(r.line)] = Filled(r, line),
                                          !.state = "WaitCAUResp"]]
  /\ UNCHANGED <<l2, l2ReqFifo, mem, dl>>

getToProc(s) == /\ l1[s].hitQ # <<>>
                /\ l1' = [l1 EXCEPT ![s] = [l1[s] EXCEPT !.hitQ = <<>>]]
                /\ UNCHANGED <<l2, l2ReqFifo, mem, dl>>

-----------------------------------------------------------------------------
(* Cache512.                                                               *)

Index2(line) == line % L2Sets
Tag2(line)   == line \div L2Sets
Entry2(line) == l2.store[Index2(line)]
Hits2(line)  == Entry2(line).valid /\ Entry2(line).tag = Tag2(line)

Curr2 == Head(l2.currReqQ)

Evicted2 == WriteOf(Curr2.tagged.tag * L2Sets + Index2(Curr2.req.line), Curr2.tagged.data)

\* l2 after putFromProc: a write that hits is done and leaves nothing to wait for.
Taken(m) ==
  IF m.write /\ Hits2(m.line)
  THEN [l2 EXCEPT !.store[Index2(m.line)] = [Entry2(m.line) EXCEPT !.dirty = TRUE, !.data = m.data]]
  ELSE [l2 EXCEPT !.currReqQ = <<[req |-> m, hit |-> Hits2(m.line), tagged |-> Entry2(m.line)]>>]

handleCAUResponse2 ==
  /\ l2.state = "WaitCAUResp" /\ l2.currReqQ # <<>>
  /\ \/ /\ Curr2.hit /\ ~Curr2.req.write
        /\ l2.hitQ = <<>>
        /\ l2' = [l2 EXCEPT !.currReqQ = <<>>, !.hitQ = <<Curr2.tagged.data>>]
     \/ /\ ~Curr2.hit
        /\ Len(l2.lineReqQ) < 2
        /\ LET request == IF Curr2.tagged.dirty THEN Evicted2 ELSE ReadOf(Curr2.req.line)
               next    == IF Curr2.tagged.dirty THEN "SendReq" ELSE "WaitDramResp"
           IN  l2' = [l2 EXCEPT !.lineReqQ = Append(@, request), !.state = next]
  /\ UNCHANGED <<l1, l2ReqFifo, mem, dl>>

handleWriteback2 ==
  /\ l2.state = "SendReq"
  /\ Len(l2.lineReqQ) < 2
  /\ l2' = [l2 EXCEPT !.lineReqQ = Append(@, ReadOf(Curr2.req.line)), !.state = "WaitDramResp"]
  /\ UNCHANGED <<l1, l2ReqFifo, mem, dl>>

\* A write takes the place of the whole line that was fetched for it.
handleDramResponse2 ==
  /\ l2.state = "WaitDramResp"
  /\ l2.lineRespQ # <<>>
  /\ Curr2.req.write \/ l2.hitQ = <<>>
  /\ LET m    == Curr2.req
         line == Head(l2.lineRespQ)
         new  == [valid |-> TRUE, dirty |-> m.write, tag |-> Tag2(m.line),
                  data |-> IF m.write THEN m.data ELSE line]
     IN  l2' = [l2 EXCEPT !.lineRespQ = Tail(@), !.currReqQ = <<>>, !.state = "WaitCAUResp",
                          !.hitQ = IF m.write THEN @ ELSE <<line>>,
                          !.store[Index2(m.line)] = new]
  /\ UNCHANGED <<l1, l2ReqFifo, mem, dl>>

-----------------------------------------------------------------------------
(* CacheInterface and MainMem.                                             *)

connectCacheL1IL2 ==
  /\ l1["I"].lineReqQ # <<>>
  /\ Len(l2ReqFifo) < 2 /\ l2.currReqQ = <<>>
  /\ l2ReqFifo' = Append(l2ReqFifo, "I")
  /\ l2' = Taken(Head(l1["I"].lineReqQ))
  /\ l1' = [l1 EXCEPT !["I"] = [l1["I"] EXCEPT !.lineReqQ = Tail(@)]]
  /\ UNCHANGED <<mem, dl>>

\* Wrong variants: writes are given a source, too; the other side is named.
SourcesWithWrites(m) == <<"D">>
SourcesMixed(m) == IF m.write THEN <<>> ELSE <<"I">>

\* l2 answers reads only.
Sources(m) == IF m.write THEN <<>> ELSE <<"D">>

\* It gives way to the rule above.
connectCacheL1DL2 ==
  /\ l1["D"].lineReqQ # <<>> /\ l1["I"].lineReqQ = <<>>
  /\ Len(l2ReqFifo) < 2 /\ l2.currReqQ = <<>>
  /\ LET m == Head(l1["D"].lineReqQ)
     IN  /\ l2ReqFifo' = l2ReqFifo \o Sources(m)
         /\ l2' = Taken(m)
  /\ l1' = [l1 EXCEPT !["D"] = [l1["D"] EXCEPT !.lineReqQ = Tail(@)]]
  /\ UNCHANGED <<mem, dl>>

connectL2L1DICache ==
  /\ l2.hitQ # <<>> /\ l2ReqFifo # <<>>
  /\ Len(l1[Head(l2ReqFifo)].lineRespQ) < 2
  /\ l1' = [l1 EXCEPT ![Head(l2ReqFifo)] = [l1[Head(l2ReqFifo)] EXCEPT !.lineRespQ = Append(@, Head(l2.hitQ))]]
  /\ l2' = [l2 EXCEPT !.hitQ = <<>>]
  /\ l2ReqFifo' = Tail(l2ReqFifo)
  /\ UNCHANGED <<mem, dl>>

\* The memory's port takes requests in order; answers wait in the delay line.
connectCacheDram ==
  /\ l2.lineReqQ # <<>>
  /\ LET m == Head(l2.lineReqQ)
     IN  IF m.write THEN mem' = [mem EXCEPT ![m.line] = m.data] /\ UNCHANGED dl
         ELSE dl' = Append(dl, mem[m.line]) /\ UNCHANGED mem
  /\ l2' = [l2 EXCEPT !.lineReqQ = Tail(@)]
  /\ UNCHANGED <<l1, l2ReqFifo>>

connectDramCache ==
  /\ dl # <<>> /\ Len(l2.lineRespQ) < 2
  /\ l2' = [l2 EXCEPT !.lineRespQ = Append(@, Head(dl))]
  /\ dl' = Tail(dl)
  /\ UNCHANGED <<l1, l2ReqFifo, mem>>

sendReqData  == \E r \in RequestsOf("D") : putFromProc("D", r)
sendReqInstr == \E r \in RequestsOf("I") : putFromProc("I", r)

Rules == \/ \E s \in Sides : handleCAUResponse(s) \/ handleWriteback(s) \/ handleDramResponse(s)
         \/ handleCAUResponse2 \/ handleWriteback2 \/ handleDramResponse2
         \/ connectCacheL1IL2 \/ connectCacheL1DL2 \/ connectL2L1DICache
         \/ connectCacheDram \/ connectDramCache

Next == sendReqData \/ sendReqInstr \/ Rules \/ \E s \in Sides : getToProc(s)

Spec == Init /\ [][Next]_vars

\* Rules fire when they can; the core takes its answers.  The rule for D is
\* kept out only in the cycles in which the one for I fires: of the cycles
\* between two lines for I it has one.
Fairness ==
  /\ \A s \in Sides : /\ WF_vars(handleCAUResponse(s)) /\ WF_vars(handleWriteback(s))
                      /\ WF_vars(handleDramResponse(s)) /\ WF_vars(getToProc(s))
  /\ WF_vars(handleCAUResponse2) /\ WF_vars(handleWriteback2) /\ WF_vars(handleDramResponse2)
  /\ WF_vars(connectCacheL1IL2) /\ SF_vars(connectCacheL1DL2) /\ WF_vars(connectL2L1DICache)
  /\ WF_vars(connectCacheDram) /\ WF_vars(connectDramCache)

FairSpec == Spec /\ Fairness

-----------------------------------------------------------------------------
\* Type invariant.
Entries      == [valid : BOOLEAN, dirty : BOOLEAN, tag : Nat, data : Data \cup {NoData}]
LineRequests == [write : BOOLEAN, line : Lines, data : Data \cup {NoData}]

CacheType(sets, Reqs, Answers) ==
  [store : [0 .. sets - 1 -> Entries], state : {"WaitCAUResp", "SendReq", "WaitDramResp"},
   currReqQ : Seq([req : Reqs, hit : BOOLEAN, tagged : Entries]), hitQ : Seq(Answers),
   lineReqQ : Seq(LineRequests), lineRespQ : Seq(Data)]

TypeOK == /\ l1 \in [Sides -> CacheType(L1Sets, Requests, Word \cup {Ack})]
          /\ l2 \in CacheType(L2Sets, LineRequests, Data)
          /\ l2ReqFifo \in Seq(Sides)
          /\ mem \in [Lines -> Data]
          /\ dl \in Seq(Data)

-----------------------------------------------------------------------------
(* Where the one copy of a line is that the data side would be given.      *)

\* A write that has missed waits in l2 for the line it will overwrite.
WriteWaits(line) == /\ l2.currReqQ # <<>>
                    /\ Head(l2.currReqQ).req.write /\ Head(l2.currReqQ).req.line = line

\* What l2 and the memory below it hold of a line ...
Below(line) == IF WriteWaits(line) THEN Head(l2.currReqQ).req.data
               ELSE IF Hits2(line) THEN Entry2(line).data ELSE mem[line]

\* ... and what the data side sees.
Freshest(line) == IF Hits1("D", line) THEN Entry1("D", line).data ELSE Below(line)

\* No store is to this word.
NeverStored(line, offset) ==
  \A r \in DataRequests : r.line = line /\ r.offset = offset => r.bytes = {}

\* A copy of a line, old or new, has in such words what was loaded.
Intact(line, data) ==
  /\ data \in Data
  /\ \A o \in Offsets : NeverStored(line, o) => data[o] = Contents[line][o]

\* A copy that a cache of a side is to be given.
Good(s, line, data) == Intact(line, data) /\ (s = "D" => data = Below(line))

-----------------------------------------------------------------------------
(* The inductive invariant: the stores of the caches and the stages of a   *)
(* request in a cache.                                                     *)

\* Every valid entry is one of a line in use.  A copy in l1 that is not dirty
\* is what is below; only the data side's become dirty.
Store1OK(s) ==
  /\ \A i \in 0 .. L1Sets - 1 : LET e == l1[s].store[i] IN
       /\ e.valid => \E line \in Lines : Index1(line) = i /\ Tag1(line) = e.tag
       /\ e.dirty => e.valid /\ s = "D"
  /\ \A line \in Lines : Hits1(s, line) =>
       /\ Intact(line, Entry1(s, line).data)
       /\ s = "D" /\ ~Entry1(s, line).dirty => Entry1(s, line).data = Below(line)

Store2OK ==
  /\ \A i \in 0 .. L2Sets - 1 : LET e == l2.store[i] IN
       /\ e.valid => \E line \in Lines : Index2(line) = i /\ Tag2(line) = e.tag
       /\ e.dirty => e.valid
  /\ \A line \in Lines :
       /\ Intact(line, mem[line])
       /\ Hits2(line) => /\ Intact(line, Entry2(line).data)
                         /\ ~Entry2(line).dirty => Entry2(line).data = mem[line]

Asks(s) == \E k \in 1 .. Len(l2ReqFifo) : l2ReqFifo[k] = s

\* The request has missed; what it found in the place of its line is there still.
Missed(s) == /\ ~Curr(s).hit /\ ~Hits1(s, Wanted(s))
             /\ Curr(s).tagged = Entry1(s, Wanted(s))

Found(s) == /\ Curr(s).hit
            /\ Intact(Wanted(s), Curr(s).tagged.data)

\* If that had to be written back, it has been.
Saved(s) == Curr(s).tagged.dirty => Below(Evicted(Curr(s)).line) = Evicted(Curr(s)).data

\* A cache asks for a line once, after it has sent away the old one; the line
\* that comes is the one asked for, whether it waits in the queue of l1, in
\* l2 or in the answers.
Stage1(s) ==
  LET c == l1[s] IN
  \/ /\ c.state = "WaitCAUResp"
     /\ c.lineReqQ = <<>> /\ c.lineRespQ = <<>> /\ ~Asks(s)
     /\ c.currReqQ = <<>> \/ Missed(s) \/ Found(s)
  \/ /\ c.state = "SendReq"
     /\ c.currReqQ # <<>> /\ Missed(s) /\ Curr(s).tagged.dirty
     /\ c.lineReqQ = <<Evicted(Curr(s))>> \/ (c.lineReqQ = <<>> /\ Saved(s))
     /\ c.lineRespQ = <<>> /\ ~Asks(s)
  \/ /\ c.state = "WaitDramResp"
     /\ c.currReqQ # <<>> /\ Missed(s)
     /\ \/ /\ c.lineReqQ = <<Evicted(Curr(s)), ReadOf(Wanted(s))>> /\ Curr(s).tagged.dirty
           /\ c.lineRespQ = <<>> /\ ~Asks(s)
        \/ /\ c.lineReqQ = <<ReadOf(Wanted(s))>> /\ Saved(s)
           /\ c.lineRespQ = <<>> /\ ~Asks(s)
        \/ /\ c.lineReqQ = <<>> /\ Saved(s)
           /\ c.lineRespQ = <<>> /\ Asks(s)
        \/ /\ c.lineReqQ = <<>> /\ Saved(s)
           /\ Len(c.lineRespQ) = 1 /\ Good(s, Wanted(s), Head(c.lineRespQ)) /\ ~Asks(s)

Saved2 == Curr2.tagged.dirty => mem[Evicted2.line] = Evicted2.data

Stage2 ==
  \/ /\ l2.state = "WaitCAUResp"
     /\ l2.lineReqQ = <<>> /\ dl = <<>> /\ l2.lineRespQ = <<>>
  \/ /\ l2.state = "SendReq"
     /\ l2.currReqQ # <<>> /\ ~Curr2.hit /\ Curr2.tagged.dirty
     /\ l2.lineReqQ = <<Evicted2>> \/ (l2.lineReqQ = <<>> /\ Saved2)
     /\ dl = <<>> /\ l2.lineRespQ = <<>>
  \/ /\ l2.state = "WaitDramResp"
     /\ l2.currReqQ # <<>> /\ ~Curr2.hit
     /\ \/ /\ l2.lineReqQ = <<Evicted2, ReadOf(Curr2.req.line)>> /\ Curr2.tagged.dirty
           /\ dl = <<>> /\ l2.lineRespQ = <<>>
        \/ /\ l2.lineReqQ = <<ReadOf(Curr2.req.line)>> /\ Saved2
           /\ dl = <<>> /\ l2.lineRespQ = <<>>
        \/ /\ l2.lineReqQ = <<>> /\ Saved2
           /\ dl = <<mem[Curr2.req.line]>> /\ l2.lineRespQ = <<>>
        \/ /\ l2.lineReqQ = <<>> /\ Saved2
           /\ dl = <<>> /\ l2.lineRespQ = <<mem[Curr2.req.line]>>

\* What the request l2 works on has found is there still; a write that hits
\* never waits.
Lookup2 ==
  l2.currReqQ # <<>> =>
    /\ Curr2.tagged = Entry2(Curr2.req.line)
    /\ Curr2.hit <=> Hits2(Curr2.req.line)
    /\ Curr2.req.write => ~Curr2.hit /\ Intact(Curr2.req.line, Curr2.req.data)

\* The answers of l2 are not tagged: the sources in l2ReqFifo are those of the
\* line in hitQ, if any, and of the read it works on, if any, in this order.
ReadWaits == l2.currReqQ # <<>> /\ ~Curr2.req.write

SourcesMatch ==
  /\ Len(l2ReqFifo) = Len(l2.hitQ) + (IF ReadWaits THEN 1 ELSE 0)
  /\ Len(l2ReqFifo) = 2 => l2ReqFifo[1] # l2ReqFifo[2]
  /\ l2.hitQ # <<>> => Good(l2ReqFifo[1], Wanted(l2ReqFifo[1]), Head(l2.hitQ))
  /\ ReadWaits => Curr2.req.line = Wanted(l2ReqFifo[Len(l2ReqFifo)])

\* Queues within the capacities the rules do not ask for.
Queues1OK(s) == /\ Len(l1[s].currReqQ) <= 1 /\ Len(l1[s].hitQ) <= 1
                /\ l1[s].currReqQ # <<>> => Curr(s).req \in RequestsOf(s)

Queues2OK == Len(l2.currReqQ) <= 1 /\ Len(l2.hitQ) <= 1

CachesInv == /\ TypeOK
             /\ \A s \in Sides : Queues1OK(s) /\ Store1OK(s) /\ Stage1(s)
             /\ Queues2OK /\ Store2OK /\ Stage2 /\ Lookup2 /\ SourcesMatch

-----------------------------------------------------------------------------
\* The instruction cache is never told of stores.  Words that are not stored
\* to it sees as they were loaded, although stores to other words of their
\* lines pass through all the caches.
InstructionsUnharmed ==
  [][l1["I"].hitQ = <<>> /\ l1'["I"].hitQ # <<>> =>
       LET r == Curr("I").req
       IN  NeverStored(r.line, r.offset) => l1'["I"].hitQ = <<Contents[r.line][r.offset]>>]_vars

CurrD == l1["D"].currReqQ

Flat == INSTANCE FlatMemory WITH
          Requests <- DataRequests,
          mem      <- [line \in Lines |-> Freshest(line)],
          waiting  <- IF CurrD # <<>> /\ ~Head(CurrD).hit THEN <<Head(CurrD).req>> ELSE <<>>,
          answers  <- l1["D"].hitQ
                        \o IF CurrD = <<>> \/ ~Head(CurrD).hit THEN <<>>
                           ELSE <<Reply(Head(CurrD).req, Head(CurrD).tagged.data)>>

\* For the data side the two levels of caches, with lines written back,
\* fetched and shared, are a memory: every load gets what was stored last.
ImplementsFlatMemory == Flat!Spec

\* Every request is answered, with the other side busy or not.
EveryRequestAnswered ==
  \A s \in Sides : l1[s].currReqQ # <<>> ~> l1[s].hitQ # <<>>

=============================================================================
