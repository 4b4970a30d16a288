---------------------------- MODULE CachesProofs ----------------------------
(***************************************************************************)
(* For any lines, requests, contents and numbers of sets: the caches are a *)
(* memory to the data side, and the instruction side gets what was loaded. *)
(***************************************************************************)
EXTENDS Caches, SequenceTheorems, TLAPS

-----------------------------------------------------------------------------
\* Short queues.

LEMMA OneElement ==
  ASSUME NEW S, NEW q \in Seq(S), Len(q) = 1
  PROVE  q # <<>> /\ q = <<Head(q)>> /\ Head(q) \in S /\ Tail(q) = <<>>
<1>1. q # <<>> /\ Head(q) \in S /\ Head(q) = q[1]
  OBVIOUS
<1>2. q = <<Head(q)>>
  BY <1>1
<1>3. Tail(q) = <<>>
  <2>1. Tail(q) \in Seq(S) /\ Len(Tail(q)) = 0
    BY <1>1, HeadTailProperties
  <2> QED
    BY <2>1, EmptySeq
<1> QED
  BY <1>1, <1>2, <1>3

LEMMA AtMostOne ==
  ASSUME NEW S, NEW q \in Seq(S), Len(q) <= 1, q # <<>>
  PROVE  Len(q) = 1 /\ q = <<Head(q)>> /\ Head(q) \in S /\ Tail(q) = <<>>
<1>1. Len(q) = 1
  BY EmptySeq, LenProperties, SMTT(30)
<1> QED
  BY <1>1, OneElement

LEMMA OfOne ==
  ASSUME NEW x
  PROVE  /\ Len(<<x>>) = 1 /\ <<x>> # <<>> /\ Head(<<x>>) = x
         /\ Tail(<<x>>) = <<>> /\ Append(<<>>, x) = <<x>>
<1>1. <<x>> \in Seq({x}) /\ Len(<<x>>) = 1
  OBVIOUS
<1>2. Append(<<>>, x) = <<x>>
  OBVIOUS
<1> QED
  BY <1>1, <1>2, OneElement

LEMMA OfTwo ==
  ASSUME NEW x, NEW y
  PROVE  /\ Len(<<x, y>>) = 2 /\ <<x, y>> # <<>> /\ Head(<<x, y>>) = x
         /\ Tail(<<x, y>>) = <<y>> /\ Append(<<x>>, y) = <<x, y>>
<1>1. <<x, y>> \in Seq({x, y}) /\ Len(<<x, y>>) = 2 /\ <<x, y>>[1] = x /\ <<x, y>>[2] = y
  OBVIOUS
<1>2. Head(<<x, y>>) = x /\ <<x, y>> # <<>>
  BY <1>1
<1>3. Append(<<x>>, y) = <<x, y>>
  <2>1. /\ Append(<<x>>, y) \in Seq({x, y}) /\ Len(Append(<<x>>, y)) = 2
        /\ Append(<<x>>, y)[1] = x /\ Append(<<x>>, y)[2] = y
    OBVIOUS
  <2> DEFINE a == Append(<<x>>, y)
             b == <<x, y>>
  <2>2. /\ a \in Seq({x, y}) /\ b \in Seq({x, y}) /\ Len(a) = 2 /\ Len(b) = 2
        /\ \A i \in 1 .. 2 : a[i] = b[i]
    BY <1>1, <2>1
  <2> HIDE DEF a, b
  <2>3. a = b
    BY <2>2, SeqEqual
  <2> QED
    BY <2>3 DEF a, b
<1>4. Tail(<<x, y>>) = <<y>>
  BY <1>1, <1>2, HeadTailProperties
<1> QED
  BY <1>1, <1>2, <1>3, <1>4

LEMMA ShortLengths ==
  /\ \A q : q = <<>> => Len(q) <= 1
  /\ \A q, x : q = <<x>> => Len(q) <= 1
<1>1. \A x : Len(<<x>>) <= 1
  OBVIOUS
<1>2. Len(<<>>) <= 1
  OBVIOUS
<1> QED
  BY <1>1, <1>2, Zenon

LEMMA OneInSeq == \A S, x : x \in S => <<x>> \in Seq(S)
  OBVIOUS

LEMMA TwoInSeq == \A S, x, y : x \in S /\ y \in S => <<x, y>> \in Seq(S)
  OBVIOUS

-----------------------------------------------------------------------------
\* Places: index and tag together name a line.

LEMMA Division ==
  ASSUME NEW n \in Nat \ {0}, NEW x \in Nat
  PROVE  x % n \in 0 .. n - 1 /\ x \div n \in Nat /\ (x \div n) * n + (x % n) = x
  OBVIOUS

LEMMA Place1 ==
  ASSUME NEW line \in Lines
  PROVE  /\ Index1(line) \in 0 .. L1Sets - 1 /\ Tag1(line) \in Nat
         /\ Tag1(line) * L1Sets + Index1(line) = line
  BY Division, CachesAssumption DEF Index1, Tag1

LEMMA Place2 ==
  ASSUME NEW line \in Lines
  PROVE  /\ Index2(line) \in 0 .. L2Sets - 1 /\ Tag2(line) \in Nat
         /\ Tag2(line) * L2Sets + Index2(line) = line
  BY Division, CachesAssumption DEF Index2, Tag2

-----------------------------------------------------------------------------
\* What the type invariant says of each part.

Cache1 == CacheType(L1Sets, Requests, Word \cup {Ack})
Cache2 == CacheType(L2Sets, LineRequests, Data)

LEMMA Types1 ==
  ASSUME TypeOK, NEW s \in Sides
  PROVE  /\ l1[s] \in Cache1
         /\ l1[s].store \in [0 .. L1Sets - 1 -> Entries]
         /\ l1[s].currReqQ \in Seq([req : Requests, hit : BOOLEAN, tagged : Entries])
         /\ l1[s].hitQ \in Seq(Word \cup {Ack})
         /\ l1[s].lineReqQ \in Seq(LineRequests)
         /\ l1[s].lineRespQ \in Seq(Data)
  BY DEF TypeOK, Cache1, CacheType

LEMMA Types2 ==
  ASSUME TypeOK
  PROVE  /\ l2 \in Cache2
         /\ l2.store \in [0 .. L2Sets - 1 -> Entries]
         /\ l2.currReqQ \in Seq([req : LineRequests, hit : BOOLEAN, tagged : Entries])
         /\ l2.hitQ \in Seq(Data)
         /\ l2.lineReqQ \in Seq(LineRequests)
         /\ l2.lineRespQ \in Seq(Data)
  BY DEF TypeOK, Cache2, CacheType

LEMMA Entries1 ==
  ASSUME TypeOK, NEW s \in Sides, NEW line \in Lines
  PROVE  Entry1(s, line) \in Entries
  BY Types1, Place1 DEF Entry1

LEMMA Entries2 ==
  ASSUME TypeOK, NEW line \in Lines
  PROVE  Entry2(line) \in Entries
  BY Types2, Place2 DEF Entry2

\* The request a cache of the core works on.
LEMMA CurrType ==
  ASSUME TypeOK, NEW s \in Sides, Queues1OK(s), l1[s].currReqQ # <<>>
  PROVE  /\ Curr(s).req \in RequestsOf(s) /\ Curr(s).req \in Requests
         /\ Wanted(s) \in Lines /\ Curr(s).hit \in BOOLEAN /\ Curr(s).tagged \in Entries
         /\ l1[s].currReqQ = <<Curr(s)>>
<1>1. Curr(s) \in [req : Requests, hit : BOOLEAN, tagged : Entries] /\ l1[s].currReqQ = <<Curr(s)>>
  BY Types1, AtMostOne DEF Queues1OK, Curr
<1> QED
  BY <1>1 DEF Queues1OK, Wanted, Requests

LEMMA Curr2Type ==
  ASSUME TypeOK, Queues2OK, l2.currReqQ # <<>>
  PROVE  /\ Curr2.req \in LineRequests /\ Curr2.req.line \in Lines
         /\ Curr2.hit \in BOOLEAN /\ Curr2.tagged \in Entries
         /\ l2.currReqQ = <<Curr2>>
<1>1. Curr2 \in [req : LineRequests, hit : BOOLEAN, tagged : Entries] /\ l2.currReqQ = <<Curr2>>
  BY Types2, AtMostOne DEF Queues2OK, Curr2
<1> QED
  BY <1>1 DEF LineRequests

-----------------------------------------------------------------------------
\* What does not change if the parts it depends on do not.

LEMMA SameStore1 ==
  ASSUME NEW s \in Sides, l1'[s].store = l1[s].store
  PROVE  \A line : Entry1(s, line)' = Entry1(s, line) /\ (Hits1(s, line)' <=> Hits1(s, line))
  BY DEF Entry1, Hits1

LEMMA SameStore2 ==
  ASSUME l2'.store = l2.store
  PROVE  \A line : Entry2(line)' = Entry2(line) /\ (Hits2(line)' <=> Hits2(line))
  BY DEF Entry2, Hits2

\* The old line a cache of the core has to write back: one in use, other than
\* the one it waits for, and still in its place.
LEMMA OldLine1 ==
  ASSUME CachesInv, NEW s \in Sides, l1[s].currReqQ # <<>>, Missed(s), Curr(s).tagged.valid
  PROVE  \E line \in Lines : /\ Curr(s).tagged.tag * L1Sets + Index1(Wanted(s)) = line
                             /\ Index1(line) = Index1(Wanted(s)) /\ line # Wanted(s)
                             /\ Hits1(s, line) /\ Entry1(s, line) = Curr(s).tagged
<1>1. Wanted(s) \in Lines /\ Curr(s).tagged = l1[s].store[Index1(Wanted(s))]
  BY CurrType DEF CachesInv, Missed, Entry1
<1>2. PICK line \in Lines : Index1(line) = Index1(Wanted(s)) /\ Tag1(line) = Curr(s).tagged.tag
  BY <1>1, Place1 DEF CachesInv, Store1OK
<1>3. Hits1(s, line) /\ Entry1(s, line) = Curr(s).tagged
  BY <1>1, <1>2 DEF Hits1, Entry1
<1>4. line # Wanted(s)
  BY <1>3 DEF Missed
<1> QED
  BY <1>2, <1>3, <1>4, Place1

LEMMA OldLine2 ==
  ASSUME CachesInv, l2.currReqQ # <<>>, ~Curr2.hit, Curr2.tagged.valid
  PROVE  \E line \in Lines : /\ Curr2.tagged.tag * L2Sets + Index2(Curr2.req.line) = line
                             /\ Index2(line) = Index2(Curr2.req.line) /\ line # Curr2.req.line
                             /\ Hits2(line) /\ Entry2(line) = Curr2.tagged
<1>1. Curr2.req.line \in Lines /\ Curr2.tagged = l2.store[Index2(Curr2.req.line)]
  BY Curr2Type DEF CachesInv, Lookup2, Entry2
<1>2. PICK line \in Lines : Index2(line) = Index2(Curr2.req.line) /\ Tag2(line) = Curr2.tagged.tag
  BY <1>1, Place2 DEF CachesInv, Store2OK
<1>3. Hits2(line) /\ Entry2(line) = Curr2.tagged
  BY <1>1, <1>2 DEF Hits2, Entry2
<1>4. line # Curr2.req.line
  BY <1>3 DEF CachesInv, Lookup2
<1> QED
  BY <1>2, <1>3, <1>4, Place2

LEMMA SavedKept ==
  ASSUME CachesInv, NEW s \in Sides, l1[s].currReqQ # <<>>, Missed(s), Saved(s),
         l1'[s] = l1[s], \A line \in Lines : Below(line)' = Below(line)
  PROVE  Saved(s)'
<1> SUFFICES ASSUME Curr(s).tagged.dirty
             PROVE  Below(Evicted(Curr(s)).line)' = Evicted(Curr(s)).data
  BY DEF Saved, Curr
<1>1. Curr(s).tagged.valid
  <2>1. Wanted(s) \in Lines /\ Curr(s).tagged = l1[s].store[Index1(Wanted(s))]
    BY CurrType DEF CachesInv, Missed, Entry1
  <2> QED
    BY <2>1, Place1 DEF CachesInv, Store1OK
<1>2. PICK line \in Lines : Evicted(Curr(s)).line = line
  BY <1>1, OldLine1 DEF Evicted, WriteOf, Wanted
<1>3. Evicted(Curr(s))' = Evicted(Curr(s))
  BY DEF Curr, Evicted, Index1, WriteOf
<1>4. Below(line)' = Below(Evicted(Curr(s)).line)'
  BY <1>2, <1>3 DEF Below, WriteWaits, Hits2, Entry2
<1> QED
  BY <1>2, <1>4 DEF Saved

\* A side that does nothing, while what is below stays the same.
LEMMA SideKept ==
  ASSUME CachesInv, NEW s \in Sides, l1'[s] = l1[s], Asks(s)' <=> Asks(s),
         \A line \in Lines : Below(line)' = Below(line)
  PROVE  Queues1OK(s)' /\ Store1OK(s)' /\ Stage1(s)'
<1>1. Queues1OK(s)'
  BY DEF CachesInv, Queues1OK, Curr
<1>2. \A line : Entry1(s, line)' = Entry1(s, line) /\ (Hits1(s, line)' <=> Hits1(s, line))
  BY SameStore1
<1>3. Store1OK(s)'
  BY <1>2 DEF CachesInv, Store1OK
<1>4. Curr(s)' = Curr(s) /\ Wanted(s)' = Wanted(s) /\ (Missed(s)' <=> Missed(s)) /\ (Found(s)' <=> Found(s))
  BY <1>2 DEF Curr, Wanted, Missed, Found
<1>5. l1[s].currReqQ # <<>> /\ Missed(s) /\ Saved(s) => Saved(s)'
  BY SavedKept
<1>6. l1[s].currReqQ # <<>> => \A d : Good(s, Wanted(s), d)' <=> Good(s, Wanted(s), d)
  <2> SUFFICES ASSUME l1[s].currReqQ # <<>>, NEW d PROVE Good(s, Wanted(s), d)' <=> Good(s, Wanted(s), d)
    OBVIOUS
  <2>1. Wanted(s) \in Lines
    BY CurrType DEF CachesInv
  <2> QED
    BY <1>4, <2>1 DEF Good
<1>7. Stage1(s)
  BY DEF CachesInv
<1>8. Stage1(s)'
  BY <1>4, <1>5, <1>6, <1>7 DEF Stage1
<1> QED
  BY <1>1, <1>3, <1>8

\* The sources, if l2 has an answer and if it works on a read.
LEMMA SourcesLength ==
  ASSUME TypeOK, Queues2OK, SourcesMatch
  PROVE  /\ Len(l2ReqFifo) \in Nat
         /\ l2.hitQ = <<>> /\ ~ReadWaits => l2ReqFifo = <<>> /\ Len(l2ReqFifo) = 0
         /\ l2.hitQ = <<>> /\ ReadWaits => Len(l2ReqFifo) = 1
         /\ l2.hitQ # <<>> /\ ~ReadWaits => Len(l2ReqFifo) = 1
         /\ l2.hitQ # <<>> /\ ReadWaits => Len(l2ReqFifo) = 2
<1>1. l2ReqFifo \in Seq(Sides) /\ l2.hitQ \in Seq(Data)
  BY Types2 DEF TypeOK
<1>2. Len(l2ReqFifo) \in Nat /\ Len(l2.hitQ) \in Nat /\ (l2ReqFifo # <<>> => Len(l2ReqFifo) # 0)
  BY <1>1, EmptySeq, LenProperties
<1>3. /\ l2.hitQ = <<>> => Len(l2.hitQ) = 0
      /\ l2.hitQ # <<>> => Len(l2.hitQ) = 1
  BY <1>1, AtMostOne, EmptySeq DEF Queues2OK
<1>4. (ReadWaits => Len(l2ReqFifo) = Len(l2.hitQ) + 1) /\ (~ReadWaits => Len(l2ReqFifo) = Len(l2.hitQ) + 0)
  BY Zenon DEF SourcesMatch
<1>5. CASE ReadWaits
  <2>1. Len(l2ReqFifo) = Len(l2.hitQ) + 1
    BY <1>4, <1>5, Zenon
  <2>2. l2.hitQ = <<>> => Len(l2ReqFifo) = 1
    BY <1>2, <1>3, <2>1
  <2>3. l2.hitQ # <<>> => Len(l2ReqFifo) = 2
    <3> SUFFICES ASSUME l2.hitQ # <<>> PROVE Len(l2ReqFifo) = 2
      OBVIOUS
    <3>1. Len(l2.hitQ) = 1
      BY <1>3
    <3>2. Len(l2ReqFifo) = 1 + 1
      BY <2>1, <3>1
    <3> QED
      BY <3>2
  <2> QED
    BY <1>2, <1>5, <2>2, <2>3, Zenon
<1>6. CASE ~ReadWaits
  <2>1. Len(l2ReqFifo) = Len(l2.hitQ) + 0
    BY <1>4, <1>6, Zenon
  <2>2. l2.hitQ = <<>> => Len(l2ReqFifo) = 0
    BY <1>2, <1>3, <2>1
  <2>3. l2.hitQ # <<>> => Len(l2ReqFifo) = 1
    BY <1>2, <1>3, <2>1
  <2> QED
    BY <1>2, <1>6, <2>2, <2>3, Zenon
<1> QED
  BY <1>5, <1>6

-----------------------------------------------------------------------------
\* Steps of the upper level only, and of the lower level only.

LEMMA UpperStep ==
  ASSUME CachesInv, NEW s \in Sides, UNCHANGED <<l2, l2ReqFifo, mem, dl>>,
         l1' \in [Sides -> Cache1], \A t \in Sides \ {s} : l1'[t] = l1[t],
         Queues1OK(s)', Store1OK(s)', Stage1(s)',
         Asks(s) => l1'[s].currReqQ = l1[s].currReqQ
  PROVE  CachesInv'
<1>1. TypeOK'
  BY DEF CachesInv, TypeOK, Cache1
<1>2. \A t \in Sides : Asks(t)' <=> Asks(t)
  BY DEF Asks
<1>3. \A line \in Lines : Below(line)' = Below(line)
  BY DEF Below, WriteWaits, Hits2, Entry2
<1>4. \A t \in Sides : Queues1OK(t)' /\ Store1OK(t)' /\ Stage1(t)'
  <2> SUFFICES ASSUME NEW t \in Sides, t # s PROVE Queues1OK(t)' /\ Store1OK(t)' /\ Stage1(t)'
    OBVIOUS
  <2> QED
    BY <1>2, <1>3, SideKept
<1>5. Queues2OK' /\ Store2OK' /\ Stage2' /\ Lookup2'
  BY DEF CachesInv, Queues2OK, Store2OK, Stage2, Lookup2, Hits2, Entry2, Curr2, Evicted2, Saved2
<1>6. \A t \in Sides : Asks(t) => l1'[t].currReqQ = l1[t].currReqQ
  OBVIOUS
<1>7. \A t \in Sides : Asks(t) => Wanted(t)' = Wanted(t) /\ Wanted(t) \in Lines
  <2> SUFFICES ASSUME NEW t \in Sides, Asks(t) PROVE Wanted(t)' = Wanted(t) /\ Wanted(t) \in Lines
    OBVIOUS
  <2>1. l1[t].currReqQ # <<>>
    BY DEF CachesInv, Stage1
  <2> QED
    BY <1>6, <2>1, CurrType DEF CachesInv, Wanted, Curr
<1>8. SourcesMatch'
  <2>1. SourcesMatch /\ l2ReqFifo \in Seq(Sides) /\ l2.hitQ \in Seq(Data)
    BY Types2 DEF CachesInv, TypeOK
  <2>2. l2.hitQ # <<>> => Asks(l2ReqFifo[1]) /\ l2ReqFifo[1] \in Sides
    BY <2>1, SourcesLength DEF CachesInv, Asks
  <2>3. ReadWaits => Asks(l2ReqFifo[Len(l2ReqFifo)]) /\ l2ReqFifo[Len(l2ReqFifo)] \in Sides
    BY <2>1 DEF SourcesMatch, Asks
  <2>4. l2.hitQ # <<>> => Good(l2ReqFifo[1], Wanted(l2ReqFifo[1]), Head(l2.hitQ))'
    BY <1>3, <1>7, <2>1, <2>2 DEF SourcesMatch, Good
  <2> QED
    BY <1>7, <2>1, <2>3, <2>4 DEF SourcesMatch, ReadWaits, Curr2
<1> QED
  BY <1>1, <1>4, <1>5, <1>8 DEF CachesInv

LEMMA LowerStep ==
  ASSUME CachesInv, UNCHANGED <<l1, l2ReqFifo>>,
         \A line \in Lines : Below(line)' = Below(line),
         TypeOK', Queues2OK', Store2OK', Stage2', Lookup2', SourcesMatch'
  PROVE  CachesInv'
<1>1. \A t \in Sides : Queues1OK(t)' /\ Store1OK(t)' /\ Stage1(t)'
  <2>1. \A t \in Sides : Asks(t)' <=> Asks(t)
    BY DEF Asks
  <2> QED
    BY <2>1, SideKept
<1> QED
  BY <1>1 DEF CachesInv

-----------------------------------------------------------------------------
\* The rules of Cache32.

\* A store keeps what nobody stores to.
LEMMA StoredIntact ==
  ASSUME NEW r \in Requests, r \in DataRequests \/ r.bytes = {},
         NEW data, Intact(r.line, data)
  PROVE  Intact(r.line, Stored(data, r))
<1>1. Stored(data, r) \in Data
  BY DEF Stored, Intact, Data, Word, Requests
<1>2. ASSUME NEW o \in Offsets, NeverStored(r.line, o)
      PROVE  Stored(data, r)[o] = data[o]
  <2>1. r.bytes = {} \/ r.offset # o
    BY <1>2 DEF NeverStored
  <2> QED
    BY <2>1 DEF Stored, Intact, Data, Word, Requests
<1> QED
  BY <1>1, <1>2 DEF Intact

LEMMA LoadStoresNothing ==
  ASSUME NEW r \in Requests, r.bytes = {}, NEW data \in Data
  PROVE  Stored(data, r) = data
  BY DEF Stored, Data, Word, Requests

LEMMA RequestsAre ==
  ASSUME NEW s \in Sides, NEW r \in RequestsOf(s)
  PROVE  r \in Requests /\ (r \in DataRequests \/ r.bytes = {}) /\ (s = "I" => r.bytes = {})
  BY CachesAssumption DEF RequestsOf, Sides

LEMMA PutFromProc ==
  ASSUME CachesInv, NEW s \in Sides, NEW r \in RequestsOf(s), putFromProc(s, r)
  PROVE  CachesInv'
<1> DEFINE i     == Index1(r.line)
           hit   == Hits1(s, r.line)
           entry == Entry1(s, r.line)
           asked == [req |-> r, hit |-> hit, tagged |-> entry]
           new   == IF hit /\ r.bytes # {} THEN [entry EXCEPT !.dirty = TRUE, !.data = Stored(@, r)]
                    ELSE entry
<1>1. /\ TypeOK /\ Queues1OK(s) /\ Store1OK(s) /\ Stage1(s)
      /\ l1[s].currReqQ = <<>> /\ UNCHANGED <<l2, l2ReqFifo, mem, dl>>
  BY DEF CachesInv, putFromProc
<1>2. r \in Requests /\ (r \in DataRequests \/ r.bytes = {}) /\ (s = "I" => r.bytes = {}) /\ r.line \in Lines
  BY RequestsAre DEF Requests
<1>3. i \in 0 .. L1Sets - 1 /\ entry \in Entries /\ entry = l1[s].store[i]
  BY <1>1, <1>2, Place1, Entries1 DEF Entry1
<1>4. hit => Intact(r.line, entry.data)
  BY <1>1, <1>2 DEF Store1OK
<1>5. new \in Entries
  <2>1. hit => Stored(entry.data, r) \in Data
    BY <1>2, <1>4, StoredIntact DEF Intact
  <2> QED
    BY <1>3, <2>1 DEF Entries
<1>6. l1' = [l1 EXCEPT ![s] = [l1[s] EXCEPT !.currReqQ = <<asked>>, !.store = [@ EXCEPT ![i] = new]]]
  BY DEF putFromProc
<1>7. asked \in [req : Requests, hit : BOOLEAN, tagged : Entries]
  BY <1>2, <1>3 DEF Hits1, Entries
<1> HIDE DEF asked, new, entry, hit, i
<1>8. /\ l1' \in [Sides -> Cache1]
      /\ \A t \in Sides \ {s} : l1'[t] = l1[t]
      /\ l1'[s].store = [l1[s].store EXCEPT ![i] = new] /\ l1'[s].state = l1[s].state
      /\ l1'[s].currReqQ = <<asked>> /\ l1'[s].hitQ = l1[s].hitQ
      /\ l1'[s].lineReqQ = l1[s].lineReqQ /\ l1'[s].lineRespQ = l1[s].lineRespQ
  <2>1. <<asked>> \in Seq([req : Requests, hit : BOOLEAN, tagged : Entries])
    BY <1>7, OneInSeq
  <2>2. [l1[s].store EXCEPT ![i] = new] \in [0 .. L1Sets - 1 -> Entries]
    BY <1>1, <1>3, <1>5, Types1
  <2> QED
    BY <1>1, <1>6, <2>1, <2>2, Types1 DEF TypeOK, Cache1, CacheType
<1>9. \A line \in Lines : Hits1(s, line)' <=> Hits1(s, line)
  <2> SUFFICES ASSUME NEW line \in Lines PROVE Hits1(s, line)' <=> Hits1(s, line)
    OBVIOUS
  <2>1. new.valid = entry.valid /\ new.tag = entry.tag
    BY <1>3 DEF new, Entries
  <2> QED
    BY <1>1, <1>3, <1>8, <2>1, Place1, Types1 DEF Hits1, Entry1
<1>10. \A line \in Lines : Hits1(s, line) =>
         Entry1(s, line)' = IF line = r.line THEN new ELSE Entry1(s, line)
  <2> SUFFICES ASSUME NEW line \in Lines, Hits1(s, line)
               PROVE  Entry1(s, line)' = IF line = r.line THEN new ELSE Entry1(s, line)
    OBVIOUS
  <2>1. Index1(line) = i /\ line # r.line => ~hit
    BY <1>2, Place1 DEF Hits1, hit, i, Entry1
  <2>2. ~hit => new = entry
    BY DEF new
  <2> QED
    BY <1>1, <1>2, <1>3, <1>8, <2>1, <2>2, Place1, Types1 DEF Entry1, i
<1>11. /\ new.dirty => entry.dirty \/ (hit /\ s = "D")
       /\ ~new.dirty => new = entry
       /\ hit => Intact(r.line, new.data)
  <2>1. hit => Intact(r.line, Stored(entry.data, r))
    BY <1>2, <1>4, StoredIntact
  <2> QED
    BY <1>2, <1>3, <1>4, <2>1 DEF new, Entries, Sides
<1>12. Store1OK(s)'
  <2>1. ASSUME NEW j \in 0 .. L1Sets - 1
        PROVE  /\ l1'[s].store[j].valid => \E line \in Lines : Index1(line) = j /\ Tag1(line) = l1'[s].store[j].tag
               /\ l1'[s].store[j].dirty => l1'[s].store[j].valid /\ s = "D"
    <3>1. new.valid = entry.valid /\ new.tag = entry.tag
      BY <1>3 DEF new, Entries
    <3>2. hit => entry.valid
      BY DEF hit, entry, Hits1
    <3>3. l1'[s].store[j] = IF j = i THEN new ELSE l1[s].store[j]
      BY <1>1, <1>8, Types1
    <3> QED
      BY <1>1, <1>3, <1>11, <3>1, <3>2, <3>3 DEF Store1OK
  <2>2. \A line \in Lines : Below(line)' = Below(line)
    BY <1>1 DEF Below, WriteWaits, Hits2, Entry2
  <2>3. ASSUME NEW line \in Lines, Hits1(s, line)
        PROVE  /\ Intact(line, Entry1(s, line)'.data)
               /\ s = "D" /\ ~Entry1(s, line)'.dirty => Entry1(s, line)'.data = Below(line)
    <3>1. line = r.line => hit
      BY <2>3 DEF hit
    <3> QED
      BY <1>1, <1>10, <1>11, <2>3, <3>1 DEF Store1OK, entry
  <2> QED
    BY <1>9, <2>1, <2>2, <2>3 DEF Store1OK
<1>13. Curr(s)' = asked /\ asked.req = r /\ asked.hit = hit /\ asked.tagged = entry
  BY <1>8, OfOne DEF Curr, asked
<1>14. Queues1OK(s)'
  BY <1>1, <1>8, <1>13, OfOne DEF Queues1OK
<1>15. Stage1(s)'
  <2>1. /\ l1[s].state = "WaitCAUResp" /\ l1[s].lineReqQ = <<>> /\ l1[s].lineRespQ = <<>> /\ ~Asks(s)
    BY <1>1 DEF Stage1
  <2>2. ~Asks(s)'
    BY <1>1, <2>1 DEF Asks
  <2>3. hit => Found(s)'
    BY <1>4, <1>13 DEF Found, Wanted
  <2>4. ~hit => Missed(s)'
    <3> SUFFICES ASSUME ~hit PROVE Missed(s)'
      OBVIOUS
    <3>1. Entry1(s, r.line)' = entry
      BY <1>1, <1>3, <1>8, Types1 DEF Entry1, i, new
    <3> QED
      BY <1>2, <1>9, <1>13, <3>1 DEF Missed, Wanted, hit
  <2> QED
    BY <1>8, <2>1, <2>2, <2>3, <2>4 DEF Stage1
<1>16. ~Asks(s)
  BY <1>1 DEF Stage1
<1> QED
  BY <1>1, <1>8, <1>12, <1>14, <1>15, <1>16, UpperStep

\* A cache that works on the same request, with the same lines, and nothing
\* changes below.
LEMMA RequestKept ==
  ASSUME CachesInv, NEW s \in Sides, l1'[s].store = l1[s].store,
         l1'[s].currReqQ = l1[s].currReqQ, UNCHANGED <<l2, mem>>
  PROVE  /\ Curr(s)' = Curr(s) /\ Wanted(s)' = Wanted(s)
         /\ Evicted(Curr(s))' = Evicted(Curr(s))
         /\ Missed(s)' <=> Missed(s)
         /\ Found(s)' <=> Found(s)
         /\ Saved(s)' <=> Saved(s)
<1>1. \A line : Entry1(s, line)' = Entry1(s, line) /\ (Hits1(s, line)' <=> Hits1(s, line))
  BY SameStore1
<1>2. Curr(s)' = Curr(s) /\ Wanted(s)' = Wanted(s) /\ Evicted(Curr(s))' = Evicted(Curr(s))
  BY DEF Curr, Wanted, Evicted, WriteOf, Index1
<1>3. Missed(s)' <=> Missed(s)
  BY <1>1, <1>2 DEF Missed
<1>4. Found(s)' <=> Found(s)
  BY <1>2 DEF Found
<1>5. Saved(s)' <=> Saved(s)
  BY <1>2 DEF Saved, Below, WriteWaits, Hits2, Entry2
<1> QED
  BY <1>2, <1>3, <1>4, <1>5

LEMMA StoreKept ==
  ASSUME CachesInv, NEW s \in Sides, l1'[s].store = l1[s].store,
         \A line \in Lines : Below(line)' = Below(line)
  PROVE  Store1OK(s)'
<1>1. \A line : Entry1(s, line)' = Entry1(s, line) /\ (Hits1(s, line)' <=> Hits1(s, line))
  BY SameStore1
<1> QED
  BY <1>1 DEF CachesInv, Store1OK

LEMMA BelowKept ==
  ASSUME UNCHANGED <<l2, mem>>
  PROVE  \A line : Below(line)' = Below(line)
  BY DEF Below, WriteWaits, Hits2, Entry2

LEMMA EvictedType ==
  ASSUME CachesInv, NEW s \in Sides, l1[s].currReqQ # <<>>, Missed(s), Curr(s).tagged.dirty
  PROVE  /\ Evicted(Curr(s)) \in LineRequests /\ Evicted(Curr(s)).write
         /\ Evicted(Curr(s)).line # Wanted(s)
         /\ Hits1(s, Evicted(Curr(s)).line)
         /\ Entry1(s, Evicted(Curr(s)).line) = Curr(s).tagged
         /\ Index1(Evicted(Curr(s)).line) = Index1(Wanted(s))
         /\ s = "D"
<1>1. Wanted(s) \in Lines /\ Curr(s).tagged = l1[s].store[Index1(Wanted(s))] /\ Curr(s).tagged \in Entries
  BY CurrType DEF CachesInv, Missed, Entry1
<1>2. Curr(s).tagged.valid /\ s = "D"
  BY <1>1, Place1 DEF CachesInv, Store1OK
<1>3. PICK line \in Lines : /\ Curr(s).tagged.tag * L1Sets + Index1(Wanted(s)) = line
                            /\ Index1(line) = Index1(Wanted(s)) /\ line # Wanted(s)
                            /\ Hits1(s, line) /\ Entry1(s, line) = Curr(s).tagged
  BY <1>2, OldLine1
<1>4. Evicted(Curr(s)) = [write |-> TRUE, line |-> line, data |-> Curr(s).tagged.data]
  BY <1>3 DEF Evicted, WriteOf, Wanted
<1>5. Evicted(Curr(s)) \in LineRequests /\ Evicted(Curr(s)).write /\ Evicted(Curr(s)).line = line
  BY <1>1, <1>4 DEF LineRequests, Entries
<1> QED
  BY <1>2, <1>3, <1>5

LEMMA ReadType == \A line \in Lines : ReadOf(line) \in LineRequests
  BY DEF ReadOf, LineRequests

LEMMA HandleCAUResponse ==
  ASSUME CachesInv, NEW s \in Sides, handleCAUResponse(s)
  PROVE  CachesInv'
<1>1. /\ TypeOK /\ Queues1OK(s) /\ Stage1(s) /\ UNCHANGED <<l2, l2ReqFifo, mem, dl>>
      /\ l1[s].state = "WaitCAUResp" /\ l1[s].currReqQ # <<>>
  BY DEF CachesInv, handleCAUResponse
<1>2. /\ Curr(s).req \in Requests /\ Wanted(s) \in Lines /\ Curr(s).tagged \in Entries
      /\ l1[s].currReqQ = <<Curr(s)>> /\ Curr(s).hit \in BOOLEAN
  BY <1>1, CurrType
<1>3. /\ l1[s].lineReqQ = <<>> /\ l1[s].lineRespQ = <<>> /\ ~Asks(s) /\ ~Asks(s)'
      /\ Missed(s) \/ Found(s)
  BY <1>1 DEF Stage1, Asks
<1>4. \A line : Below(line)' = Below(line)
  BY <1>1, BelowKept
<1>5. CASE Curr(s).hit
  <2> DEFINE reply == Reply(Curr(s).req, Curr(s).tagged.data)
  <2>1. Found(s)
    BY <1>3, <1>5 DEF Missed
  <2>2. reply \in Word \cup {Ack}
    BY <1>2, <2>1 DEF Found, Intact, Data, Reply, Requests
  <2>3. l1' = [l1 EXCEPT ![s] = [l1[s] EXCEPT !.currReqQ = <<>>, !.hitQ = <<reply>>]]
    BY <1>5 DEF handleCAUResponse
  <2> HIDE DEF reply
  <2>4. /\ l1' \in [Sides -> Cache1] /\ \A t \in Sides \ {s} : l1'[t] = l1[t]
        /\ l1'[s].store = l1[s].store /\ l1'[s].state = l1[s].state
        /\ l1'[s].currReqQ = <<>> /\ l1'[s].hitQ = <<reply>>
        /\ l1'[s].lineReqQ = l1[s].lineReqQ /\ l1'[s].lineRespQ = l1[s].lineRespQ
    <3>1. <<reply>> \in Seq(Word \cup {Ack})
      BY <2>2, OneInSeq
    <3>2. <<>> \in Seq([req : Requests, hit : BOOLEAN, tagged : Entries])
      OBVIOUS
    <3> QED
      BY <1>1, <2>3, <3>1, <3>2, Types1 DEF TypeOK, Cache1, CacheType
  <2>5. Queues1OK(s)'
    BY <2>4, OfOne, EmptySeq DEF Queues1OK
  <2>6. Store1OK(s)'
    BY <1>4, <2>4, StoreKept
  <2>7. Stage1(s)'
    BY <1>1, <1>3, <2>4 DEF Stage1
  <2> QED
    BY <1>1, <1>3, <2>4, <2>5, <2>6, <2>7, UpperStep
<1>6. CASE ~Curr(s).hit
  <2> DEFINE old == Evicted(Curr(s))
  <2>1. Missed(s)
    BY <1>3, <1>6 DEF Found
  <2>2. /\ ReadOf(Wanted(s)) \in LineRequests
        /\ Curr(s).tagged.dirty => old \in LineRequests
    BY <1>1, <1>2, <2>1, EvictedType, ReadType
  <2> DEFINE new == IF Curr(s).tagged.dirty THEN old ELSE ReadOf(Wanted(s))
             state == IF Curr(s).tagged.dirty THEN "SendReq" ELSE "WaitDramResp"
  <2>3. /\ l1' = [l1 EXCEPT ![s] = [l1[s] EXCEPT !.lineReqQ = Append(@, new), !.state = state]]
        /\ Append(l1[s].lineReqQ, new) = <<new>>
    BY <1>3, <1>6, OfOne DEF handleCAUResponse, Wanted
  <2>4. new \in LineRequests /\ state \in {"SendReq", "WaitDramResp"}
    BY <2>2
  <2>5. /\ Curr(s).tagged.dirty => new = old /\ state = "SendReq"
        /\ ~Curr(s).tagged.dirty => new = ReadOf(Wanted(s)) /\ state = "WaitDramResp"
    OBVIOUS
  <2> HIDE DEF new, old, state
  <2>6. /\ l1' \in [Sides -> Cache1] /\ \A t \in Sides \ {s} : l1'[t] = l1[t]
        /\ l1'[s].store = l1[s].store /\ l1'[s].state = state
        /\ l1'[s].currReqQ = l1[s].currReqQ /\ l1'[s].hitQ = l1[s].hitQ
        /\ l1'[s].lineReqQ = <<new>> /\ l1'[s].lineRespQ = l1[s].lineRespQ
    <3>1. <<new>> \in Seq(LineRequests)
      BY <2>4, OneInSeq
    <3> DEFINE c == [l1[s] EXCEPT !.lineReqQ = Append(@, new), !.state = state]
    <3>2. /\ c.store = l1[s].store /\ c.state = state
          /\ c.currReqQ = l1[s].currReqQ /\ c.hitQ = l1[s].hitQ
          /\ c.lineReqQ = <<new>> /\ c.lineRespQ = l1[s].lineRespQ
          /\ c \in Cache1
      BY <1>1, <2>3, <2>4, <3>1, Types1 DEF Cache1, CacheType
    <3>3. l1' = [l1 EXCEPT ![s] = c]
      BY <2>3, Zenon
    <3> HIDE DEF c
    <3> QED
      BY <1>1, <3>2, <3>3 DEF TypeOK, Cache1
  <2>7. Queues1OK(s)'
    BY <1>1, <2>6 DEF Queues1OK, Curr
  <2>8. Store1OK(s)'
    BY <1>4, <2>6, StoreKept
  <2>9. /\ Curr(s)' = Curr(s) /\ Wanted(s)' = Wanted(s) /\ Evicted(Curr(s))' = Evicted(Curr(s))
        /\ Missed(s)' /\ (Saved(s)' <=> Saved(s))
    BY <1>1, <2>1, <2>6, RequestKept
  <2>10. Stage1(s)'
    <3>1. CASE Curr(s).tagged.dirty
      BY <1>1, <1>3, <2>5, <2>6, <2>9, <3>1 DEF Stage1, old
    <3>2. CASE ~Curr(s).tagged.dirty
      <4>1. Saved(s)'
        BY <2>9, <3>2 DEF Saved
      <4> QED
        BY <1>1, <1>3, <2>5, <2>6, <2>9, <3>2, <4>1 DEF Stage1
    <3> QED
      BY <3>1, <3>2
  <2> QED
    BY <1>1, <1>3, <2>6, <2>7, <2>8, <2>10, UpperStep
<1> QED
  BY <1>2, <1>5, <1>6

LEMMA HandleWriteback ==
  ASSUME CachesInv, NEW s \in Sides, handleWriteback(s)
  PROVE  CachesInv'
<1>1. /\ TypeOK /\ Queues1OK(s) /\ Stage1(s) /\ UNCHANGED <<l2, l2ReqFifo, mem, dl>>
      /\ l1[s].state = "SendReq"
      /\ l1' = [l1 EXCEPT ![s] = [l1[s] EXCEPT !.lineReqQ = Append(@, ReadOf(Wanted(s))), !.state = "WaitDramResp"]]
  BY DEF CachesInv, handleWriteback
<1>2. /\ l1[s].currReqQ # <<>> /\ Missed(s) /\ Curr(s).tagged.dirty
      /\ l1[s].lineReqQ = <<Evicted(Curr(s))>> \/ (l1[s].lineReqQ = <<>> /\ Saved(s))
      /\ l1[s].lineRespQ = <<>> /\ ~Asks(s) /\ ~Asks(s)'
  BY <1>1 DEF Stage1, Asks
<1>3. /\ Wanted(s) \in Lines /\ ReadOf(Wanted(s)) \in LineRequests
      /\ Evicted(Curr(s)) \in LineRequests
  BY <1>1, <1>2, CurrType, EvictedType, ReadType
<1> DEFINE queue == Append(l1[s].lineReqQ, ReadOf(Wanted(s)))
           c == [l1[s] EXCEPT !.lineReqQ = queue, !.state = "WaitDramResp"]
<1>4. /\ \/ queue = <<Evicted(Curr(s)), ReadOf(Wanted(s))>>
         \/ queue = <<ReadOf(Wanted(s))>> /\ Saved(s)
      /\ queue \in Seq(LineRequests)
  <2> DEFINE old == Evicted(Curr(s))
             read == ReadOf(Wanted(s))
  <2>1. Append(<<old>>, read) = <<old, read>> /\ Append(<<>>, read) = <<read>>
    BY OfOne, OfTwo
  <2>2. <<old, read>> \in Seq(LineRequests) /\ <<read>> \in Seq(LineRequests)
    BY <1>3, OneInSeq, TwoInSeq
  <2> HIDE DEF old, read
  <2>3. l1[s].lineReqQ = <<old>> \/ (l1[s].lineReqQ = <<>> /\ Saved(s))
    BY <1>2 DEF old
  <2>4. \/ queue = <<old, read>>
        \/ queue = <<read>> /\ Saved(s)
    BY <2>1, <2>3 DEF read
  <2> QED
    BY <2>2, <2>4 DEF old, read
<1> HIDE DEF queue
<1>5. /\ c.store = l1[s].store /\ c.state = "WaitDramResp"
      /\ c.currReqQ = l1[s].currReqQ /\ c.hitQ = l1[s].hitQ
      /\ c.lineReqQ = queue /\ c.lineRespQ = l1[s].lineRespQ
      /\ c \in Cache1
  BY <1>1, <1>4, Types1 DEF Cache1, CacheType
<1>6. l1' = [l1 EXCEPT ![s] = c]
  BY <1>1 DEF queue
<1> HIDE DEF c
<1>7. /\ l1' \in [Sides -> Cache1] /\ \A t \in Sides \ {s} : l1'[t] = l1[t]
      /\ l1'[s] = c
  BY <1>1, <1>5, <1>6 DEF TypeOK, Cache1
<1>8. Queues1OK(s)'
  BY <1>1, <1>5, <1>7 DEF Queues1OK, Curr
<1>9. Store1OK(s)'
  BY <1>1, <1>5, <1>7, BelowKept, StoreKept
<1>10. /\ Curr(s)' = Curr(s) /\ Wanted(s)' = Wanted(s) /\ Evicted(Curr(s))' = Evicted(Curr(s))
       /\ Missed(s)' /\ (Saved(s)' <=> Saved(s))
  BY <1>1, <1>2, <1>5, <1>7, RequestKept
<1>11. Stage1(s)'
  BY <1>2, <1>4, <1>5, <1>7, <1>10 DEF Stage1
<1> QED
  BY <1>1, <1>2, <1>7, <1>8, <1>9, <1>11, UpperStep

LEMMA GetToProc ==
  ASSUME CachesInv, NEW s \in Sides, getToProc(s)
  PROVE  CachesInv'
<1> DEFINE c == [l1[s] EXCEPT !.hitQ = <<>>]
<1>1. /\ TypeOK /\ Queues1OK(s) /\ Stage1(s) /\ UNCHANGED <<l2, l2ReqFifo, mem, dl>>
      /\ l1' = [l1 EXCEPT ![s] = c]
  BY DEF CachesInv, getToProc
<1>2. /\ c.store = l1[s].store /\ c.state = l1[s].state
      /\ c.currReqQ = l1[s].currReqQ /\ c.hitQ = <<>>
      /\ c.lineReqQ = l1[s].lineReqQ /\ c.lineRespQ = l1[s].lineRespQ
      /\ c \in Cache1
  <2>1. <<>> \in Seq(Word \cup {Ack})
    OBVIOUS
  <2> QED
    BY <1>1, <2>1, Types1 DEF Cache1, CacheType
<1> HIDE DEF c
<1>3. /\ l1' \in [Sides -> Cache1] /\ \A t \in Sides \ {s} : l1'[t] = l1[t]
      /\ l1'[s] = c
  BY <1>1, <1>2 DEF TypeOK, Cache1
<1>4. Queues1OK(s)'
  BY <1>1, <1>2, <1>3, EmptySeq DEF Queues1OK, Curr
<1>5. Store1OK(s)'
  BY <1>1, <1>2, <1>3, BelowKept, StoreKept
<1>6. /\ Curr(s)' = Curr(s) /\ Wanted(s)' = Wanted(s) /\ Evicted(Curr(s))' = Evicted(Curr(s))
      /\ (Missed(s)' <=> Missed(s)) /\ (Found(s)' <=> Found(s)) /\ (Saved(s)' <=> Saved(s))
  BY <1>1, <1>2, <1>3, RequestKept
<1>7. \A d : Good(s, Wanted(s), d)' <=> Good(s, Wanted(s), d)
  <2>1. Below(Wanted(s))' = Below(Wanted(s))
    BY <1>1, <1>6 DEF Below, WriteWaits, Hits2, Entry2
  <2> QED
    BY <1>6, <2>1 DEF Good
<1>8. Stage1(s)'
  <2>1. Asks(s)' <=> Asks(s)
    BY <1>1 DEF Asks
  <2> QED
    BY <1>1, <1>2, <1>3, <1>6, <1>7, <2>1 DEF Stage1
<1> QED
  BY <1>1, <1>2, <1>3, <1>4, <1>5, <1>8, UpperStep

LEMMA HandleDramResponse ==
  ASSUME CachesInv, NEW s \in Sides, handleDramResponse(s)
  PROVE  CachesInv'
<1> DEFINE r    == Curr(s).req
           line == Head(l1[s].lineRespQ)
           i    == Index1(r.line)
           c    == [l1[s] EXCEPT !.lineRespQ = Tail(@), !.currReqQ = <<>>, !.hitQ = <<Reply(r, line)>>,
                                 !.store[i] = Filled(r, line), !.state = "WaitCAUResp"]
<1>1. /\ TypeOK /\ Queues1OK(s) /\ Store1OK(s) /\ Stage1(s) /\ UNCHANGED <<l2, l2ReqFifo, mem, dl>>
      /\ l1[s].state = "WaitDramResp" /\ l1[s].lineRespQ # <<>> /\ l1[s].hitQ = <<>>
      /\ l1' = [l1 EXCEPT ![s] = c]
  BY DEF CachesInv, handleDramResponse
<1>2. /\ l1[s].currReqQ # <<>> /\ Missed(s)
      /\ l1[s].lineReqQ = <<>> /\ Saved(s) /\ ~Asks(s) /\ ~Asks(s)'
      /\ Len(l1[s].lineRespQ) = 1 /\ Good(s, r.line, line)
  BY <1>1 DEF Stage1, Asks, Wanted
<1>3. /\ r \in Requests /\ r.line \in Lines /\ (r \in DataRequests \/ r.bytes = {}) /\ (s = "I" => r.bytes = {})
      /\ i \in 0 .. L1Sets - 1 /\ Tag1(r.line) \in Nat
  BY <1>1, <1>2, CurrType, RequestsAre, Place1 DEF Requests, Wanted
<1>4. line \in Data /\ Tail(l1[s].lineRespQ) = <<>> /\ Intact(r.line, line) /\ (s = "D" => line = Below(r.line))
  BY <1>1, <1>2, Types1, OneElement DEF Good
<1>5. Intact(r.line, Stored(line, r)) /\ (r.bytes = {} => Stored(line, r) = line)
  BY <1>3, <1>4, StoredIntact, LoadStoresNothing
<1> DEFINE new == Filled(r, line)
<1>6. /\ new \in Entries /\ new.valid /\ new.tag = Tag1(r.line) /\ (new.dirty <=> r.bytes # {})
      /\ new.data = Stored(line, r)
  BY <1>3, <1>5 DEF Filled, Entries, Intact
<1>7. Reply(r, line) \in Word \cup {Ack}
  BY <1>3, <1>4 DEF Reply, Data, Requests
<1>8. /\ c.store = [l1[s].store EXCEPT ![i] = new] /\ c.state = "WaitCAUResp"
      /\ c.currReqQ = <<>> /\ c.hitQ = <<Reply(r, line)>>
      /\ c.lineReqQ = <<>> /\ c.lineRespQ = <<>>
      /\ c \in Cache1
  <2>1. <<Reply(r, line)>> \in Seq(Word \cup {Ack})
    BY <1>7, OneInSeq
  <2>2. [l1[s].store EXCEPT ![i] = new] \in [0 .. L1Sets - 1 -> Entries]
    BY <1>1, <1>3, <1>6, Types1
  <2>3. <<>> \in Seq([req : Requests, hit : BOOLEAN, tagged : Entries]) /\ <<>> \in Seq(Data)
    OBVIOUS
  <2> HIDE DEF new, line, r, i
  <2> QED
    BY <1>1, <1>2, <1>4, <2>1, <2>2, <2>3, Types1 DEF Cache1, CacheType, new, line
<1> HIDE DEF c, new, line, r, i
<1>9. /\ l1' \in [Sides -> Cache1] /\ \A t \in Sides \ {s} : l1'[t] = l1[t]
      /\ l1'[s] = c
  BY <1>1, <1>8 DEF TypeOK, Cache1
<1>10. Queues1OK(s)'
  <2>1. l1'[s].hitQ = <<Reply(r, line)>> /\ l1'[s].currReqQ = <<>>
    BY <1>8, <1>9
  <2>2. Len(l1'[s].hitQ) <= 1 /\ Len(l1'[s].currReqQ) <= 1
    BY <2>1, ShortLengths
  <2> QED
    BY <2>1, <2>2 DEF Queues1OK
<1>11. \A x \in Lines :
         /\ Index1(x) # i => Entry1(s, x)' = Entry1(s, x) /\ (Hits1(s, x)' <=> Hits1(s, x))
         /\ Index1(x) = i => Entry1(s, x)' = new /\ (Hits1(s, x)' <=> x = r.line)
  <2> SUFFICES ASSUME NEW x \in Lines
               PROVE  /\ Index1(x) # i => Entry1(s, x)' = Entry1(s, x) /\ (Hits1(s, x)' <=> Hits1(s, x))
                      /\ Index1(x) = i => Entry1(s, x)' = new /\ (Hits1(s, x)' <=> x = r.line)
    OBVIOUS
  <2>1. Entry1(s, x)' = IF Index1(x) = i THEN new ELSE Entry1(s, x)
    BY <1>1, <1>3, <1>8, <1>9, Place1, Types1 DEF Entry1
  <2>2. Index1(x) = i /\ Tag1(x) = Tag1(r.line) <=> x = r.line
    BY <1>3, Place1 DEF i
  <2> QED
    BY <1>6, <2>1, <2>2 DEF Hits1
<1>12. Store1OK(s)'
  <2>1. \A x : Below(x)' = Below(x)
    BY <1>1, BelowKept
  <2>2. ASSUME NEW j \in 0 .. L1Sets - 1
        PROVE  /\ l1'[s].store[j].valid => \E x \in Lines : Index1(x) = j /\ Tag1(x) = l1'[s].store[j].tag
               /\ l1'[s].store[j].dirty => l1'[s].store[j].valid /\ s = "D"
    <3>1. l1'[s].store[j] = IF j = i THEN new ELSE l1[s].store[j]
      BY <1>1, <1>8, <1>9, Types1
    <3>2. new.dirty => s = "D"
      BY <1>3, <1>6 DEF Sides
    <3> QED
      BY <1>1, <1>3, <1>6, <3>1, <3>2 DEF Store1OK, i
  <2>3. ASSUME NEW x \in Lines, Hits1(s, x)'
        PROVE  /\ Intact(x, Entry1(s, x)'.data)
               /\ s = "D" /\ ~Entry1(s, x)'.dirty => Entry1(s, x)'.data = Below(x)
    <3>1. CASE Index1(x) = i
      <4>1. x = r.line /\ Entry1(s, x)' = new
        BY <1>11, <2>3, <3>1
      <4> QED
        BY <1>4, <1>5, <1>6, <4>1
    <3>2. CASE Index1(x) # i
      <4>1. Hits1(s, x) /\ Entry1(s, x)' = Entry1(s, x)
        BY <1>11, <2>3, <3>2
      <4> QED
        BY <1>1, <4>1 DEF Store1OK
    <3> QED
      BY <3>1, <3>2
  <2> QED
    BY <2>1, <2>2, <2>3 DEF Store1OK
<1>13. Stage1(s)'
  BY <1>2, <1>8, <1>9 DEF Stage1
<1> QED
  BY <1>1, <1>2, <1>9, <1>10, <1>12, <1>13, UpperStep

-----------------------------------------------------------------------------
\* The rules of Cache512 and the memory.

\* A side that has an entry in l2ReqFifo waits for a line.
LEMMA AskerWaits ==
  ASSUME CachesInv, NEW s \in Sides, Asks(s)
  PROVE  /\ l1[s].state = "WaitDramResp" /\ l1[s].currReqQ # <<>> /\ Missed(s) /\ Saved(s)
         /\ l1[s].lineReqQ = <<>> /\ l1[s].lineRespQ = <<>> /\ Wanted(s) \in Lines
<1>1. /\ l1[s].state = "WaitDramResp" /\ l1[s].currReqQ # <<>> /\ Missed(s) /\ Saved(s)
      /\ l1[s].lineReqQ = <<>> /\ l1[s].lineRespQ = <<>>
  BY DEF CachesInv, Stage1
<1> QED
  BY <1>1, CurrType DEF CachesInv

LEMMA SourcesAre ==
  ASSUME CachesInv
  PROVE  /\ l2.hitQ # <<>> => l2ReqFifo[1] \in Sides /\ Asks(l2ReqFifo[1])
         /\ ReadWaits => LET last == l2ReqFifo[Len(l2ReqFifo)] IN last \in Sides /\ Asks(last)
<1>1. l2ReqFifo \in Seq(Sides)
  BY DEF CachesInv, TypeOK
<1>2. CASE l2.hitQ # <<>>
  BY <1>1, <1>2, SourcesLength DEF CachesInv, Asks
<1>3. CASE ReadWaits
  BY <1>1, <1>3, SourcesLength DEF CachesInv, Asks
<1> QED
  BY <1>2, <1>3

LEMMA SourcesKept ==
  ASSUME CachesInv, UNCHANGED <<l1, l2ReqFifo>>, l2'.hitQ = l2.hitQ,
         \A line \in Lines : Below(line)' = Below(line),
         ReadWaits' <=> ReadWaits, ReadWaits => Curr2'.req.line = Curr2.req.line
  PROVE  SourcesMatch'
<1>1. \A s : Wanted(s)' = Wanted(s)
  BY DEF Wanted, Curr
<1>2. l2.hitQ # <<>> => Good(l2ReqFifo[1], Wanted(l2ReqFifo[1]), Head(l2.hitQ))'
  BY <1>1, SourcesAre, AskerWaits DEF CachesInv, SourcesMatch, Good
<1> QED
  BY <1>1, <1>2 DEF CachesInv, SourcesMatch

\* l2 works on the same request, with the same lines, and the memory does not
\* change.
LEMMA LookupKept ==
  ASSUME CachesInv, l2'.store = l2.store, l2'.currReqQ = l2.currReqQ, mem' = mem
  PROVE  /\ \A line : Below(line)' = Below(line)
         /\ Store2OK' /\ Lookup2'
         /\ Curr2' = Curr2 /\ Evicted2' = Evicted2
         /\ Saved2' <=> Saved2
         /\ ReadWaits' <=> ReadWaits
<1>1. \A line : Entry2(line)' = Entry2(line) /\ (Hits2(line)' <=> Hits2(line))
  BY SameStore2
<1>2. Curr2' = Curr2 /\ Evicted2' = Evicted2 /\ (ReadWaits' <=> ReadWaits)
  BY DEF Curr2, Evicted2, WriteOf, Index2, ReadWaits
<1>3. \A line : Below(line)' = Below(line)
  BY <1>1 DEF Below, WriteWaits
<1>4. Store2OK'
  BY <1>1 DEF CachesInv, Store2OK
<1>5. Lookup2'
  BY <1>1, <1>2 DEF CachesInv, Lookup2
<1>6. Saved2' <=> Saved2
  BY <1>2 DEF Saved2
<1> QED
  BY <1>2, <1>3, <1>4, <1>5, <1>6

LEMMA Evicted2Type ==
  ASSUME CachesInv, l2.currReqQ # <<>>, ~Curr2.hit, Curr2.tagged.dirty
  PROVE  /\ Evicted2 \in LineRequests /\ Evicted2.write
         /\ Evicted2.line # Curr2.req.line
         /\ Hits2(Evicted2.line) /\ Entry2(Evicted2.line) = Curr2.tagged
         /\ Evicted2.data = Curr2.tagged.data /\ Intact(Evicted2.line, Evicted2.data)
<1>1. Curr2.req.line \in Lines /\ Curr2.tagged = l2.store[Index2(Curr2.req.line)] /\ Curr2.tagged \in Entries
  BY Curr2Type DEF CachesInv, Lookup2, Entry2
<1>2. Curr2.tagged.valid
  BY <1>1, Place2 DEF CachesInv, Store2OK
<1>3. PICK line \in Lines : /\ Curr2.tagged.tag * L2Sets + Index2(Curr2.req.line) = line
                            /\ Index2(line) = Index2(Curr2.req.line) /\ line # Curr2.req.line
                            /\ Hits2(line) /\ Entry2(line) = Curr2.tagged
  BY <1>2, OldLine2
<1>4. Evicted2 = [write |-> TRUE, line |-> line, data |-> Curr2.tagged.data]
  BY <1>3 DEF Evicted2, WriteOf
<1>5. /\ Evicted2 \in LineRequests /\ Evicted2.write /\ Evicted2.line = line
      /\ Evicted2.data = Curr2.tagged.data
  BY <1>1, <1>4 DEF LineRequests, Entries
<1>6. Intact(line, Entry2(line).data)
  BY <1>3 DEF CachesInv, Store2OK
<1> QED
  BY <1>3, <1>5, <1>6

LEMMA HandleCAUResponse2 ==
  ASSUME CachesInv, handleCAUResponse2
  PROVE  CachesInv'
<1>1. /\ TypeOK /\ Queues2OK /\ Stage2 /\ Lookup2 /\ SourcesMatch /\ UNCHANGED <<l1, l2ReqFifo, mem, dl>>
      /\ l2.state = "WaitCAUResp" /\ l2.currReqQ # <<>>
  BY DEF CachesInv, handleCAUResponse2
<1>2. /\ Curr2.req \in LineRequests /\ Curr2.req.line \in Lines /\ Curr2.tagged \in Entries
      /\ l2.currReqQ = <<Curr2>> /\ Curr2.hit \in BOOLEAN
  BY <1>1, Curr2Type
<1>3. l2.lineReqQ = <<>> /\ dl = <<>> /\ l2.lineRespQ = <<>>
  BY <1>1 DEF Stage2
<1>4. CASE Curr2.hit /\ ~Curr2.req.write /\ l2.hitQ = <<>>
           /\ l2' = [l2 EXCEPT !.currReqQ = <<>>, !.hitQ = <<Curr2.tagged.data>>]
  <2>0. PICK line \in Lines : line = Curr2.req.line
    BY <1>2
  <2>d. PICK data : data = Curr2.tagged.data
    OBVIOUS
  <2>1. Hits2(line) /\ data = Entry2(line).data
    BY <1>1, <1>4, <2>0, <2>d DEF Lookup2
  <2>2. Intact(line, data) /\ data \in Data
    BY <1>2, <2>1 DEF CachesInv, Store2OK, Intact
  <2>3. /\ l2'.store = l2.store /\ l2'.state = l2.state /\ l2'.currReqQ = <<>> /\ l2'.hitQ = <<data>>
        /\ l2'.lineReqQ = l2.lineReqQ /\ l2'.lineRespQ = l2.lineRespQ
        /\ l2' \in Cache2
    <3>1. <<data>> \in Seq(Data)
      BY <2>2, OneInSeq
    <3>2. <<>> \in Seq([req : LineRequests, hit : BOOLEAN, tagged : Entries])
      OBVIOUS
    <3> QED
      BY <1>1, <1>4, <2>d, <3>1, <3>2, Types2 DEF Cache2, CacheType
  <2>4. TypeOK'
    BY <1>1, <2>3 DEF TypeOK, Cache2
  <2>5. \A x : Entry2(x)' = Entry2(x) /\ (Hits2(x)' <=> Hits2(x))
    BY <2>3, SameStore2
  <2>6. \A x : Below(x)' = Below(x)
    BY <1>1, <1>4, <2>3, <2>5 DEF Below, WriteWaits, Curr2
  <2>7. Store2OK'
    BY <1>1, <2>3, <2>5 DEF CachesInv, Store2OK
  <2>8. Queues2OK'
    BY <2>3, ShortLengths DEF Queues2OK
  <2>9. Stage2' /\ Lookup2'
    BY <1>1, <1>3, <2>3 DEF Stage2, Lookup2
  <2>10. SourcesMatch'
    <3>1. ReadWaits /\ ~ReadWaits'
      BY <1>1, <1>4, <2>3 DEF ReadWaits
    <3>2. Len(l2ReqFifo) = 1
      BY <1>1, <1>4, <3>1, SourcesLength
    <3>3. PICK s \in Sides : s = l2ReqFifo[1] /\ Wanted(s) = line
      BY <1>1, <2>0, <3>1, <3>2, SourcesAre DEF SourcesMatch
    <3>4. Below(line) = data
      BY <1>4, <2>0, <2>1 DEF Below, WriteWaits, Curr2
    <3>5. Wanted(s)' = Wanted(s) /\ Below(line)' = data
      BY <1>1, <2>6, <3>4 DEF Wanted, Curr
    <3>6. Good(s, Wanted(s), data)'
      BY <1>1, <2>2, <3>3, <3>5 DEF Good
    <3>7. Len(l2'.hitQ) = 1 /\ Head(l2'.hitQ) = data /\ l2'.hitQ # <<>>
      BY <2>3, OfOne
    <3>8. Len(l2ReqFifo') = Len(l2'.hitQ) + (IF ReadWaits' THEN 1 ELSE 0)
      BY <1>1, <3>1, <3>2, <3>7
    <3> QED
      BY <1>1, <3>1, <3>2, <3>3, <3>6, <3>7, <3>8 DEF SourcesMatch
  <2> QED
    BY <1>1, <2>4, <2>6, <2>7, <2>8, <2>9, <2>10, LowerStep
<1>5. CASE ~Curr2.hit /\ l2' = [l2 EXCEPT !.lineReqQ = Append(@, IF Curr2.tagged.dirty THEN Evicted2 ELSE ReadOf(Curr2.req.line)),
                                        !.state = IF Curr2.tagged.dirty THEN "SendReq" ELSE "WaitDramResp"]
  <2> DEFINE new == IF Curr2.tagged.dirty THEN Evicted2 ELSE ReadOf(Curr2.req.line)
             state == IF Curr2.tagged.dirty THEN "SendReq" ELSE "WaitDramResp"
  <2>1. new \in LineRequests /\ state \in {"SendReq", "WaitDramResp"}
    BY <1>1, <1>2, <1>5, Evicted2Type, ReadType
  <2>2. /\ Curr2.tagged.dirty => new = Evicted2 /\ state = "SendReq"
        /\ ~Curr2.tagged.dirty => new = ReadOf(Curr2.req.line) /\ state = "WaitDramResp"
    OBVIOUS
  <2>3. l2' = [l2 EXCEPT !.lineReqQ = Append(@, new), !.state = state] /\ Append(l2.lineReqQ, new) = <<new>>
    BY <1>3, <1>5, OfOne
  <2> HIDE DEF new, state
  <2>4. /\ l2'.store = l2.store /\ l2'.state = state /\ l2'.currReqQ = l2.currReqQ /\ l2'.hitQ = l2.hitQ
        /\ l2'.lineReqQ = <<new>> /\ l2'.lineRespQ = l2.lineRespQ
        /\ l2' \in Cache2
    <3>1. <<new>> \in Seq(LineRequests)
      BY <2>1, OneInSeq
    <3> QED
      BY <1>1, <2>1, <2>3, <3>1, Types2 DEF Cache2, CacheType
  <2>5. TypeOK'
    BY <1>1, <2>4 DEF TypeOK, Cache2
  <2>6. /\ \A line : Below(line)' = Below(line)
        /\ Store2OK' /\ Lookup2' /\ Curr2' = Curr2 /\ Evicted2' = Evicted2
        /\ Saved2' <=> Saved2
        /\ ReadWaits' <=> ReadWaits
    BY <1>1, <2>4, LookupKept
  <2>7. Queues2OK'
    BY <1>1, <2>4 DEF Queues2OK
  <2>8. Stage2'
    <3>1. CASE Curr2.tagged.dirty
      BY <1>1, <1>3, <1>5, <2>2, <2>4, <2>6, <3>1 DEF Stage2
    <3>2. CASE ~Curr2.tagged.dirty
      <4>1. Saved2'
        BY <2>6, <3>2 DEF Saved2
      <4> QED
        BY <1>1, <1>3, <1>5, <2>2, <2>4, <2>6, <3>2, <4>1 DEF Stage2
    <3> QED
      BY <3>1, <3>2
  <2>9. SourcesMatch'
    BY <1>1, <2>4, <2>6, SourcesKept
  <2> QED
    BY <1>1, <2>5, <2>6, <2>7, <2>8, <2>9, LowerStep
<1> QED
  BY <1>4, <1>5 DEF handleCAUResponse2

LEMMA HandleWriteback2 ==
  ASSUME CachesInv, handleWriteback2
  PROVE  CachesInv'
<1>1. /\ TypeOK /\ Queues2OK /\ Stage2 /\ Lookup2 /\ SourcesMatch /\ UNCHANGED <<l1, l2ReqFifo, mem, dl>>
      /\ l2.state = "SendReq"
      /\ l2' = [l2 EXCEPT !.lineReqQ = Append(@, ReadOf(Curr2.req.line)), !.state = "WaitDramResp"]
  BY DEF CachesInv, handleWriteback2
<1>2. /\ l2.currReqQ # <<>> /\ ~Curr2.hit /\ Curr2.tagged.dirty
      /\ l2.lineReqQ = <<Evicted2>> \/ (l2.lineReqQ = <<>> /\ Saved2)
      /\ dl = <<>> /\ l2.lineRespQ = <<>>
  BY <1>1 DEF Stage2
<1> DEFINE read == ReadOf(Curr2.req.line)
           queue == Append(l2.lineReqQ, read)
<1>3. read \in LineRequests /\ Evicted2 \in LineRequests
  BY <1>1, <1>2, Curr2Type, Evicted2Type, ReadType
<1>4. /\ queue = <<Evicted2, read>> \/ (queue = <<read>> /\ Saved2)
      /\ queue \in Seq(LineRequests)
  <2>1. Append(<<Evicted2>>, read) = <<Evicted2, read>> /\ Append(<<>>, read) = <<read>>
    BY OfOne, OfTwo
  <2>2. <<Evicted2, read>> \in Seq(LineRequests) /\ <<read>> \in Seq(LineRequests)
    BY <1>3, OneInSeq, TwoInSeq
  <2> HIDE DEF read
  <2> QED
    BY <1>2, <2>1, <2>2
<1> HIDE DEF queue, read
<1>5. /\ l2'.store = l2.store /\ l2'.state = "WaitDramResp" /\ l2'.currReqQ = l2.currReqQ /\ l2'.hitQ = l2.hitQ
      /\ l2'.lineReqQ = queue /\ l2'.lineRespQ = l2.lineRespQ
      /\ l2' \in Cache2
  BY <1>1, <1>4, Types2 DEF Cache2, CacheType, queue, read
<1>6. TypeOK'
  BY <1>1, <1>5 DEF TypeOK, Cache2
<1>7. /\ \A line : Below(line)' = Below(line)
      /\ Store2OK' /\ Lookup2' /\ Curr2' = Curr2 /\ Evicted2' = Evicted2
      /\ Saved2' <=> Saved2
      /\ ReadWaits' <=> ReadWaits
  BY <1>1, <1>5, LookupKept
<1>8. Queues2OK'
  BY <1>1, <1>5 DEF Queues2OK
<1>9. Stage2'
  BY <1>1, <1>2, <1>4, <1>5, <1>7 DEF Stage2, read
<1>10. SourcesMatch'
  BY <1>1, <1>5, <1>7, SourcesKept
<1> QED
  BY <1>1, <1>6, <1>7, <1>8, <1>9, <1>10, LowerStep

\* The memory does one thing for l2: it takes the old line, or gives the new one.
LEMMA ConnectCacheDram ==
  ASSUME CachesInv, connectCacheDram
  PROVE  CachesInv' /\ \A line \in Lines : Below(line)' = Below(line)
<1>1. /\ TypeOK /\ Queues2OK /\ Store2OK /\ Stage2 /\ Lookup2 /\ SourcesMatch /\ UNCHANGED <<l1, l2ReqFifo>>
      /\ l2' = [l2 EXCEPT !.lineReqQ = Tail(@)]
      /\ l2.lineReqQ # <<>>
  BY DEF CachesInv, connectCacheDram
<1>2. /\ l2.state # "WaitCAUResp" /\ l2.currReqQ # <<>> /\ ~Curr2.hit
      /\ dl = <<>> /\ l2.lineRespQ = <<>>
      /\ \/ l2.state = "SendReq" /\ l2.lineReqQ = <<Evicted2>> /\ Curr2.tagged.dirty
         \/ /\ l2.state = "WaitDramResp" /\ l2.lineReqQ = <<Evicted2, ReadOf(Curr2.req.line)>>
            /\ Curr2.tagged.dirty
         \/ l2.state = "WaitDramResp" /\ l2.lineReqQ = <<ReadOf(Curr2.req.line)>> /\ Saved2
  BY <1>1 DEF Stage2
<1>3. /\ Curr2.req.line \in Lines /\ ReadOf(Curr2.req.line) \in LineRequests
      /\ Curr2.tagged.dirty => Evicted2 \in LineRequests
  BY <1>1, <1>2, Curr2Type, Evicted2Type, ReadType
<1>4. Tail(l2.lineReqQ) \in Seq(LineRequests)
  BY <1>1, HeadTailProperties, Types2
<1>5. /\ l2'.store = l2.store /\ l2'.state = l2.state /\ l2'.currReqQ = l2.currReqQ /\ l2'.hitQ = l2.hitQ
      /\ l2'.lineReqQ = Tail(l2.lineReqQ) /\ l2'.lineRespQ = l2.lineRespQ
      /\ l2' \in Cache2
  BY <1>1, <1>4, Types2 DEF Cache2, CacheType
<1>6. Queues2OK'
  BY <1>1, <1>5 DEF Queues2OK
<1>7. Curr2' = Curr2 /\ Evicted2' = Evicted2 /\ (ReadWaits' <=> ReadWaits)
  BY <1>5 DEF Curr2, Evicted2, WriteOf, Index2, ReadWaits
<1>8. CASE l2.lineReqQ = <<ReadOf(Curr2.req.line)>> /\ Saved2 /\ l2.state = "WaitDramResp"
  <2>1. Head(l2.lineReqQ) = ReadOf(Curr2.req.line) /\ Tail(l2.lineReqQ) = <<>>
    BY <1>8, OfOne
  <2>2. mem' = mem /\ dl' = <<mem[Curr2.req.line]>>
    <3>1. Append(<<>>, mem[Curr2.req.line]) = <<mem[Curr2.req.line]>>
      BY OfOne
    <3>2. ~ReadOf(Curr2.req.line).write /\ ReadOf(Curr2.req.line).line = Curr2.req.line
      BY DEF ReadOf
    <3>3. mem' = mem /\ dl' = Append(dl, mem[Curr2.req.line])
      BY <2>1, <3>2 DEF connectCacheDram
    <3> QED
      BY <1>2, <3>1, <3>3
  <2>3. /\ \A line : Below(line)' = Below(line)
        /\ Store2OK' /\ Lookup2' /\ (Saved2' <=> Saved2)
    BY <1>1, <1>5, <2>2, LookupKept
  <2>4. TypeOK'
    <3>1. mem[Curr2.req.line] \in Data
      BY <1>1, <1>3 DEF TypeOK
    <3>2. <<mem[Curr2.req.line]>> \in Seq(Data)
      BY <3>1, OneInSeq
    <3> QED
      BY <1>1, <1>5, <2>2, <3>2 DEF TypeOK, Cache2
  <2>5. Stage2'
    BY <1>2, <1>5, <1>7, <1>8, <2>1, <2>2, <2>3 DEF Stage2
  <2>6. SourcesMatch'
    BY <1>1, <1>5, <1>7, <2>3, SourcesKept
  <2> QED
    BY <1>1, <1>6, <2>3, <2>4, <2>5, <2>6, LowerStep
<1>9. CASE Curr2.tagged.dirty /\ \/ l2.state = "SendReq" /\ l2.lineReqQ = <<Evicted2>>
                                 \/ /\ l2.state = "WaitDramResp"
                                    /\ l2.lineReqQ = <<Evicted2, ReadOf(Curr2.req.line)>>
  <2>1. PICK old \in LineRequests : old = Evicted2
    BY <1>3, <1>9
  <2>2. /\ old.write /\ old.line \in Lines /\ old.line # Curr2.req.line
        /\ Hits2(old.line) /\ Entry2(old.line).dirty /\ Intact(old.line, old.data) /\ old.data \in Data
    BY <1>2, <1>9, <2>1, Evicted2Type DEF LineRequests, Intact
  <2>3. Head(l2.lineReqQ) = old /\ Tail(l2.lineReqQ) \in {<<>>, <<ReadOf(Curr2.req.line)>>}
        /\ (l2.state = "SendReq" => Tail(l2.lineReqQ) = <<>>)
        /\ (l2.state = "WaitDramResp" => Tail(l2.lineReqQ) = <<ReadOf(Curr2.req.line)>>)
    BY <1>9, <2>1, OfOne, OfTwo, ZenonT(30)
  <2>4. dl' = dl /\ mem' = [mem EXCEPT ![old.line] = old.data]
    BY <2>2, <2>3 DEF connectCacheDram
  <2>5. mem' \in [Lines -> Data] /\ \A x \in Lines : mem'[x] = IF x = old.line THEN old.data ELSE mem[x]
    BY <1>1, <2>2, <2>4 DEF TypeOK
  <2>6. TypeOK'
    BY <1>1, <1>5, <2>4, <2>5 DEF TypeOK, Cache2
  <2>7. \A x : Entry2(x)' = Entry2(x) /\ (Hits2(x)' <=> Hits2(x))
    BY <1>5, SameStore2
  <2>8. \A x \in Lines : Below(x)' = Below(x)
    BY <1>5, <2>2, <2>5, <2>7 DEF Below, WriteWaits
  <2>9. Store2OK'
    <3>1. \A x \in Lines : Intact(x, mem'[x])
      BY <1>1, <2>2, <2>5 DEF Store2OK
    <3>2. \A x \in Lines : Hits2(x) /\ ~Entry2(x).dirty => Entry2(x).data = mem'[x]
      BY <1>1, <2>2, <2>5 DEF Store2OK
    <3> QED
      BY <1>1, <1>5, <2>7, <3>1, <3>2 DEF Store2OK
  <2>10. Lookup2'
    BY <1>1, <1>5, <1>7, <2>7 DEF Lookup2
  <2>11. Saved2'
    BY <1>7, <2>1, <2>2, <2>5 DEF Saved2
  <2>12. Stage2'
    BY <1>2, <1>5, <1>7, <1>9, <2>3, <2>4, <2>11 DEF Stage2
  <2>13. SourcesMatch'
    BY <1>1, <1>5, <1>7, <2>8, SourcesKept
  <2> QED
    BY <1>1, <1>6, <2>6, <2>8, <2>9, <2>10, <2>12, <2>13, LowerStep
<1> QED
  BY <1>2, <1>8, <1>9

LEMMA ConnectDramCache ==
  ASSUME CachesInv, connectDramCache
  PROVE  CachesInv'
<1>1. /\ TypeOK /\ Queues2OK /\ Stage2 /\ Lookup2 /\ SourcesMatch /\ UNCHANGED <<l1, l2ReqFifo, mem>>
      /\ l2' = [l2 EXCEPT !.lineRespQ = Append(@, Head(dl))]
      /\ dl # <<>> /\ dl' = Tail(dl)
  BY DEF CachesInv, connectDramCache
<1>2. /\ l2.state = "WaitDramResp" /\ l2.currReqQ # <<>> /\ ~Curr2.hit
      /\ l2.lineReqQ = <<>> /\ Saved2 /\ l2.lineRespQ = <<>>
      /\ dl = <<mem[Curr2.req.line]>>
  BY <1>1 DEF Stage2
<1>3. PICK data : data = mem[Curr2.req.line]
  OBVIOUS
<1>4. /\ Head(dl) = data /\ Tail(dl) = <<>> /\ Append(l2.lineRespQ, data) = <<data>> /\ data \in Data
  BY <1>1, <1>2, <1>3, OfOne, Curr2Type DEF TypeOK
<1>5. /\ l2'.store = l2.store /\ l2'.state = l2.state /\ l2'.currReqQ = l2.currReqQ /\ l2'.hitQ = l2.hitQ
      /\ l2'.lineReqQ = l2.lineReqQ /\ l2'.lineRespQ = <<data>>
      /\ l2' \in Cache2
  <2>1. <<data>> \in Seq(Data)
    BY <1>4, OneInSeq
  <2> QED
    BY <1>1, <1>4, <2>1, Types2 DEF Cache2, CacheType
<1>6. TypeOK'
  <2>1. <<>> \in Seq(Data)
    OBVIOUS
  <2> QED
    BY <1>1, <1>4, <1>5, <2>1 DEF TypeOK, Cache2
<1>7. /\ \A line : Below(line)' = Below(line)
      /\ Store2OK' /\ Lookup2' /\ Curr2' = Curr2 /\ Evicted2' = Evicted2
      /\ Saved2' <=> Saved2
      /\ ReadWaits' <=> ReadWaits
  BY <1>1, <1>5, LookupKept
<1>8. Queues2OK'
  BY <1>1, <1>5 DEF Queues2OK
<1>9. Stage2'
  BY <1>1, <1>2, <1>3, <1>4, <1>5, <1>7 DEF Stage2
<1>10. SourcesMatch'
  BY <1>1, <1>5, <1>7, SourcesKept
<1> QED
  BY <1>1, <1>6, <1>7, <1>8, <1>9, <1>10, LowerStep

LEMMA HandleDramResponse2 ==
  ASSUME CachesInv, handleDramResponse2
  PROVE  CachesInv' /\ \A line \in Lines : Below(line)' = Below(line)
<1>1. /\ TypeOK /\ Queues2OK /\ Store2OK /\ Stage2 /\ Lookup2 /\ SourcesMatch
      /\ UNCHANGED <<l1, l2ReqFifo, mem, dl>>
      /\ l2.state = "WaitDramResp" /\ l2.lineRespQ # <<>> /\ (Curr2.req.write \/ l2.hitQ = <<>>)
  BY DEF CachesInv, handleDramResponse2
<1>2. /\ l2.currReqQ # <<>> /\ ~Curr2.hit /\ Saved2
      /\ l2.lineReqQ = <<>> /\ dl = <<>> /\ l2.lineRespQ = <<mem[Curr2.req.line]>>
  BY <1>1 DEF Stage2
<1>3. PICK m \in LineRequests : m = Curr2.req
  BY <1>1, <1>2, Curr2Type
<1>4. m.line \in Lines /\ Index2(m.line) \in 0 .. L2Sets - 1 /\ Tag2(m.line) \in Nat
  BY Place2 DEF LineRequests
<1>5. PICK line \in Data : line = mem[m.line]
  BY <1>1, <1>4 DEF TypeOK
<1>6. Intact(m.line, line) /\ (m.write => Intact(m.line, m.data)) /\ ~Hits2(m.line)
  BY <1>1, <1>2, <1>3, <1>4, <1>5 DEF Store2OK, Lookup2
<1>7. PICK new : new = [valid |-> TRUE, dirty |-> m.write, tag |-> Tag2(m.line),
                        data |-> IF m.write THEN m.data ELSE line]
  OBVIOUS
<1>8. /\ new \in Entries /\ new.valid /\ new.tag = Tag2(m.line) /\ (new.dirty <=> m.write)
      /\ new.data = IF m.write THEN m.data ELSE line
      /\ Intact(m.line, new.data)
  <2>1. m.write \in BOOLEAN
    BY DEF LineRequests
  <2> QED
    BY <1>4, <1>6, <1>7, <2>1 DEF Entries, Intact
<1>9. PICK answer : answer = IF m.write THEN l2.hitQ ELSE <<line>>
  OBVIOUS
<1>10. answer \in Seq(Data) /\ Len(answer) <= 1
  <2>1. <<line>> \in Seq(Data) /\ Len(<<line>>) = 1
    BY OneInSeq
  <2>2. l2.hitQ \in Seq(Data) /\ Len(l2.hitQ) <= 1
    BY <1>1, Types2 DEF Queues2OK
  <2> QED
    BY <1>9, <2>1, <2>2
<1>11. /\ l2'.store = [l2.store EXCEPT ![Index2(m.line)] = new] /\ l2'.state = "WaitCAUResp"
       /\ l2'.currReqQ = <<>> /\ l2'.hitQ = answer
       /\ l2'.lineReqQ = <<>> /\ l2'.lineRespQ = <<>>
       /\ l2' \in Cache2
  <2>1. Head(l2.lineRespQ) = line /\ Tail(l2.lineRespQ) = <<>>
    BY <1>2, <1>3, <1>5, OfOne
  <2>2. l2' = [l2 EXCEPT !.lineRespQ = Tail(@), !.currReqQ = <<>>, !.state = "WaitCAUResp",
                         !.hitQ = answer, !.store[Index2(m.line)] = new]
    BY <1>3, <1>7, <1>9, <2>1 DEF handleDramResponse2
  <2>3. [l2.store EXCEPT ![Index2(m.line)] = new] \in [0 .. L2Sets - 1 -> Entries]
    BY <1>1, <1>4, <1>8, Types2
  <2>4. <<>> \in Seq([req : LineRequests, hit : BOOLEAN, tagged : Entries]) /\ <<>> \in Seq(Data)
    OBVIOUS
  <2> QED
    BY <1>1, <1>2, <1>10, <2>1, <2>2, <2>3, <2>4, Types2 DEF Cache2, CacheType
<1>12. TypeOK' /\ Queues2OK'
  BY <1>1, <1>10, <1>11, ShortLengths DEF TypeOK, Cache2, Queues2OK
<1>13. \A x \in Lines :
         /\ Index2(x) # Index2(m.line) => Entry2(x)' = Entry2(x) /\ (Hits2(x)' <=> Hits2(x))
         /\ Index2(x) = Index2(m.line) => Entry2(x)' = new /\ (Hits2(x)' <=> x = m.line)
  <2> SUFFICES ASSUME NEW x \in Lines
               PROVE  /\ Index2(x) # Index2(m.line) => Entry2(x)' = Entry2(x) /\ (Hits2(x)' <=> Hits2(x))
                      /\ Index2(x) = Index2(m.line) => Entry2(x)' = new /\ (Hits2(x)' <=> x = m.line)
    OBVIOUS
  <2>1. Entry2(x)' = IF Index2(x) = Index2(m.line) THEN new ELSE Entry2(x)
    BY <1>1, <1>4, <1>11, Place2, Types2 DEF Entry2
  <2>2. Index2(x) = Index2(m.line) /\ Tag2(x) = Tag2(m.line) <=> x = m.line
    BY <1>4, Place2
  <2> QED
    BY <1>8, <2>1, <2>2 DEF Hits2
\* What was in the place has been written back, or is what memory holds.
<1>14. ASSUME NEW x \in Lines, Index2(x) = Index2(m.line), Hits2(x)
       PROVE  Entry2(x).data = mem[x]
  <2>1. Curr2.tagged = Entry2(x)
    BY <1>1, <1>2, <1>3, <1>14 DEF Lookup2, Entry2
  <2>2. CASE ~Entry2(x).dirty
    BY <1>1, <1>14, <2>2 DEF Store2OK
  <2>3. CASE Entry2(x).dirty
    <3>1. Curr2.tagged.tag * L2Sets + Index2(Curr2.req.line) = x
      BY <1>3, <1>14, <2>1, Place2 DEF Hits2
    <3> QED
      BY <1>2, <2>1, <2>3, <3>1 DEF Saved2, Evicted2, WriteOf
  <2> QED
    BY <2>2, <2>3
<1>15. \A x \in Lines : Below(x)' = Below(x)
  <2> SUFFICES ASSUME NEW x \in Lines PROVE Below(x)' = Below(x)
    OBVIOUS
  <2>1. /\ WriteWaits(x) <=> m.write /\ x = m.line
        /\ ~WriteWaits(x)'
    BY <1>2, <1>3, <1>11 DEF WriteWaits, Curr2
  <2>2. CASE x = m.line
    <3>1. Below(x)' = new.data
      BY <1>13, <2>1, <2>2 DEF Below
    <3>2. Below(x) = IF m.write THEN m.data ELSE mem[x]
      BY <1>3, <1>6, <2>1, <2>2 DEF Below, Curr2
    <3> QED
      BY <1>5, <1>8, <2>2, <3>1, <3>2
  <2>3. CASE x # m.line /\ Index2(x) = Index2(m.line)
    BY <1>1, <1>13, <1>14, <2>1, <2>3 DEF Below
  <2>4. CASE Index2(x) # Index2(m.line)
    BY <1>1, <1>13, <2>1, <2>4 DEF Below
  <2> QED
    BY <2>2, <2>3, <2>4
<1>16. Store2OK'
  <2>1. ASSUME NEW j \in 0 .. L2Sets - 1
        PROVE  /\ l2'.store[j].valid => \E x \in Lines : Index2(x) = j /\ Tag2(x) = l2'.store[j].tag
               /\ l2'.store[j].dirty => l2'.store[j].valid
    <3>1. l2'.store[j] = IF j = Index2(m.line) THEN new ELSE l2.store[j]
      BY <1>1, <1>11, Types2
    <3> QED
      BY <1>1, <1>4, <1>8, <3>1 DEF Store2OK
  <2>2. ASSUME NEW x \in Lines, Hits2(x)'
        PROVE  /\ Intact(x, Entry2(x)'.data)
               /\ ~Entry2(x)'.dirty => Entry2(x)'.data = mem[x]
    <3>1. CASE Index2(x) = Index2(m.line)
      <4>1. x = m.line /\ Entry2(x)' = new
        BY <1>13, <2>2, <3>1
      <4> QED
        BY <1>5, <1>8, <4>1
    <3>2. CASE Index2(x) # Index2(m.line)
      <4>1. Hits2(x) /\ Entry2(x)' = Entry2(x)
        BY <1>13, <2>2, <3>2
      <4> QED
        BY <1>1, <4>1 DEF Store2OK
    <3> QED
      BY <3>1, <3>2
  <2>3. \A x \in Lines : Intact(x, mem[x])
    BY <1>1 DEF Store2OK
  <2> QED
    BY <1>1, <2>1, <2>2, <2>3 DEF Store2OK
<1>17. Stage2' /\ Lookup2'
  BY <1>1, <1>2, <1>11 DEF Stage2, Lookup2
<1>18. SourcesMatch'
  <2>1. ~ReadWaits'
    BY <1>11 DEF ReadWaits
  <2>2. CASE m.write
    <3>1. ~ReadWaits
      BY <1>3, <2>2 DEF ReadWaits
    <3>2. l2'.hitQ = l2.hitQ
      BY <1>9, <1>11, <2>2
    <3>3. /\ UNCHANGED <<l1, l2ReqFifo>>
          /\ ReadWaits' <=> ReadWaits
          /\ ReadWaits => Curr2'.req.line = Curr2.req.line
      BY <1>1, <2>1, <3>1
    <3> QED
      BY <1>15, <3>2, <3>3, SourcesKept
  <2>3. CASE ~m.write
    <3>1. ReadWaits
      BY <1>2, <1>3, <2>3 DEF ReadWaits
    <3>2. Len(l2ReqFifo) = 1
      <4>1. l2.hitQ = <<>>
        BY <1>1, <1>3, <2>3
      <4> QED
        BY <1>1, <3>1, <4>1, SourcesLength
    <3>3. PICK s \in Sides : s = l2ReqFifo[1] /\ Wanted(s) = m.line
      BY <1>1, <1>3, <3>1, <3>2, SourcesAre DEF SourcesMatch
    <3>4. Below(m.line) = line
      BY <1>3, <1>5, <1>6, <2>3 DEF Below, WriteWaits, Curr2
    <3>5. Wanted(s)' = Wanted(s) /\ Below(m.line)' = line
      BY <1>1, <1>4, <1>15, <3>4 DEF Wanted, Curr
    <3>6. Good(s, Wanted(s), line)'
      BY <1>6, <3>3, <3>5 DEF Good
    <3>7. Len(l2'.hitQ) = 1 /\ Head(l2'.hitQ) = line /\ l2'.hitQ # <<>>
      BY <1>9, <1>11, <2>3, OfOne
    <3>8. Len(l2ReqFifo') = Len(l2'.hitQ) + (IF ReadWaits' THEN 1 ELSE 0)
      BY <1>1, <2>1, <3>2, <3>7
    <3> QED
      BY <1>1, <2>1, <3>2, <3>3, <3>6, <3>7, <3>8 DEF SourcesMatch
  <2> QED
    BY <2>2, <2>3
<1> QED
  BY <1>1, <1>12, <1>15, <1>16, <1>17, <1>18, LowerStep

-----------------------------------------------------------------------------
\* The rules between the levels.

\* A line goes up to the side that has asked for it.
LEMMA ConnectL2L1DICache ==
  ASSUME CachesInv, connectL2L1DICache
  PROVE  CachesInv' /\ \A line \in Lines : Below(line)' = Below(line)
<1>1. /\ TypeOK /\ Queues2OK /\ Store2OK /\ Stage2 /\ Lookup2 /\ SourcesMatch
      /\ UNCHANGED <<mem, dl>> /\ l2.hitQ # <<>> /\ l2ReqFifo # <<>>
      /\ l2' = [l2 EXCEPT !.hitQ = <<>>] /\ l2ReqFifo' = Tail(l2ReqFifo)
  BY DEF CachesInv, connectL2L1DICache
<1>2. l2ReqFifo \in Seq(Sides) /\ Len(l2ReqFifo) \in Nat \ {0}
  BY <1>1, EmptySeq DEF TypeOK
<1>3. PICK s \in Sides : s = Head(l2ReqFifo) /\ s = l2ReqFifo[1] /\ Asks(s)
  BY <1>1, <1>2, SourcesAre
<1>4. PICK data \in Data : data = Head(l2.hitQ)
  BY <1>1, Types2
<1> DEFINE c == [l1[s] EXCEPT !.lineRespQ = Append(@, data)]
<1>5. l1' = [l1 EXCEPT ![s] = c]
  BY <1>3, <1>4 DEF connectL2L1DICache
<1>6. /\ l1[s].state = "WaitDramResp" /\ l1[s].currReqQ # <<>> /\ Missed(s) /\ Saved(s)
      /\ l1[s].lineReqQ = <<>> /\ l1[s].lineRespQ = <<>> /\ Wanted(s) \in Lines
  BY <1>3, AskerWaits
<1>7. /\ c.store = l1[s].store /\ c.state = l1[s].state /\ c.currReqQ = l1[s].currReqQ
      /\ c.hitQ = l1[s].hitQ /\ c.lineReqQ = l1[s].lineReqQ /\ c.lineRespQ = <<data>>
      /\ c \in Cache1
  <2>1. Append(<<>>, data) = <<data>> /\ <<data>> \in Seq(Data)
    BY OfOne, OneInSeq
  <2> QED
    BY <1>1, <1>6, <2>1, Types1 DEF Cache1, CacheType
<1> HIDE DEF c
<1>8. /\ l1' \in [Sides -> Cache1] /\ \A t \in Sides \ {s} : l1'[t] = l1[t]
      /\ l1'[s] = c
  BY <1>1, <1>5, <1>7 DEF TypeOK, Cache1
<1>9. /\ l2'.store = l2.store /\ l2'.state = l2.state /\ l2'.currReqQ = l2.currReqQ /\ l2'.hitQ = <<>>
      /\ l2'.lineReqQ = l2.lineReqQ /\ l2'.lineRespQ = l2.lineRespQ
      /\ l2' \in Cache2
  <2>1. <<>> \in Seq(Data)
    OBVIOUS
  <2> QED
    BY <1>1, <2>1, Types2 DEF Cache2, CacheType
<1>10. /\ \A line : Below(line)' = Below(line)
       /\ Store2OK' /\ Lookup2' /\ Curr2' = Curr2 /\ Evicted2' = Evicted2
       /\ Saved2' <=> Saved2
       /\ ReadWaits' <=> ReadWaits
  BY <1>1, <1>9, LookupKept
<1>11. /\ Len(l2ReqFifo) = IF ReadWaits THEN 2 ELSE 1
       /\ Len(l2ReqFifo) \in {1, 2}
  <2>1. CASE ReadWaits
    BY <1>1, <2>1, SourcesLength
  <2>2. CASE ~ReadWaits
    BY <1>1, <2>2, SourcesLength
  <2> QED
    BY <2>1, <2>2
<1>12. /\ l2ReqFifo' \in Seq(Sides) /\ Len(l2ReqFifo') = Len(l2ReqFifo) - 1
       /\ \A k \in 1 .. Len(l2ReqFifo) - 1 : l2ReqFifo'[k] = l2ReqFifo[k + 1]
  BY <1>1, <1>2, HeadTailProperties
<1>13. TypeOK'
  BY <1>1, <1>8, <1>9, <1>12 DEF TypeOK, Cache1, Cache2
<1>14. ~Asks(s)' /\ \A t \in Sides \ {s} : Asks(t)' <=> Asks(t)
  <2>1. CASE Len(l2ReqFifo) = 1
    BY <1>3, <1>12, <2>1 DEF Asks
  <2>2. CASE Len(l2ReqFifo) = 2
    <3>0. l2ReqFifo[1] # l2ReqFifo[2]
      BY <1>1, <2>2, Zenon DEF SourcesMatch
    <3>1. l2ReqFifo[2] # s /\ Len(l2ReqFifo') = 1 /\ l2ReqFifo'[1] = l2ReqFifo[2]
      BY <1>3, <1>12, <2>2, <3>0
    <3>2. \A t : Asks(t)' <=> t = l2ReqFifo[2]
      BY <3>1 DEF Asks
    <3>3. \A t : Asks(t) <=> t = s \/ t = l2ReqFifo[2]
      BY <1>3, <2>2 DEF Asks
    <3> QED
      BY <3>1, <3>2, <3>3
  <2> QED
    BY <1>11, <2>1, <2>2
<1>15. \A t \in Sides \ {s} : Queues1OK(t)' /\ Store1OK(t)' /\ Stage1(t)'
  BY <1>8, <1>10, <1>14, SideKept
<1>16. Queues1OK(s)' /\ Store1OK(s)'
  <2>1. Queues1OK(s)'
    BY <1>7, <1>8 DEF CachesInv, Queues1OK, Curr
  <2>2. Store1OK(s)'
    BY <1>7, <1>8, <1>10, StoreKept
  <2> QED
    BY <2>1, <2>2
<1>17. Curr(s)' = Curr(s) /\ Wanted(s)' = Wanted(s) /\ Evicted(Curr(s))' = Evicted(Curr(s))
  BY <1>7, <1>8 DEF Curr, Wanted, Evicted, WriteOf, Index1
<1>18. Missed(s)' /\ Saved(s)'
  <2>1. Missed(s)'
    BY <1>6, <1>7, <1>8, <1>17, SameStore1 DEF Missed
  <2>2. PICK x : x = Evicted(Curr(s)).line
    OBVIOUS
  <2>3. Below(Evicted(Curr(s)).line)' = Below(x)'
    BY <1>17, <2>2 DEF Below, WriteWaits, Hits2, Entry2
  <2>4. Below(Evicted(Curr(s)).line) = Below(x)
    BY <2>2
  <2>5. Saved(s)'
    BY <1>6, <1>10, <1>17, <2>3, <2>4 DEF Saved
  <2> QED
    BY <2>1, <2>5
<1>19. Good(s, Wanted(s), data)'
  <2>1. Good(s, Wanted(s), data)
    BY <1>1, <1>3, <1>4 DEF SourcesMatch
  <2>2. Below(Wanted(s))' = Below(Wanted(s))
    BY <1>10, <1>17 DEF Below, WriteWaits, Hits2, Entry2
  <2> QED
    BY <1>17, <2>1, <2>2 DEF Good
<1>20. Stage1(s)'
  <2>1. Len(l1'[s].lineRespQ) = 1 /\ Head(l1'[s].lineRespQ) = data
    BY <1>7, <1>8, OfOne
  <2> QED
    BY <1>6, <1>7, <1>8, <1>14, <1>18, <1>19, <2>1 DEF Stage1
<1>21. Queues2OK' /\ Stage2'
  <2>1. Queues2OK'
    BY <1>1, <1>9, ShortLengths DEF Queues2OK
  <2>2. Stage2'
    BY <1>1, <1>9, <1>10 DEF Stage2
  <2> QED
    BY <2>1, <2>2
<1>22. SourcesMatch'
  <2>1. Len(<<>>) = 0
    OBVIOUS
  <2>2. CASE ReadWaits
    <3>1. Len(l2ReqFifo') = 1 /\ l2ReqFifo'[1] = l2ReqFifo[2] /\ Len(l2ReqFifo) = 2
      BY <1>11, <1>12, <2>2
    <3>2. PICK t \in Sides : t = l2ReqFifo[2] /\ t # s /\ Curr2.req.line = Wanted(t)
      <4>1. l2ReqFifo[1] # l2ReqFifo[2]
        BY <1>1, <3>1, Zenon DEF SourcesMatch
      <4>2. l2ReqFifo[2] \in Sides
        BY <1>2, <3>1, ElementOfSeq
      <4>3. Curr2.req.line = Wanted(l2ReqFifo[Len(l2ReqFifo)])
        BY <1>1, <2>2, Zenon DEF SourcesMatch
      <4> QED
        BY <1>3, <3>1, <4>1, <4>2, <4>3
    <3>3. Wanted(t)' = Wanted(t)
      BY <1>8, <3>2 DEF Wanted, Curr
    <3>4. Len(l2ReqFifo') = Len(l2'.hitQ) + (IF ReadWaits' THEN 1 ELSE 0)
      BY <1>9, <1>10, <2>1, <2>2, <3>1
    <3> QED
      BY <1>9, <1>10, <2>2, <3>1, <3>2, <3>3, <3>4 DEF SourcesMatch
  <2>3. CASE ~ReadWaits
    <3>1. Len(l2ReqFifo') = 0
      BY <1>11, <1>12, <2>3
    <3>2. Len(l2ReqFifo') = Len(l2'.hitQ) + (IF ReadWaits' THEN 1 ELSE 0)
      BY <1>9, <1>10, <2>1, <2>3, <3>1
    <3> QED
      BY <1>9, <1>10, <2>3, <3>1, <3>2 DEF SourcesMatch
  <2> QED
    BY <2>2, <2>3
<1> QED
  BY <1>10, <1>13, <1>15, <1>16, <1>20, <1>21, <1>22 DEF CachesInv

\* What a cache of the core sends to l2 next.
LEMMA NextRequest ==
  ASSUME CachesInv, NEW s \in Sides, l1[s].lineReqQ # <<>>
  PROVE  /\ l1[s].currReqQ # <<>> /\ Missed(s) /\ Wanted(s) \in Lines
         /\ l1[s].lineRespQ = <<>> /\ ~Asks(s) /\ l1[s].state # "WaitCAUResp"
         /\ \/ /\ l1[s].state = "SendReq" /\ Curr(s).tagged.dirty
               /\ Head(l1[s].lineReqQ) = Evicted(Curr(s)) /\ Tail(l1[s].lineReqQ) = <<>>
            \/ /\ l1[s].state = "WaitDramResp" /\ Curr(s).tagged.dirty
               /\ Head(l1[s].lineReqQ) = Evicted(Curr(s))
               /\ Tail(l1[s].lineReqQ) = <<ReadOf(Wanted(s))>>
            \/ /\ l1[s].state = "WaitDramResp" /\ Saved(s)
               /\ Head(l1[s].lineReqQ) = ReadOf(Wanted(s)) /\ Tail(l1[s].lineReqQ) = <<>>
<1>1. /\ l1[s].currReqQ # <<>> /\ Missed(s)
      /\ l1[s].lineRespQ = <<>> /\ ~Asks(s) /\ l1[s].state # "WaitCAUResp"
      /\ \/ /\ l1[s].state = "SendReq" /\ Curr(s).tagged.dirty
            /\ l1[s].lineReqQ = <<Evicted(Curr(s))>>
         \/ /\ l1[s].state = "WaitDramResp" /\ Curr(s).tagged.dirty
            /\ l1[s].lineReqQ = <<Evicted(Curr(s)), ReadOf(Wanted(s))>>
         \/ /\ l1[s].state = "WaitDramResp" /\ Saved(s)
            /\ l1[s].lineReqQ = <<ReadOf(Wanted(s))>>
  BY DEF CachesInv, Stage1
<1>2. Wanted(s) \in Lines
  BY <1>1, CurrType DEF CachesInv
<1> DEFINE old == Evicted(Curr(s))
           read == ReadOf(Wanted(s))
<1>3. /\ Head(<<old>>) = old /\ Tail(<<old>>) = <<>>
      /\ Head(<<read>>) = read /\ Tail(<<read>>) = <<>>
      /\ Head(<<old, read>>) = old /\ Tail(<<old, read>>) = <<read>>
  BY OfOne, OfTwo
<1> HIDE DEF old, read
<1>4. \/ /\ l1[s].state = "SendReq" /\ Curr(s).tagged.dirty
         /\ l1[s].lineReqQ = <<old>>
      \/ /\ l1[s].state = "WaitDramResp" /\ Curr(s).tagged.dirty
         /\ l1[s].lineReqQ = <<old, read>>
      \/ /\ l1[s].state = "WaitDramResp" /\ Saved(s)
         /\ l1[s].lineReqQ = <<read>>
  BY <1>1 DEF old, read
<1>5. \/ /\ l1[s].state = "SendReq" /\ Curr(s).tagged.dirty
         /\ Head(l1[s].lineReqQ) = old /\ Tail(l1[s].lineReqQ) = <<>>
      \/ /\ l1[s].state = "WaitDramResp" /\ Curr(s).tagged.dirty
         /\ Head(l1[s].lineReqQ) = old /\ Tail(l1[s].lineReqQ) = <<read>>
      \/ /\ l1[s].state = "WaitDramResp" /\ Saved(s)
         /\ Head(l1[s].lineReqQ) = read /\ Tail(l1[s].lineReqQ) = <<>>
  BY <1>3, <1>4
<1> QED
  BY <1>1, <1>2, <1>5 DEF old, read

\* The instruction side never waits for what is below: it has nothing to save.
LEMMA InstrSideKept ==
  ASSUME CachesInv, l1'["I"] = l1["I"], Asks("I")' <=> Asks("I")
  PROVE  Queues1OK("I")' /\ Store1OK("I")' /\ Stage1("I")'
<1> "I" \in Sides
  BY DEF Sides
<1>1. Queues1OK("I")'
  BY DEF CachesInv, Queues1OK, Curr
<1>2. \A line : Entry1("I", line)' = Entry1("I", line) /\ (Hits1("I", line)' <=> Hits1("I", line))
  BY SameStore1
<1>3. Store1OK("I")'
  BY <1>2 DEF CachesInv, Store1OK
<1>4. /\ Curr("I")' = Curr("I") /\ Wanted("I")' = Wanted("I")
      /\ Missed("I")' <=> Missed("I")
      /\ Found("I")' <=> Found("I")
      /\ Evicted(Curr("I"))' = Evicted(Curr("I"))
  BY <1>2 DEF Curr, Wanted, Missed, Found, Evicted, WriteOf, Index1
<1>5. l1["I"].currReqQ # <<>> /\ Missed("I") => Saved("I")'
  BY <1>4, EvictedType DEF Saved
<1>6. \A d : Good("I", Wanted("I"), d)' <=> Good("I", Wanted("I"), d)
  BY <1>4 DEF Good
<1>7. Stage1("I")
  BY DEF CachesInv
<1>8. Stage1("I")'
  BY <1>4, <1>5, <1>6, <1>7 DEF Stage1
<1> QED
  BY <1>1, <1>3, <1>8

\* l2 has to work on a request: a read, or a write that misses.
LEMMA LookedUp ==
  ASSUME CachesInv, l2.currReqQ = <<>>, NEW m \in LineRequests, l2' = Taken(m),
         ~(m.write /\ Hits2(m.line)), m.write => Intact(m.line, m.data), UNCHANGED <<mem, dl>>
  PROVE  /\ l2' \in Cache2 /\ l2'.hitQ = l2.hitQ
         /\ Queues2OK' /\ Store2OK' /\ Stage2' /\ Lookup2'
         /\ ReadWaits' <=> ~m.write
         /\ Curr2'.req = m
         /\ \A x \in Lines : Below(x)' = IF m.write /\ x = m.line THEN m.data ELSE Below(x)
<1> DEFINE asked == [req |-> m, hit |-> Hits2(m.line), tagged |-> Entry2(m.line)]
<1>1. TypeOK /\ Queues2OK /\ Store2OK /\ Stage2 /\ m.line \in Lines
  BY DEF CachesInv, LineRequests
<1>2. asked \in [req : LineRequests, hit : BOOLEAN, tagged : Entries]
  BY <1>1, Entries2 DEF Hits2, Entries
<1>3. l2' = [l2 EXCEPT !.currReqQ = <<asked>>]
  BY DEF Taken
<1>4. asked.req = m /\ (asked.hit <=> Hits2(m.line)) /\ asked.tagged = Entry2(m.line)
  OBVIOUS
<1> HIDE DEF asked
<1>5. /\ l2'.store = l2.store /\ l2'.state = l2.state /\ l2'.currReqQ = <<asked>> /\ l2'.hitQ = l2.hitQ
      /\ l2'.lineReqQ = l2.lineReqQ /\ l2'.lineRespQ = l2.lineRespQ
      /\ l2' \in Cache2
  <2>1. <<asked>> \in Seq([req : LineRequests, hit : BOOLEAN, tagged : Entries])
    BY <1>2, OneInSeq
  <2> QED
    BY <1>1, <1>3, <2>1, Types2 DEF Cache2, CacheType
<1>6. Head(l2'.currReqQ) = asked /\ Curr2' = asked /\ l2'.currReqQ # <<>>
  BY <1>5, OfOne DEF Curr2
<1>7. \A x : Entry2(x)' = Entry2(x) /\ (Hits2(x)' <=> Hits2(x))
  BY <1>5, SameStore2
<1>8. Queues2OK'
  BY <1>1, <1>5, ShortLengths DEF Queues2OK
<1>9. Store2OK'
  BY <1>1, <1>5, <1>7 DEF Store2OK
<1>10. Stage2'
  <2>1. l2.state = "WaitCAUResp" /\ l2.lineReqQ = <<>> /\ dl = <<>> /\ l2.lineRespQ = <<>>
    BY <1>1 DEF Stage2
  <2> QED
    BY <1>5, <2>1 DEF Stage2
<1>11. Lookup2'
  BY <1>4, <1>6, <1>7 DEF Lookup2
<1>12. ReadWaits' <=> ~m.write
  BY <1>4, <1>6 DEF ReadWaits
<1>13. \A x : (WriteWaits(x)' <=> m.write /\ x = m.line) /\ ~WriteWaits(x)
  BY <1>4, <1>6 DEF WriteWaits
<1>14. \A x : Below(x)' = IF m.write /\ x = m.line THEN m.data ELSE Below(x)
  BY <1>4, <1>6, <1>7, <1>13 DEF Below
<1> QED
  BY <1>4, <1>5, <1>6, <1>8, <1>9, <1>10, <1>11, <1>12, <1>14

\* l2 has the line and takes the one written in its place.
LEMMA Overwritten ==
  ASSUME CachesInv, l2.currReqQ = <<>>, NEW m \in LineRequests, l2' = Taken(m),
         m.write, Hits2(m.line), Intact(m.line, m.data), UNCHANGED <<mem, dl>>
  PROVE  /\ l2' \in Cache2 /\ l2'.hitQ = l2.hitQ
         /\ Queues2OK' /\ Store2OK' /\ Stage2' /\ Lookup2'
         /\ ~ReadWaits'
         /\ \A x \in Lines : Below(x)' = IF x = m.line THEN m.data ELSE Below(x)
<1>1. TypeOK /\ Queues2OK /\ Store2OK /\ Stage2 /\ m.line \in Lines
  BY DEF CachesInv, LineRequests
<1> DEFINE i == Index2(m.line)
           entry == Entry2(m.line)
           new == [entry EXCEPT !.dirty = TRUE, !.data = m.data]
<1>2. i \in 0 .. L2Sets - 1 /\ entry \in Entries /\ entry = l2.store[i] /\ entry.valid /\ entry.tag = Tag2(m.line)
  BY <1>1, Place2, Entries2 DEF Entry2, Hits2
<1>3. l2' = [l2 EXCEPT !.store[i] = new]
  BY DEF Taken
<1> HIDE DEF i, entry
<1>4. new \in Entries /\ new.valid /\ new.dirty /\ new.tag = Tag2(m.line) /\ new.data = m.data
  BY <1>2 DEF Entries, Intact
<1> HIDE DEF new
<1>5. /\ l2'.store = [l2.store EXCEPT ![i] = new] /\ l2'.state = l2.state /\ l2'.currReqQ = <<>>
      /\ l2'.hitQ = l2.hitQ /\ l2'.lineReqQ = l2.lineReqQ /\ l2'.lineRespQ = l2.lineRespQ
      /\ l2' \in Cache2
  <2>1. [l2.store EXCEPT ![i] = new] \in [0 .. L2Sets - 1 -> Entries]
    BY <1>1, <1>2, <1>4, Types2
  <2> QED
    BY <1>1, <1>3, <2>1, Types2 DEF Cache2, CacheType
<1>6. \A x \in Lines : /\ Entry2(x)' = IF Index2(x) = i THEN new ELSE Entry2(x)
                       /\ Hits2(x)' <=> Hits2(x)
                       /\ Hits2(x) /\ Index2(x) = i => x = m.line
  <2> SUFFICES ASSUME NEW x \in Lines
               PROVE  /\ Entry2(x)' = IF Index2(x) = i THEN new ELSE Entry2(x)
                      /\ Hits2(x)' <=> Hits2(x)
                      /\ Hits2(x) /\ Index2(x) = i => x = m.line
    OBVIOUS
  <2>1. Entry2(x)' = IF Index2(x) = i THEN new ELSE Entry2(x)
    BY <1>1, <1>2, <1>5, Place2, Types2 DEF Entry2
  <2>2. Index2(x) = i => Entry2(x) = entry
    BY <1>2 DEF Entry2
  <2>3. Index2(x) = i /\ Tag2(x) = Tag2(m.line) => x = m.line
    BY <1>1, Place2 DEF i
  <2> QED
    BY <1>2, <1>4, <2>1, <2>2, <2>3 DEF Hits2
<1>7. Index2(m.line) = i
  BY DEF i
<1>8. Queues2OK'
  BY <1>1, <1>5, ShortLengths DEF Queues2OK
<1>9. Store2OK'
  <2>1. ASSUME NEW j \in 0 .. L2Sets - 1
        PROVE  /\ l2'.store[j].valid => \E x \in Lines : Index2(x) = j /\ Tag2(x) = l2'.store[j].tag
               /\ l2'.store[j].dirty => l2'.store[j].valid
    <3>1. l2'.store[j] = IF j = i THEN new ELSE l2.store[j]
      BY <1>1, <1>2, <1>5, Types2
    <3> QED
      BY <1>1, <1>4, <1>7, <3>1 DEF Store2OK
  <2>2. ASSUME NEW x \in Lines, Hits2(x)'
        PROVE  /\ Intact(x, Entry2(x)'.data)
               /\ ~Entry2(x)'.dirty => Entry2(x)'.data = mem[x]
    BY <1>1, <1>4, <1>6, <2>2 DEF Store2OK
  <2>3. \A x \in Lines : Intact(x, mem[x])
    BY <1>1 DEF Store2OK
  <2> QED
    BY <2>1, <2>2, <2>3 DEF Store2OK
<1>10. Stage2'
  <2>1. l2.state = "WaitCAUResp" /\ l2.lineReqQ = <<>> /\ dl = <<>> /\ l2.lineRespQ = <<>>
    BY <1>1 DEF Stage2
  <2> QED
    BY <1>5, <2>1 DEF Stage2
<1>11. Lookup2' /\ ~ReadWaits'
  BY <1>5 DEF Lookup2, ReadWaits
<1>12. \A x : ~WriteWaits(x)' /\ ~WriteWaits(x)
  BY <1>5 DEF WriteWaits
<1>13. \A x \in Lines : Below(x)' = IF x = m.line THEN m.data ELSE Below(x)
  BY <1>4, <1>6, <1>7, <1>12 DEF Below
<1> QED
  BY <1>5, <1>8, <1>9, <1>10, <1>11, <1>13

\* A cache of the core that has sent a request to l2.
LEMMA Sent ==
  ASSUME CachesInv, NEW s \in Sides, l1[s].lineReqQ # <<>>,
         l1' = [l1 EXCEPT ![s] = [l1[s] EXCEPT !.lineReqQ = Tail(@)]]
  PROVE  /\ l1' \in [Sides -> Cache1] /\ \A t \in Sides \ {s} : l1'[t] = l1[t]
         /\ l1'[s].store = l1[s].store /\ l1'[s].state = l1[s].state
         /\ l1'[s].currReqQ = l1[s].currReqQ /\ l1'[s].hitQ = l1[s].hitQ
         /\ l1'[s].lineReqQ = Tail(l1[s].lineReqQ) /\ l1'[s].lineRespQ = l1[s].lineRespQ
         /\ \A t \in Sides : Curr(t)' = Curr(t) /\ Wanted(t)' = Wanted(t) /\ Evicted(Curr(t))' = Evicted(Curr(t))
         /\ Missed(s)' <=> Missed(s)
         /\ Queues1OK(s)'
<1> DEFINE c == [l1[s] EXCEPT !.lineReqQ = Tail(@)]
<1>1. TypeOK
  BY DEF CachesInv
<1>2. /\ c.store = l1[s].store /\ c.state = l1[s].state /\ c.currReqQ = l1[s].currReqQ
      /\ c.hitQ = l1[s].hitQ /\ c.lineReqQ = Tail(l1[s].lineReqQ) /\ c.lineRespQ = l1[s].lineRespQ
      /\ c \in Cache1
  <2>1. Tail(l1[s].lineReqQ) \in Seq(LineRequests)
    BY <1>1, HeadTailProperties, Types1
  <2> QED
    BY <1>1, <2>1, Types1 DEF Cache1, CacheType
<1>3. l1' = [l1 EXCEPT ![s] = c]
  OBVIOUS
<1> HIDE DEF c
<1>4. l1' \in [Sides -> Cache1] /\ (\A t \in Sides \ {s} : l1'[t] = l1[t]) /\ l1'[s] = c
  BY <1>1, <1>2, <1>3 DEF TypeOK, Cache1
<1>5. \A t \in Sides : l1'[t].currReqQ = l1[t].currReqQ
  BY <1>2, <1>4
<1>6. \A t \in Sides : Curr(t)' = Curr(t) /\ Wanted(t)' = Wanted(t) /\ Evicted(Curr(t))' = Evicted(Curr(t))
  BY <1>5 DEF Curr, Wanted, Evicted, WriteOf, Index1
<1>7. Missed(s)' <=> Missed(s)
  BY <1>2, <1>4, <1>6, SameStore1 DEF Missed
<1>8. Queues1OK(s)'
  BY <1>2, <1>4, <1>6 DEF CachesInv, Queues1OK
<1> QED
  BY <1>2, <1>4, <1>6, <1>7, <1>8

\* l2 takes a read, and who asked for the line is noted.
LEMMA TakeRead ==
  ASSUME CachesInv, NEW s \in Sides, l1[s].lineReqQ # <<>>, ~Head(l1[s].lineReqQ).write,
         l2.currReqQ = <<>>, UNCHANGED <<mem, dl>>,
         l2ReqFifo' = Append(l2ReqFifo, s), l2' = Taken(Head(l1[s].lineReqQ)),
         l1' = [l1 EXCEPT ![s] = [l1[s] EXCEPT !.lineReqQ = Tail(@)]]
  PROVE  CachesInv' /\ \A line \in Lines : Below(line)' = Below(line)
<1>1. /\ TypeOK /\ Queues2OK /\ SourcesMatch /\ l2ReqFifo \in Seq(Sides)
  BY DEF CachesInv, TypeOK
<1>2. /\ l1[s].currReqQ # <<>> /\ Missed(s) /\ Saved(s) /\ Wanted(s) \in Lines
      /\ l1[s].lineRespQ = <<>> /\ ~Asks(s) /\ l1[s].state = "WaitDramResp"
      /\ Head(l1[s].lineReqQ) = ReadOf(Wanted(s)) /\ Tail(l1[s].lineReqQ) = <<>>
  <2>1. Evicted(Curr(s)).write
    BY DEF Evicted, WriteOf
  <2> QED
    BY <2>1, NextRequest
<1>3. PICK m \in LineRequests : m = Head(l1[s].lineReqQ) /\ ~m.write /\ m.line = Wanted(s)
  BY <1>2, ReadType DEF ReadOf
<1>4. /\ l1' \in [Sides -> Cache1] /\ \A t \in Sides \ {s} : l1'[t] = l1[t]
      /\ l1'[s].store = l1[s].store /\ l1'[s].state = l1[s].state
      /\ l1'[s].currReqQ = l1[s].currReqQ
      /\ l1'[s].lineReqQ = <<>> /\ l1'[s].lineRespQ = <<>>
      /\ \A t \in Sides : Curr(t)' = Curr(t) /\ Wanted(t)' = Wanted(t) /\ Evicted(Curr(t))' = Evicted(Curr(t))
      /\ Missed(s)' /\ Queues1OK(s)'
  BY <1>2, Sent
<1>5. /\ l2' \in Cache2 /\ l2'.hitQ = l2.hitQ
      /\ Queues2OK' /\ Store2OK' /\ Stage2' /\ Lookup2'
      /\ ReadWaits' /\ Curr2'.req.line = Wanted(s)
      /\ \A x \in Lines : Below(x)' = Below(x)
  BY <1>3, LookedUp
<1>6. /\ l2ReqFifo' \in Seq(Sides) /\ Len(l2ReqFifo') = Len(l2ReqFifo) + 1 /\ Len(l2ReqFifo) \in Nat
      /\ l2ReqFifo'[Len(l2ReqFifo')] = s
      /\ \A k \in 1 .. Len(l2ReqFifo) : l2ReqFifo'[k] = l2ReqFifo[k]
  BY <1>1, AppendProperties
<1>7. Asks(s)' /\ \A t \in Sides \ {s} : Asks(t)' <=> Asks(t)
  BY <1>6 DEF Asks
<1>8. \A t \in Sides \ {s} : Queues1OK(t)' /\ Store1OK(t)' /\ Stage1(t)'
  BY <1>4, <1>5, <1>7, SideKept
<1>9. Store1OK(s)'
  BY <1>4, <1>5, StoreKept
<1>10. Saved(s)'
  <2> SUFFICES ASSUME Curr(s).tagged.dirty
               PROVE  Below(Evicted(Curr(s)).line)' = Evicted(Curr(s)).data
    BY <1>4 DEF Saved
  <2>1. PICK x \in Lines : x = Evicted(Curr(s)).line
    BY <1>2, EvictedType DEF LineRequests
  <2>2. Below(Evicted(Curr(s)).line)' = Below(x)'
    BY <1>4, <2>1 DEF Below, WriteWaits, Hits2, Entry2
  <2> QED
    BY <1>2, <1>5, <2>1, <2>2 DEF Saved
<1>11. Stage1(s)'
  BY <1>2, <1>4, <1>7, <1>10 DEF Stage1
<1>12. SourcesMatch'
  <2>1. ~ReadWaits
    BY DEF ReadWaits
  <2>2. Len(l2ReqFifo') = Len(l2'.hitQ) + (IF ReadWaits' THEN 1 ELSE 0)
    <3>1. Len(l2ReqFifo) = Len(l2.hitQ) + 0
      BY <1>1, <2>1, Zenon DEF SourcesMatch
    <3>2. Len(l2.hitQ) \in Nat
      BY <1>1, Types2
    <3>3. Len(l2ReqFifo') = Len(l2'.hitQ) + 1
      BY <1>5, <1>6, <3>1, <3>2
    <3> QED
      BY <1>5, <3>3
  <2>3. Curr2'.req.line = Wanted(l2ReqFifo[Len(l2ReqFifo)])'
    <3>1. Wanted(l2ReqFifo[Len(l2ReqFifo)])' = Wanted(s)'
      BY <1>6 DEF Wanted, Curr
    <3> QED
      BY <1>4, <1>5, <3>1
  <2>4. CASE l2.hitQ = <<>>
    <3>1. Len(l2ReqFifo') = 1
      BY <1>1, <1>6, <2>1, <2>4, SourcesLength
    <3> QED
      BY <1>5, <2>2, <2>3, <2>4, <3>1 DEF SourcesMatch
  <2>5. CASE l2.hitQ # <<>>
    <3>1. Len(l2ReqFifo) = 1 /\ l2ReqFifo[1] \in Sides /\ Asks(l2ReqFifo[1])
      BY <1>1, <2>1, <2>5, SourcesAre, SourcesLength
    <3>2. PICK f \in Sides : f = l2ReqFifo[1] /\ f # s /\ Asks(f)
      BY <1>2, <3>1
    <3>3. /\ Len(l2ReqFifo') = 2 /\ l2ReqFifo'[1] = f /\ l2ReqFifo'[2] = s
      BY <1>6, <3>1, <3>2
    <3>4. Good(f, Wanted(f), Head(l2.hitQ))
      BY <1>1, <2>5, <3>2 DEF SourcesMatch
    <3>5. Wanted(f) \in Lines /\ Wanted(f)' = Wanted(f)
      BY <1>4, <3>2, AskerWaits
    <3>6. Below(Wanted(f))' = Below(Wanted(f))
      <4>1. PICK x \in Lines : x = Wanted(f)
        BY <3>5
      <4>2. Below(Wanted(f))' = Below(x)'
        BY <3>5, <4>1 DEF Below, WriteWaits, Hits2, Entry2
      <4> QED
        BY <1>5, <4>1, <4>2
    <3>7. Good(f, Wanted(f), Head(l2.hitQ))'
      BY <1>5, <3>4, <3>5, <3>6 DEF Good
    <3>8. Good(l2ReqFifo[1], Wanted(l2ReqFifo[1]), Head(l2.hitQ))'
      <4>1. Good(l2ReqFifo[1], Wanted(l2ReqFifo[1]), Head(l2.hitQ))' <=> Good(f, Wanted(f), Head(l2.hitQ))'
        BY <3>3 DEF Good, Intact, Below, WriteWaits, Hits2, Entry2, Wanted, Curr
      <4> QED
        BY <3>7, <4>1
    <3>9. l2ReqFifo'[1] # l2ReqFifo'[2]
      BY <3>2, <3>3
    <3> QED
      BY <1>5, <2>2, <2>3, <3>8, <3>9 DEF SourcesMatch
  <2> QED
    BY <2>4, <2>5
<1>13. TypeOK'
  BY <1>1, <1>4, <1>5, <1>6 DEF TypeOK, Cache1, Cache2
<1> QED
  BY <1>4, <1>5, <1>8, <1>9, <1>11, <1>12, <1>13 DEF CachesInv

\* l2 takes an old line of the data side: it becomes what is below.
LEMMA TakeWrite ==
  ASSUME CachesInv, l1["D"].lineReqQ # <<>>, Head(l1["D"].lineReqQ).write,
         l2.currReqQ = <<>>, UNCHANGED <<mem, dl, l2ReqFifo>>, l2' = Taken(Head(l1["D"].lineReqQ)),
         l1' = [l1 EXCEPT !["D"] = [l1["D"] EXCEPT !.lineReqQ = Tail(@)]]
  PROVE  /\ CachesInv'
         /\ \A line \in Lines : ~Hits1("D", line) => Below(line)' = Below(line)
<1> "D" \in Sides /\ "I" \in Sides /\ \A t \in Sides \ {"D"} : t = "I"
  BY DEF Sides
<1>1. /\ TypeOK /\ Queues2OK /\ SourcesMatch /\ l2ReqFifo \in Seq(Sides)
      /\ Store1OK("D")
  BY DEF CachesInv, TypeOK
<1>2. /\ l1["D"].currReqQ # <<>> /\ Missed("D") /\ Wanted("D") \in Lines
      /\ l1["D"].lineRespQ = <<>> /\ ~Asks("D")
      /\ Curr("D").tagged.dirty /\ Head(l1["D"].lineReqQ) = Evicted(Curr("D"))
      /\ \/ l1["D"].state = "SendReq" /\ Tail(l1["D"].lineReqQ) = <<>>
         \/ l1["D"].state = "WaitDramResp" /\ Tail(l1["D"].lineReqQ) = <<ReadOf(Wanted("D"))>>
  <2>1. ~ReadOf(Wanted("D")).write
    BY DEF ReadOf
  <2> QED
    BY <2>1, NextRequest
<1>3. PICK m \in LineRequests : m = Evicted(Curr("D"))
  BY <1>2, EvictedType
<1>4. /\ m.write /\ m.line \in Lines /\ Hits1("D", m.line) /\ Entry1("D", m.line).dirty
      /\ Intact(m.line, m.data)
  <2>1. m.write /\ m.line \in Lines /\ Hits1("D", m.line) /\ Entry1("D", m.line) = Curr("D").tagged
    BY <1>2, <1>3, EvictedType DEF LineRequests
  <2>2. m.data = Curr("D").tagged.data
    BY <1>3 DEF Evicted, WriteOf
  <2> QED
    BY <1>1, <1>2, <2>1, <2>2 DEF Store1OK
<1>5. /\ l1' \in [Sides -> Cache1] /\ l1'["I"] = l1["I"]
      /\ l1'["D"].store = l1["D"].store /\ l1'["D"].state = l1["D"].state
      /\ l1'["D"].currReqQ = l1["D"].currReqQ
      /\ l1'["D"].lineReqQ = Tail(l1["D"].lineReqQ) /\ l1'["D"].lineRespQ = <<>>
      /\ \A t \in Sides : Curr(t)' = Curr(t) /\ Wanted(t)' = Wanted(t) /\ Evicted(Curr(t))' = Evicted(Curr(t))
      /\ Missed("D")' /\ Queues1OK("D")'
  BY <1>2, Sent
<1>6. /\ l2' \in Cache2 /\ l2'.hitQ = l2.hitQ
      /\ Queues2OK' /\ Store2OK' /\ Stage2' /\ Lookup2'
      /\ ~ReadWaits'
      /\ \A x \in Lines : Below(x)' = IF x = m.line THEN m.data ELSE Below(x)
  <2>1. CASE Hits2(m.line)
    BY <1>2, <1>3, <1>4, <2>1, Overwritten
  <2>2. CASE ~Hits2(m.line)
    BY <1>2, <1>3, <1>4, <2>2, LookedUp
  <2> QED
    BY <2>1, <2>2
<1>7. \A t \in Sides : Asks(t)' <=> Asks(t)
  BY DEF Asks
<1>8. Queues1OK("I")' /\ Store1OK("I")' /\ Stage1("I")'
  BY <1>5, <1>7, InstrSideKept
<1>9. Store1OK("D")'
  <2>1. \A line : Entry1("D", line)' = Entry1("D", line) /\ (Hits1("D", line)' <=> Hits1("D", line))
    BY <1>5, SameStore1
  <2> QED
    BY <1>1, <1>4, <1>5, <1>6, <2>1 DEF Store1OK
<1>10. Saved("D")'
  <2>1. Below(Evicted(Curr("D")).line)' = Below(m.line)'
    BY <1>3, <1>5 DEF Below, WriteWaits, Hits2, Entry2
  <2>2. Below(m.line)' = m.data
    BY <1>4, <1>6
  <2> QED
    BY <1>3, <1>5, <2>1, <2>2 DEF Saved
<1>11. Stage1("D")'
  BY <1>2, <1>5, <1>7, <1>10 DEF Stage1
<1>12. SourcesMatch'
  <2>1. ~ReadWaits
    BY DEF ReadWaits
  <2>2. Len(l2ReqFifo) = Len(l2.hitQ) + 0
    BY <1>1, <2>1, Zenon DEF SourcesMatch
  <2>3. Len(l2ReqFifo') = Len(l2'.hitQ) + (IF ReadWaits' THEN 1 ELSE 0)
    BY <1>6, <2>2
  <2>4. l2.hitQ # <<>> => Good(l2ReqFifo[1], Wanted(l2ReqFifo[1]), Head(l2.hitQ))'
    <3> SUFFICES ASSUME l2.hitQ # <<>>
                 PROVE  Good(l2ReqFifo[1], Wanted(l2ReqFifo[1]), Head(l2.hitQ))'
      OBVIOUS
    <3>1. l2ReqFifo[1] = "I"
      BY <1>2, SourcesAre
    <3>2. Good("I", Wanted("I"), Head(l2.hitQ))
      BY <1>1, <3>1 DEF SourcesMatch
    <3>3. Good("I", Wanted("I"), Head(l2.hitQ))'
      BY <1>5, <1>6, <3>2 DEF Good
    <3> QED
      BY <3>1, <3>3
  <2>5. Len(l2ReqFifo) # 2
    <3>1. CASE l2.hitQ = <<>>
      BY <1>1, <2>1, <3>1, SourcesLength
    <3>2. CASE l2.hitQ # <<>>
      BY <1>1, <2>1, <3>2, SourcesLength
    <3> QED
      BY <3>1, <3>2
  <2> QED
    BY <1>6, <2>3, <2>4, <2>5 DEF SourcesMatch
<1>13. TypeOK'
  BY <1>1, <1>5, <1>6 DEF TypeOK, Cache1, Cache2
<1>14. \A s \in Sides : Queues1OK(s)' /\ Store1OK(s)' /\ Stage1(s)'
  BY <1>5, <1>8, <1>9, <1>11 DEF Sides
<1> QED
  BY <1>4, <1>6, <1>12, <1>13, <1>14 DEF CachesInv

LEMMA ConnectCacheL1IL2 ==
  ASSUME CachesInv, connectCacheL1IL2
  PROVE  CachesInv' /\ \A line \in Lines : Below(line)' = Below(line)
<1> "I" \in Sides
  BY DEF Sides
<1>1. /\ l1["I"].lineReqQ # <<>> /\ l2.currReqQ = <<>> /\ UNCHANGED <<mem, dl>>
      /\ l2ReqFifo' = Append(l2ReqFifo, "I") /\ l2' = Taken(Head(l1["I"].lineReqQ))
      /\ l1' = [l1 EXCEPT !["I"] = [l1["I"] EXCEPT !.lineReqQ = Tail(@)]]
  BY DEF connectCacheL1IL2
<1>2. ~Head(l1["I"].lineReqQ).write
  <2>1. Head(l1["I"].lineReqQ) = ReadOf(Wanted("I"))
    <3>1. l1["I"].currReqQ # <<>> /\ Missed("I") /\ ~Curr("I").tagged.dirty
      BY <1>1, EvictedType, NextRequest
    <3> QED
      BY <1>1, <3>1, NextRequest
  <2> QED
    BY <2>1 DEF ReadOf
<1> QED
  BY <1>1, <1>2, TakeRead

LEMMA ConnectCacheL1DL2 ==
  ASSUME CachesInv, connectCacheL1DL2
  PROVE  CachesInv' /\ \A line \in Lines : ~Hits1("D", line) => Below(line)' = Below(line)
<1> "D" \in Sides
  BY DEF Sides
<1>1. /\ l1["D"].lineReqQ # <<>> /\ l2.currReqQ = <<>> /\ UNCHANGED <<mem, dl>>
      /\ l2ReqFifo' = l2ReqFifo \o Sources(Head(l1["D"].lineReqQ))
      /\ l2' = Taken(Head(l1["D"].lineReqQ))
      /\ l1' = [l1 EXCEPT !["D"] = [l1["D"] EXCEPT !.lineReqQ = Tail(@)]]
      /\ l2ReqFifo \in Seq(Sides)
  BY DEF connectCacheL1DL2, CachesInv, TypeOK
<1>2. CASE Head(l1["D"].lineReqQ).write
  <2>1. l2ReqFifo' = l2ReqFifo
    BY <1>1, <1>2, ConcatEmptySeq DEF Sources
  <2> QED
    BY <1>1, <1>2, <2>1, TakeWrite
<1>3. CASE ~Head(l1["D"].lineReqQ).write
  <2>1. l2ReqFifo' = Append(l2ReqFifo, "D")
    BY <1>1, <1>3, AppendIsConcat DEF Sources
  <2> QED
    BY <1>1, <1>3, <2>1, TakeRead
<1> QED
  BY <1>2, <1>3

-----------------------------------------------------------------------------
\* The invariant.

LEMMA InitCachesInv == Init => CachesInv
<1> SUFFICES ASSUME Init PROVE CachesInv
  OBVIOUS
<1>1. \A S : <<>> \in Seq(S)
  OBVIOUS
<1>2. Len(<<>>) = 0
  OBVIOUS
<1>3. NoLine \in Entries /\ ~NoLine.valid /\ ~NoLine.dirty
  BY DEF NoLine, Entries
<1>4. ASSUME NEW sets \in Nat \ {0}, NEW Reqs, NEW Answers
      PROVE  EmptyCache(sets) \in CacheType(sets, Reqs, Answers)
  BY <1>1, <1>3 DEF EmptyCache, CacheType
<1>5. TypeOK
  <2>1. \A s \in Sides : l1[s] \in Cache1
    BY <1>4, CachesAssumption DEF Init, Cache1
  <2>2. l2 \in Cache2
    BY <1>4, CachesAssumption DEF Init, Cache2
  <2> QED
    BY <1>1, <2>1, <2>2, CachesAssumption DEF Init, TypeOK, Cache1, Cache2
<1>6. ASSUME NEW s \in Sides
      PROVE  Queues1OK(s) /\ Store1OK(s) /\ Stage1(s)
  <2>1. /\ l1[s].state = "WaitCAUResp" /\ l1[s].currReqQ = <<>> /\ l1[s].hitQ = <<>>
        /\ l1[s].lineReqQ = <<>> /\ l1[s].lineRespQ = <<>>
        /\ \A i \in 0 .. L1Sets - 1 : l1[s].store[i] = NoLine
    BY DEF Init, EmptyCache
  <2>2. \A line \in Lines : ~Hits1(s, line)
    BY <1>3, <2>1, Place1 DEF Hits1, Entry1
  <2>3. ~Asks(s)
    BY <1>2 DEF Asks, Init
  <2> QED
    BY <1>2, <1>3, <2>1, <2>2, <2>3 DEF Queues1OK, Store1OK, Stage1
<1>7. /\ l2.state = "WaitCAUResp" /\ l2.currReqQ = <<>> /\ l2.hitQ = <<>>
      /\ l2.lineReqQ = <<>> /\ l2.lineRespQ = <<>> /\ l2ReqFifo = <<>> /\ dl = <<>>
      /\ \A i \in 0 .. L2Sets - 1 : l2.store[i] = NoLine
  BY DEF Init, EmptyCache
<1>8. Store2OK
  <2>1. \A line \in Lines : ~Hits2(line)
    BY <1>3, <1>7, Place2 DEF Hits2, Entry2
  <2>2. \A line \in Lines : Intact(line, mem[line])
    BY CachesAssumption DEF Intact, Init
  <2> QED
    BY <1>3, <1>7, <2>1, <2>2 DEF Store2OK
<1>9. ~ReadWaits
  BY <1>7 DEF ReadWaits
<1>10. Queues2OK /\ Stage2 /\ Lookup2 /\ SourcesMatch
  BY <1>2, <1>7, <1>9 DEF Queues2OK, Stage2, Lookup2, SourcesMatch
<1> QED
  BY <1>5, <1>6, <1>8, <1>10 DEF CachesInv

LEMMA NextCachesInv == CachesInv /\ [Next]_vars => CachesInv'
<1> SUFFICES ASSUME CachesInv, [Next]_vars PROVE CachesInv'
  OBVIOUS
<1> "I" \in Sides /\ "D" \in Sides
  BY DEF Sides
<1>1. CASE sendReqData
  BY <1>1, PutFromProc DEF sendReqData
<1>2. CASE sendReqInstr
  BY <1>2, PutFromProc DEF sendReqInstr
<1>3. CASE \E s \in Sides : handleCAUResponse(s)
  BY <1>3, HandleCAUResponse
<1>4. CASE \E s \in Sides : handleWriteback(s)
  BY <1>4, HandleWriteback
<1>5. CASE \E s \in Sides : handleDramResponse(s)
  BY <1>5, HandleDramResponse
<1>6. CASE \E s \in Sides : getToProc(s)
  BY <1>6, GetToProc
<1>7. CASE handleCAUResponse2
  BY <1>7, HandleCAUResponse2
<1>8. CASE handleWriteback2
  BY <1>8, HandleWriteback2
<1>9. CASE handleDramResponse2
  BY <1>9, HandleDramResponse2
<1>10. CASE connectCacheL1IL2
  BY <1>10, ConnectCacheL1IL2
<1>11. CASE connectCacheL1DL2
  BY <1>11, ConnectCacheL1DL2
<1>12. CASE connectL2L1DICache
  BY <1>12, ConnectL2L1DICache
<1>13. CASE connectCacheDram
  BY <1>13, ConnectCacheDram
<1>14. CASE connectDramCache
  BY <1>14, ConnectDramCache
<1>15. CASE UNCHANGED vars
  <2>1. UNCHANGED <<l1, l2, l2ReqFifo, mem, dl>>
    BY <1>15 DEF vars
  <2>2. \A line \in Lines : Below(line)' = Below(line)
    BY <2>1, BelowKept
  <2>3. TypeOK' /\ Queues2OK'
    BY <2>1 DEF CachesInv, TypeOK, Queues2OK
  <2>4. Store2OK' /\ Lookup2' /\ Curr2' = Curr2 /\ Evicted2' = Evicted2
        /\ (Saved2' <=> Saved2) /\ (ReadWaits' <=> ReadWaits)
    BY <2>1, LookupKept
  <2>5. Stage2'
    BY <2>1, <2>4 DEF CachesInv, Stage2
  <2>6. SourcesMatch'
    BY <2>1, <2>2, <2>4, SourcesKept
  <2> QED
    BY <2>1, <2>2, <2>3, <2>4, <2>5, <2>6, LowerStep
<1> QED
  BY <1>1, <1>2, <1>3, <1>4, <1>5, <1>6, <1>7, <1>8, <1>9, <1>10, <1>11, <1>12, <1>13, <1>14, <1>15
  DEF Next, Rules

\* In every state a request in a cache is in one of its stages, an answer
\* belongs to who waits for it, and a copy that is not dirty is what is below
\* it (Cache32.bsv, Cache512.bsv, CacheInterface.bsv).
THEOREM CachesInvariant == Spec => []CachesInv
  BY InitCachesInv, NextCachesInv, PTL DEF Spec

-----------------------------------------------------------------------------
\* What the core sees: the steps that no side can tell from none.

Moves == \/ \E s \in Sides : handleWriteback(s) \/ (handleCAUResponse(s) /\ ~Curr(s).hit)
         \/ handleCAUResponse2 \/ handleWriteback2 \/ handleDramResponse2
         \/ connectCacheL1IL2 \/ connectCacheL1DL2 \/ connectL2L1DICache
         \/ connectCacheDram \/ connectDramCache

LEMMA MovesOfL1 ==
  ASSUME CachesInv, Moves, NEW s \in Sides
  PROVE  l1'[s].store = l1[s].store /\ l1'[s].currReqQ = l1[s].currReqQ /\ l1'[s].hitQ = l1[s].hitQ
<1>1. l1 \in [Sides -> Cache1] /\ "I" \in Sides /\ "D" \in Sides
  BY DEF CachesInv, TypeOK, Cache1, Sides
<1>2. ASSUME NEW t \in Sides, NEW lineReqQ, NEW lineRespQ, NEW state,
             l1' = [l1 EXCEPT ![t] = [l1[t] EXCEPT !.lineReqQ = lineReqQ, !.lineRespQ = lineRespQ, !.state = state]]
      PROVE  l1'[s].store = l1[s].store /\ l1'[s].currReqQ = l1[s].currReqQ /\ l1'[s].hitQ = l1[s].hitQ
  <2> DEFINE c == [l1[t] EXCEPT !.lineReqQ = lineReqQ, !.lineRespQ = lineRespQ, !.state = state]
  <2>1. c.store = l1[t].store /\ c.currReqQ = l1[t].currReqQ /\ c.hitQ = l1[t].hitQ
    BY <1>1 DEF Cache1, CacheType
  <2>2. l1' = [l1 EXCEPT ![t] = c]
    BY <1>2
  <2> HIDE DEF c
  <2> QED
    BY <1>1, <2>1, <2>2
<1>3. ASSUME NEW t \in Sides, handleWriteback(t)
      PROVE  l1'[s].store = l1[s].store /\ l1'[s].currReqQ = l1[s].currReqQ /\ l1'[s].hitQ = l1[s].hitQ
  <2> DEFINE c == [l1[t] EXCEPT !.lineReqQ = Append(@, ReadOf(Wanted(t))), !.state = "WaitDramResp"]
  <2>1. c.store = l1[t].store /\ c.currReqQ = l1[t].currReqQ /\ c.hitQ = l1[t].hitQ
    BY <1>1 DEF Cache1, CacheType
  <2>2. l1' = [l1 EXCEPT ![t] = c]
    BY <1>3 DEF handleWriteback
  <2> HIDE DEF c
  <2> QED
    BY <1>1, <2>1, <2>2
<1>4. ASSUME NEW t \in Sides, handleCAUResponse(t), ~Curr(t).hit
      PROVE  l1'[s].store = l1[s].store /\ l1'[s].currReqQ = l1[s].currReqQ /\ l1'[s].hitQ = l1[s].hitQ
  <2> DEFINE c == [l1[t] EXCEPT !.lineReqQ = Append(@, IF Curr(t).tagged.dirty THEN Evicted(Curr(t))
                                                       ELSE ReadOf(Curr(t).req.line)),
                                !.state = IF Curr(t).tagged.dirty THEN "SendReq" ELSE "WaitDramResp"]
  <2>1. c.store = l1[t].store /\ c.currReqQ = l1[t].currReqQ /\ c.hitQ = l1[t].hitQ
    BY <1>1 DEF Cache1, CacheType
  <2>2. l1' = [l1 EXCEPT ![t] = c]
    BY <1>4 DEF handleCAUResponse
  <2> HIDE DEF c
  <2> QED
    BY <1>1, <2>1, <2>2
<1>5. ASSUME NEW t \in Sides, l1[t].lineReqQ # <<>>,
             l1' = [l1 EXCEPT ![t] = [l1[t] EXCEPT !.lineReqQ = Tail(@)]]
      PROVE  l1'[s].store = l1[s].store /\ l1'[s].currReqQ = l1[s].currReqQ /\ l1'[s].hitQ = l1[s].hitQ
  <2>1. CASE s = t
    BY <1>5, <2>1, Sent
  <2>2. CASE s # t
    BY <1>1, <1>5, <2>2
  <2> QED
    BY <2>1, <2>2
<1>6. CASE connectCacheL1IL2 \/ connectCacheL1DL2
  BY <1>1, <1>5, <1>6 DEF connectCacheL1IL2, connectCacheL1DL2
<1>7. CASE connectL2L1DICache
  <2>1. PICK t \in Sides : t = Head(l2ReqFifo)
    BY <1>7 DEF connectL2L1DICache, CachesInv, TypeOK
  <2> DEFINE c == [l1[t] EXCEPT !.lineRespQ = Append(@, Head(l2.hitQ))]
  <2>2. c.store = l1[t].store /\ c.currReqQ = l1[t].currReqQ /\ c.hitQ = l1[t].hitQ
    BY <1>1 DEF Cache1, CacheType
  <2>3. l1' = [l1 EXCEPT ![t] = c]
    BY <1>7, <2>1 DEF connectL2L1DICache
  <2> HIDE DEF c
  <2> QED
    BY <1>1, <2>2, <2>3
<1>8. CASE \/ handleCAUResponse2 \/ handleWriteback2 \/ handleDramResponse2
           \/ connectCacheDram \/ connectDramCache
  <2>1. l1' = l1
    BY <1>8 DEF handleCAUResponse2, handleWriteback2, handleDramResponse2, connectCacheDram, connectDramCache
  <2> QED
    BY <2>1
<1> QED
  BY <1>3, <1>4, <1>6, <1>7, <1>8 DEF Moves

LEMMA MovesOfLines ==
  ASSUME CachesInv, Moves, NEW line \in Lines, ~Hits1("D", line)
  PROVE  Below(line)' = Below(line)
<1>1. CASE \E s \in Sides : handleWriteback(s) \/ (handleCAUResponse(s) /\ ~Curr(s).hit)
  BY <1>1, BelowKept DEF handleWriteback, handleCAUResponse
<1>2. CASE handleWriteback2
  <2>1. l2'.store = l2.store /\ l2'.currReqQ = l2.currReqQ /\ mem' = mem
    BY <1>2, Types2 DEF handleWriteback2, CachesInv, Cache2, CacheType
  <2> QED
    BY <2>1, LookupKept
<1>3. CASE connectDramCache
  <2>1. l2'.store = l2.store /\ l2'.currReqQ = l2.currReqQ /\ mem' = mem
    BY <1>3, Types2 DEF connectDramCache, CachesInv, Cache2, CacheType
  <2> QED
    BY <2>1, LookupKept
<1>4. CASE handleCAUResponse2
  <2>1. TypeOK /\ mem' = mem /\ l2.currReqQ # <<>>
    BY <1>4 DEF CachesInv, handleCAUResponse2
  <2>2. CASE ~Curr2.hit
    <3>1. l2'.store = l2.store /\ l2'.currReqQ = l2.currReqQ
      BY <1>4, <2>1, <2>2, Types2 DEF handleCAUResponse2, Cache2, CacheType
    <3> QED
      BY <2>1, <3>1, LookupKept
  <2>3. CASE Curr2.hit /\ ~Curr2.req.write
    <3>1. l2'.store = l2.store /\ l2'.currReqQ = <<>>
      BY <1>4, <2>1, <2>3, Types2 DEF handleCAUResponse2, Cache2, CacheType
    <3>2. ~WriteWaits(line) /\ ~WriteWaits(line)'
      BY <2>3, <3>1 DEF WriteWaits, Curr2
    <3> QED
      BY <2>1, <3>1, <3>2, SameStore2 DEF Below
  <2> QED
    BY <1>4, <2>2, <2>3 DEF handleCAUResponse2
<1> QED
  BY <1>1, <1>2, <1>3, <1>4, HandleDramResponse2, ConnectCacheL1IL2, ConnectCacheL1DL2,
     ConnectL2L1DICache, ConnectCacheDram DEF Moves

\* The steps of the core, and the three by which a request comes to its answer.
LEMMA Steps ==
  ASSUME Next
  PROVE  \/ \E s \in Sides, r \in Requests : r \in RequestsOf(s) /\ putFromProc(s, r)
         \/ \E s \in Sides : handleCAUResponse(s) /\ Curr(s).hit
         \/ \E s \in Sides : handleDramResponse(s)
         \/ \E s \in Sides : getToProc(s)
         \/ Moves
<1>1. "D" \in Sides /\ "I" \in Sides
  BY DEF Sides
<1>2. CASE sendReqData \/ sendReqInstr
  BY <1>1, <1>2, RequestsAre DEF sendReqData, sendReqInstr
<1>3. CASE Rules
  BY <1>3 DEF Rules, Moves
<1>4. CASE \E s \in Sides : getToProc(s)
  BY <1>4
<1> QED
  BY <1>2, <1>3, <1>4 DEF Next

\* A side at work leaves the other alone.
LEMMA OtherSide ==
  ASSUME CachesInv, NEW s \in Sides, NEW t \in Sides, s # t,
         \/ \E r \in Requests : putFromProc(t, r)
         \/ handleCAUResponse(t) \/ handleDramResponse(t) \/ getToProc(t)
  PROVE  l1'[s] = l1[s] /\ UNCHANGED <<l2, mem>>
  BY DEF CachesInv, TypeOK, putFromProc, handleCAUResponse, handleDramResponse, getToProc

-----------------------------------------------------------------------------
\* The instruction side.

LEMMA InstrAnswer ==
  ASSUME CachesInv, [Next]_vars, l1["I"].hitQ = <<>>, l1'["I"].hitQ # <<>>,
         NeverStored(Curr("I").req.line, Curr("I").req.offset)
  PROVE  l1'["I"].hitQ = <<Contents[Curr("I").req.line][Curr("I").req.offset]>>
<1>1. "I" \in Sides /\ l1 \in [Sides -> Cache1] /\ TypeOK /\ Queues1OK("I") /\ Stage1("I")
  BY DEF CachesInv, TypeOK, Cache1, Sides
<1>2. ASSUME l1["I"].currReqQ # <<>>, NEW line, Intact(Wanted("I"), line)
      PROVE  Reply(Curr("I").req, line) = Contents[Curr("I").req.line][Curr("I").req.offset]
  <2>1. Curr("I").req \in Requests /\ Curr("I").req.bytes = {}
    BY <1>1, <1>2, CurrType, RequestsAre
  <2> QED
    BY <1>2, <2>1 DEF Reply, Intact, Wanted, Requests
<1>3. CASE handleCAUResponse("I") /\ Curr("I").hit
  <2>1. /\ l1["I"].currReqQ # <<>> /\ l1["I"].state = "WaitCAUResp"
        /\ l1'["I"].hitQ = <<Reply(Curr("I").req, Curr("I").tagged.data)>>
    BY <1>1, <1>3 DEF handleCAUResponse, Cache1, CacheType
  <2>2. Found("I")
    BY <1>1, <1>3, <2>1 DEF Stage1, Missed
  <2> QED
    BY <1>2, <2>1, <2>2 DEF Found
<1>4. CASE handleDramResponse("I")
  <2>1. /\ l1["I"].state = "WaitDramResp" /\ l1["I"].lineRespQ # <<>>
        /\ l1'["I"].hitQ = <<Reply(Curr("I").req, Head(l1["I"].lineRespQ))>>
    BY <1>1, <1>4 DEF handleDramResponse, Cache1, CacheType
  <2>2. l1["I"].currReqQ # <<>> /\ Good("I", Wanted("I"), Head(l1["I"].lineRespQ))
    BY <1>1, <2>1 DEF Stage1
  <2> QED
    BY <1>2, <2>1, <2>2 DEF Good
<1>5. CASE \E r \in Requests : putFromProc("I", r)
  BY <1>1, <1>5 DEF putFromProc, Cache1, CacheType
<1>6. CASE getToProc("I")
  BY <1>6 DEF getToProc
<1>7. CASE Moves
  BY <1>1, <1>7, MovesOfL1
<1>8. CASE \E t \in Sides : /\ t # "I"
                            /\ \/ \E r \in Requests : putFromProc(t, r)
                               \/ handleCAUResponse(t) \/ handleDramResponse(t) \/ getToProc(t)
  BY <1>1, <1>8, OtherSide
<1>9. CASE UNCHANGED vars
  BY <1>9 DEF vars
<1> QED
  BY <1>3, <1>4, <1>5, <1>6, <1>7, <1>8, <1>9, Steps

\* Whatever the data side stores, and in whatever state its lines are, an
\* instruction that nobody stores to is fetched as it was loaded (Cache32.bsv
\* read as an instruction cache, which is not told of stores).
THEOREM InstructionsSafe == Spec => InstructionsUnharmed
<1>1. CachesInv /\ [Next]_vars =>
        [l1["I"].hitQ = <<>> /\ l1'["I"].hitQ # <<>> =>
           LET r == Curr("I").req
           IN  NeverStored(r.line, r.offset) => l1'["I"].hitQ = <<Contents[r.line][r.offset]>>]_vars
  BY InstrAnswer
<1> QED
  BY <1>1, CachesInvariant, PTL DEF Spec, InstructionsUnharmed

-----------------------------------------------------------------------------
\* The data side: what the flat memory is for a state of the caches.

FlatMem     == [line \in Lines |-> Freshest(line)]
FlatWaiting == IF CurrD # <<>> /\ ~Head(CurrD).hit THEN <<Head(CurrD).req>> ELSE <<>>
Due         == IF CurrD = <<>> \/ ~Head(CurrD).hit THEN <<>>
               ELSE <<Reply(Head(CurrD).req, Head(CurrD).tagged.data)>>
FlatAnswers == l1["D"].hitQ \o Due

LEMMA AnswersType ==
  ASSUME CachesInv
  PROVE  /\ l1["D"].hitQ \in Seq(Word \cup {Ack})
         /\ l1["D"].hitQ # <<>> => l1["D"].hitQ = <<Head(l1["D"].hitQ)>>
         /\ Due = <<>> \/ Due = <<Reply(Curr("D").req, Curr("D").tagged.data)>>
         /\ CurrD # <<>> => Curr("D").hit \in BOOLEAN
<1>1. "D" \in Sides
  BY DEF Sides
<1> QED
  BY <1>1, AtMostOne, CurrType, Types1 DEF CachesInv, Queues1OK, Due, CurrD, Curr

LEMMA SameFresh ==
  ASSUME l1'["D"].store = l1["D"].store,
         \A line \in Lines : ~Hits1("D", line) => Below(line)' = Below(line)
  PROVE  FlatMem' = FlatMem
<1>1. \A line : Entry1("D", line)' = Entry1("D", line) /\ (Hits1("D", line)' <=> Hits1("D", line))
  BY SameStore1 DEF Sides
<1> QED
  BY <1>1 DEF FlatMem, Freshest

\* What stands for its variables.
FlatVars == <<FlatMem, FlatWaiting, FlatAnswers>>

\* A request that hits is served when it is taken.
LEMMA FlatHit ==
  ASSUME CachesInv, NEW r \in RequestsOf("D"), putFromProc("D", r), Hits1("D", r.line)
  PROVE  Flat!AcceptAndServe(r)
<1> "D" \in Sides
  BY DEF Sides
<1> DEFINE entry == Entry1("D", r.line)
           asked == [req |-> r, hit |-> Hits1("D", r.line), tagged |-> entry]
           new   == IF r.bytes # {} THEN [entry EXCEPT !.dirty = TRUE, !.data = Stored(@, r)] ELSE entry
           i     == Index1(r.line)
           c     == [l1["D"] EXCEPT !.currReqQ = <<asked>>, !.store[i] = new]
<1>1. /\ TypeOK /\ Store1OK("D") /\ CurrD = <<>> /\ UNCHANGED <<l2, mem>>
      /\ l1' = [l1 EXCEPT !["D"] = c]
  BY DEF CachesInv, putFromProc, CurrD
<1>2. r \in Requests /\ r.line \in Lines /\ r.offset \in Offsets
  BY RequestsAre DEF Requests
<1>3. entry \in Entries /\ entry.data \in Data /\ i \in 0 .. L1Sets - 1 /\ entry = l1["D"].store[i]
  BY <1>1, <1>2, Entries1, Place1 DEF Store1OK, Intact, Entry1
<1>4. /\ new.valid = entry.valid /\ new.tag = entry.tag
      /\ new.data = IF r.bytes # {} THEN Stored(entry.data, r) ELSE entry.data
  BY <1>3 DEF Entries
<1>5. asked.req = r /\ asked.hit /\ asked.tagged = entry
  OBVIOUS
<1> HIDE DEF asked, new, i, entry
<1>6. c.store = [l1["D"].store EXCEPT ![i] = new] /\ c.currReqQ = <<asked>> /\ c.hitQ = l1["D"].hitQ
  BY <1>1, Types1 DEF Cache1, CacheType
<1> HIDE DEF c
<1>7. /\ l1'["D"].store = [l1["D"].store EXCEPT ![i] = new]
      /\ CurrD' = <<asked>> /\ Head(CurrD') = asked /\ CurrD' # <<>> /\ l1'["D"].hitQ = l1["D"].hitQ
  BY <1>1, <1>6, OfOne DEF TypeOK, CurrD
\* The memory.
<1>8. ASSUME NEW x \in Lines
      PROVE  Freshest(x)' = IF x = r.line THEN new.data ELSE Freshest(x)
  <2>1. Entry1("D", x)' = IF Index1(x) = i THEN new ELSE Entry1("D", x)
    BY <1>1, <1>3, <1>7, Place1, Types1 DEF Entry1
  <2>2. Index1(x) = i => Entry1("D", x) = entry
    BY <1>3 DEF Entry1
  <2>3. Hits1("D", x)' <=> Hits1("D", x)
    BY <1>4, <2>1, <2>2 DEF Hits1
  <2>4. Index1(x) = i /\ Hits1("D", x) => x = r.line
    BY <1>2, Place1 DEF Hits1, Entry1, i
  <2>5. Index1(r.line) = i
    BY DEF i
  <2>6. Below(x)' = Below(x)
    BY <1>1, BelowKept
  <2> QED
    BY <2>1, <2>2, <2>3, <2>4, <2>5, <2>6 DEF Freshest
<1>9. Freshest(r.line) = entry.data
  BY DEF Freshest, entry
<1>10. new.data = [entry.data EXCEPT ![r.offset] = Flat!Merged(@, r)]
  <2>1. CASE r.bytes # {}
    BY <1>4, <2>1 DEF Stored, Flat!Merged
  <2>2. CASE r.bytes = {}
    BY <1>2, <1>3, <1>4, <2>2 DEF Flat!Merged, Data, Word
  <2> QED
    BY <2>1, <2>2
<1>11. FlatMem' = [FlatMem EXCEPT ![r.line][r.offset] = Flat!Merged(@, r)]
  <2>1. FlatMem[r.line] = entry.data
    BY <1>2, <1>9 DEF FlatMem
  <2>2. FlatMem' = [line \in Lines |-> IF line = r.line THEN new.data ELSE FlatMem[line]]
    BY <1>8 DEF FlatMem
  <2>3. [FlatMem EXCEPT ![r.line] = new.data] = [line \in Lines |-> IF line = r.line THEN new.data ELSE FlatMem[line]]
    BY DEF FlatMem
  <2> QED
    BY <1>10, <2>1, <2>2, <2>3
\* The answer.
<1>12. Due = <<>> /\ Due' = <<Reply(r, entry.data)>>
  BY <1>1, <1>5, <1>7, SMTT(30) DEF Due, Reply, CurrD
<1>13. Reply(r, entry.data) = Flat!AnswerTo(r)
  BY <1>2, <1>9 DEF Reply, Flat!AnswerTo
<1>14. FlatAnswers' = Append(FlatAnswers, Flat!AnswerTo(r))
  <2>1. FlatAnswers = l1["D"].hitQ /\ FlatAnswers \in Seq(Word \cup {Ack})
    BY <1>12, AnswersType, ConcatEmptySeq DEF FlatAnswers
  <2>2. FlatAnswers' = l1["D"].hitQ \o <<Reply(r, entry.data)>>
    BY <1>7, <1>12 DEF FlatAnswers
  <2>3. Reply(r, entry.data) \in Word \cup {Ack}
    BY <1>2, <1>3 DEF Reply, Data
  <2> QED
    BY <1>13, <2>1, <2>2, <2>3, AppendIsConcat
<1>15. FlatWaiting = <<>> /\ FlatWaiting' = <<>>
  BY <1>1, <1>5, <1>7 DEF FlatWaiting
<1> QED
  BY <1>11, <1>14, <1>15 DEF Flat!AcceptAndServe, Flat!Serve, FlatMem, FlatWaiting, FlatAnswers, Due

\* One that misses waits.
LEMMA FlatMiss ==
  ASSUME CachesInv, NEW r \in RequestsOf("D"), putFromProc("D", r), ~Hits1("D", r.line)
  PROVE  Flat!Accept(r)
<1> "D" \in Sides
  BY DEF Sides
<1> DEFINE entry == Entry1("D", r.line)
           asked == [req |-> r, hit |-> Hits1("D", r.line), tagged |-> entry]
           i     == Index1(r.line)
           c     == [l1["D"] EXCEPT !.currReqQ = <<asked>>, !.store[i] = entry]
<1>1. /\ TypeOK /\ CurrD = <<>> /\ UNCHANGED <<l2, mem>>
      /\ l1' = [l1 EXCEPT !["D"] = c]
  BY DEF CachesInv, putFromProc, CurrD
<1>2. r.line \in Lines
  BY RequestsAre DEF Requests
<1>3. i \in 0 .. L1Sets - 1 /\ entry = l1["D"].store[i]
  BY <1>2, Place1 DEF Entry1
<1>4. asked.req = r /\ ~asked.hit
  OBVIOUS
<1> HIDE DEF asked, i, entry
<1>5. c.store = [l1["D"].store EXCEPT ![i] = entry] /\ c.currReqQ = <<asked>> /\ c.hitQ = l1["D"].hitQ
  BY <1>1, Types1 DEF Cache1, CacheType
<1>6. [l1["D"].store EXCEPT ![i] = entry] = l1["D"].store
  BY <1>1, <1>3, Types1
<1> HIDE DEF c
<1>7. /\ l1'["D"].store = l1["D"].store
      /\ CurrD' = <<asked>> /\ Head(CurrD') = asked /\ CurrD' # <<>> /\ l1'["D"].hitQ = l1["D"].hitQ
  BY <1>1, <1>5, <1>6, OfOne DEF TypeOK, CurrD
<1>8. FlatMem' = FlatMem
  BY <1>1, <1>7, BelowKept, SameFresh
<1>9. FlatWaiting = <<>> /\ FlatWaiting' = <<r>>
  BY <1>1, <1>4, <1>7 DEF FlatWaiting
<1>10. Due' = Due
  BY <1>1, <1>4, <1>7 DEF Due
<1>11. FlatAnswers' = FlatAnswers
  BY <1>7, <1>10 DEF FlatAnswers
<1> QED
  BY <1>8, <1>9, <1>11 DEF Flat!Accept, FlatMem, FlatWaiting, FlatAnswers, Due

\* The line has come for the one that waits.
LEMMA FlatServe ==
  ASSUME CachesInv, handleDramResponse("D")
  PROVE  Flat!ServeWaiting
<1> "D" \in Sides
  BY DEF Sides
<1> DEFINE r    == Curr("D").req
           line == Head(l1["D"].lineRespQ)
           i    == Index1(r.line)
           c    == [l1["D"] EXCEPT !.lineRespQ = Tail(@), !.currReqQ = <<>>, !.hitQ = <<Reply(r, line)>>,
                                   !.store[i] = Filled(r, line), !.state = "WaitCAUResp"]
<1>1. /\ TypeOK /\ Queues1OK("D") /\ Store1OK("D") /\ Stage1("D") /\ UNCHANGED <<l2, mem>>
      /\ l1["D"].state = "WaitDramResp" /\ l1["D"].lineRespQ # <<>> /\ l1["D"].hitQ = <<>>
      /\ l1' = [l1 EXCEPT !["D"] = c]
  BY DEF CachesInv, handleDramResponse
<1>2. /\ l1["D"].currReqQ # <<>> /\ Missed("D") /\ Saved("D") /\ ~Asks("D")
      /\ Intact(r.line, line) /\ line = Below(r.line)
  BY <1>1 DEF Stage1, Wanted, Good
<1>3. /\ r \in DataRequests /\ r \in Requests /\ r.line \in Lines /\ r.offset \in Offsets
      /\ i \in 0 .. L1Sets - 1 /\ Tag1(r.line) \in Nat
  BY <1>1, <1>2, CurrType, Place1 DEF Requests, RequestsOf
<1>4. line \in Data /\ ~Hits1("D", r.line)
  BY <1>2 DEF Intact, Missed, Wanted
<1> DEFINE new == Filled(r, line)
<1>5. new.valid /\ new.tag = Tag1(r.line) /\ new.data = Stored(line, r)
  BY DEF Filled
<1>6. c.store = [l1["D"].store EXCEPT ![i] = new] /\ c.currReqQ = <<>> /\ c.hitQ = <<Reply(r, line)>>
  BY <1>1, Types1 DEF Cache1, CacheType
<1> HIDE DEF c, new
<1>7. /\ l1'["D"].store = [l1["D"].store EXCEPT ![i] = new]
      /\ CurrD' = <<>> /\ l1'["D"].hitQ = <<Reply(r, line)>>
  BY <1>1, <1>6 DEF TypeOK, CurrD
\* The memory: the line that goes away is what is below.
<1>8. ASSUME NEW x \in Lines, Index1(x) = i, Hits1("D", x)
      PROVE  Entry1("D", x).data = Below(x)
  <2>1. Curr("D").tagged = Entry1("D", x)
    BY <1>2, <1>8 DEF Missed, Wanted, Entry1
  <2>2. CASE ~Entry1("D", x).dirty
    BY <1>1, <1>8, <2>2 DEF Store1OK
  <2>3. CASE Entry1("D", x).dirty
    <3>1. Curr("D").tagged.tag * L1Sets + Index1(r.line) = x
      BY <1>8, <2>1, Place1 DEF Hits1
    <3>2. Evicted(Curr("D")) = WriteOf(x, Entry1("D", x).data)
      BY <2>1, <3>1 DEF Evicted
    <3>3. Evicted(Curr("D")).line = x /\ Evicted(Curr("D")).data = Entry1("D", x).data
      BY <3>2 DEF WriteOf
    <3> QED
      BY <1>2, <2>1, <2>3, <3>3 DEF Saved
  <2> QED
    BY <2>2, <2>3
<1> HIDE DEF r, line, i
<1>9. Index1(r.line) = i
  BY DEF i
<1>10. ASSUME NEW x \in Lines
       PROVE  Freshest(x)' = IF x = r.line THEN new.data ELSE Freshest(x)
  <2>1. Entry1("D", x)' = IF Index1(x) = i THEN new ELSE Entry1("D", x)
    BY <1>1, <1>3, <1>7, Place1, Types1 DEF Entry1
  <2>2. Index1(x) = i /\ Tag1(x) = Tag1(r.line) <=> x = r.line
    BY <1>3, <1>9, Place1
  <2>3. Below(x)' = Below(x)
    BY <1>1, BelowKept
  <2>4. CASE Index1(x) # i
    BY <1>9, <2>1, <2>3, <2>4 DEF Freshest, Hits1
  <2>5. CASE x = r.line
    BY <1>5, <1>9, <2>1, <2>5 DEF Freshest, Hits1
  <2>6. CASE Index1(x) = i /\ x # r.line
    <3>1. ~Hits1("D", x)'
      BY <1>5, <2>1, <2>2, <2>6 DEF Hits1
    <3> QED
      BY <1>8, <2>3, <2>6, <3>1 DEF Freshest
  <2> QED
    BY <2>4, <2>5, <2>6
<1>11. Freshest(r.line) = line
  BY <1>2, <1>4 DEF Freshest
<1>12. new.data = [line EXCEPT ![r.offset] = Flat!Merged(@, r)]
  BY <1>5 DEF Stored, Flat!Merged
<1>13. FlatMem' = [FlatMem EXCEPT ![r.line][r.offset] = Flat!Merged(@, r)]
  <2>1. FlatMem[r.line] = line
    BY <1>3, <1>11 DEF FlatMem
  <2>2. FlatMem' = [y \in Lines |-> IF y = r.line THEN new.data ELSE FlatMem[y]]
    BY <1>10 DEF FlatMem
  <2>3. [FlatMem EXCEPT ![r.line] = new.data] = [y \in Lines |-> IF y = r.line THEN new.data ELSE FlatMem[y]]
    BY DEF FlatMem
  <2> QED
    BY <1>12, <2>1, <2>2, <2>3
\* The answer.
<1>14. FlatWaiting = <<r>> /\ FlatWaiting' = <<>> /\ Due = <<>> /\ Due' = <<>>
  BY <1>2, <1>7 DEF FlatWaiting, Due, CurrD, Missed, Curr, r
<1>15. Head(FlatWaiting) = r /\ Tail(FlatWaiting) = <<>> /\ FlatWaiting # <<>>
  BY <1>14, OfOne
<1>16. Reply(r, line) = Flat!AnswerTo(r)
  BY <1>3, <1>11 DEF Reply, Flat!AnswerTo
<1>17. FlatAnswers' = Append(FlatAnswers, Flat!AnswerTo(r))
  <2>1. FlatAnswers = <<>>
    BY <1>1, <1>14, ConcatEmptySeq DEF FlatAnswers
  <2>2. FlatAnswers' = <<Reply(r, line)>>
    <3>1. <<Reply(r, line)>> \in Seq({Reply(r, line)})
      BY OneInSeq
    <3>2. FlatAnswers' = <<Reply(r, line)>> \o <<>>
      BY <1>7, <1>14 DEF FlatAnswers
    <3> QED
      BY <3>1, <3>2, ConcatEmptySeq
  <2> QED
    BY <1>16, <2>1, <2>2, OfOne
<1> QED
  BY <1>13, <1>14, <1>15, <1>17 DEF Flat!ServeWaiting, Flat!Serve, FlatMem, FlatWaiting, FlatAnswers, Due

\* The answer to a hit goes to hitQ; it was due already.
LEMMA FlatReply ==
  ASSUME CachesInv, handleCAUResponse("D"), Curr("D").hit
  PROVE  UNCHANGED FlatVars
<1> "D" \in Sides
  BY DEF Sides
<1> DEFINE reply == Reply(Curr("D").req, Curr("D").tagged.data)
           c == [l1["D"] EXCEPT !.currReqQ = <<>>, !.hitQ = <<reply>>]
<1>1. /\ TypeOK /\ UNCHANGED <<l2, mem>> /\ l1["D"].hitQ = <<>> /\ CurrD # <<>> /\ Head(CurrD).hit
      /\ l1' = [l1 EXCEPT !["D"] = c]
  BY DEF CachesInv, handleCAUResponse, CurrD, Curr
<1>2. Due = <<reply>> /\ FlatWaiting = <<>>
  BY <1>1 DEF Due, FlatWaiting, CurrD, Curr
<1> HIDE DEF reply
<1>3. c.store = l1["D"].store /\ c.currReqQ = <<>> /\ c.hitQ = <<reply>>
  BY <1>1, Types1 DEF Cache1, CacheType
<1> HIDE DEF c
<1>4. l1'["D"].store = l1["D"].store /\ CurrD' = <<>> /\ l1'["D"].hitQ = <<reply>>
  BY <1>1, <1>3 DEF TypeOK, CurrD
<1>5. FlatMem' = FlatMem
  BY <1>1, <1>4, BelowKept, SameFresh
<1>6. Due' = <<>> /\ FlatWaiting' = <<>>
  BY <1>4 DEF Due, FlatWaiting
<1>7. FlatAnswers' = FlatAnswers
  <2>1. <<reply>> \in Seq({reply})
    BY OneInSeq
  <2>2. FlatAnswers = <<>> \o <<reply>> /\ FlatAnswers' = <<reply>> \o <<>>
    BY <1>1, <1>2, <1>4, <1>6 DEF FlatAnswers
  <2> QED
    BY <2>1, <2>2, ConcatEmptySeq
<1> QED
  BY <1>2, <1>5, <1>6, <1>7 DEF FlatVars

\* The core takes an answer.
LEMMA FlatAnswer ==
  ASSUME CachesInv, getToProc("D")
  PROVE  Flat!Answer
<1> "D" \in Sides
  BY DEF Sides
<1> DEFINE c == [l1["D"] EXCEPT !.hitQ = <<>>]
<1>1. /\ TypeOK /\ UNCHANGED <<l2, mem>> /\ l1["D"].hitQ # <<>>
      /\ l1' = [l1 EXCEPT !["D"] = c]
  BY DEF CachesInv, getToProc
<1>2. c.store = l1["D"].store /\ c.currReqQ = l1["D"].currReqQ /\ c.hitQ = <<>>
  BY <1>1, Types1 DEF Cache1, CacheType
<1> HIDE DEF c
<1>3. l1'["D"].store = l1["D"].store /\ CurrD' = CurrD /\ l1'["D"].hitQ = <<>>
  BY <1>1, <1>2 DEF TypeOK, CurrD
<1>4. FlatMem' = FlatMem
  BY <1>1, <1>3, BelowKept, SameFresh
<1>5. Due' = Due /\ FlatWaiting' = FlatWaiting
  BY <1>3 DEF Due, FlatWaiting
<1>6. PICK x : l1["D"].hitQ = <<x>>
  BY <1>1, AnswersType
<1>7. \A S, q : q \in Seq(S) => q \o <<>> = q /\ <<>> \o q = q
  BY ConcatEmptySeq
<1>8. FlatAnswers # <<>> /\ FlatAnswers' = Tail(FlatAnswers)
  <2>1. CASE Due = <<>>
    <3>1. <<x>> \in Seq({x}) /\ <<>> \in Seq({x})
      BY OneInSeq
    <3>2. FlatAnswers = <<x>> /\ FlatAnswers' = <<>>
      BY <1>3, <1>5, <1>6, <1>7, <2>1, <3>1 DEF FlatAnswers
    <3> QED
      BY <3>2, OfOne
  <2>2. CASE Due # <<>>
    <3>1. PICK y : Due = <<y>>
      BY <2>2, AnswersType
    <3>2. <<x>> \in Seq({x, y}) /\ <<y>> \in Seq({x, y})
      BY OneInSeq
    <3>3. FlatAnswers = Append(<<x>>, y)
      BY <1>6, <3>1, <3>2, AppendIsConcat DEF FlatAnswers
    <3>4. FlatAnswers' = <<y>>
      BY <1>3, <1>5, <1>7, <3>1, <3>2 DEF FlatAnswers
    <3> QED
      BY <3>3, <3>4, OfTwo
  <2> QED
    BY <2>1, <2>2
<1> QED
  BY <1>4, <1>5, <1>8 DEF Flat!Answer, FlatMem, FlatWaiting, FlatAnswers, Due

\* All the rest it cannot see.
LEMMA FlatStutter ==
  ASSUME CachesInv, l1'["D"].store = l1["D"].store, l1'["D"].currReqQ = l1["D"].currReqQ,
         l1'["D"].hitQ = l1["D"].hitQ,
         \A line \in Lines : ~Hits1("D", line) => Below(line)' = Below(line)
  PROVE  UNCHANGED FlatVars
<1>1. FlatMem' = FlatMem
  BY SameFresh
<1>2. Due' = Due /\ FlatWaiting' = FlatWaiting
  BY DEF Due, FlatWaiting, CurrD
<1>3. FlatAnswers' = FlatAnswers
  BY <1>2 DEF FlatAnswers
<1> QED
  BY <1>1, <1>2, <1>3 DEF FlatVars

LEMMA FlatInit == Init => Flat!Init
<1> SUFFICES ASSUME Init PROVE Flat!Init
  OBVIOUS
<1>1. \A line \in Lines : Freshest(line) = Contents[line]
  <2> SUFFICES ASSUME NEW line \in Lines PROVE Freshest(line) = Contents[line]
    OBVIOUS
  <2>1. ~Hits1("D", line)
    BY Place1 DEF Init, EmptyCache, NoLine, Hits1, Entry1, Sides
  <2>2. ~Hits2(line) /\ ~WriteWaits(line)
    BY Place2 DEF Init, EmptyCache, NoLine, Hits2, Entry2, WriteWaits
  <2> QED
    BY <2>1, <2>2 DEF Freshest, Below, Init
<1>2. FlatMem = Contents
  BY <1>1, CachesAssumption DEF FlatMem
<1>3. CurrD = <<>> /\ l1["D"].hitQ = <<>>
  BY DEF CurrD, Init, EmptyCache, Sides
<1>4. FlatWaiting = <<>> /\ FlatAnswers = <<>>
  BY <1>3, ConcatEmptySeq DEF FlatWaiting, FlatAnswers, Due
<1> QED
  BY <1>2, <1>4 DEF Flat!Init, FlatMem, FlatWaiting, FlatAnswers, Due

LEMMA FlatStep == CachesInv /\ [Next]_vars => [Flat!Next]_(Flat!vars)
<1> SUFFICES ASSUME CachesInv, [Next]_vars PROVE Flat!Next \/ UNCHANGED FlatVars
  BY DEF Flat!vars, FlatVars, FlatMem, FlatWaiting, FlatAnswers, Due
<1> "I" \in Sides /\ "D" \in Sides
  BY DEF Sides
<1>1. CASE \E r \in RequestsOf("D") : putFromProc("D", r)
  BY <1>1, FlatHit, FlatMiss DEF Flat!Next, RequestsOf
<1>2. CASE handleCAUResponse("D") /\ Curr("D").hit
  BY <1>2, FlatReply
<1>3. CASE handleDramResponse("D")
  BY <1>3, FlatServe DEF Flat!Next
<1>4. CASE getToProc("D")
  BY <1>4, FlatAnswer DEF Flat!Next
<1>5. CASE \/ \E r \in Requests : putFromProc("I", r)
           \/ handleCAUResponse("I") \/ handleDramResponse("I") \/ getToProc("I")
  <2>1. l1'["D"] = l1["D"] /\ UNCHANGED <<l2, mem>>
    BY <1>5, OtherSide
  <2> QED
    BY <2>1, BelowKept, FlatStutter
<1>6. CASE Moves
  BY <1>6, MovesOfL1, MovesOfLines, FlatStutter
<1>7. CASE UNCHANGED vars
  BY <1>7, BelowKept, FlatStutter DEF vars
<1> QED
  BY <1>1, <1>2, <1>3, <1>4, <1>5, <1>6, <1>7, Steps DEF Sides

\* Two levels of caches, lines that are written back late, fetched, and shared
\* with the instruction side, and a memory that answers when it likes: for the
\* loads and stores of the core they are a memory that serves each at once
\* (Cache32.bsv, Cache512.bsv, CacheInterface.bsv, MemTypes.bsv).
THEOREM CachesImplementFlatMemory == Spec => ImplementsFlatMemory
  BY FlatInit, FlatStep, CachesInvariant, PTL DEF Spec, ImplementsFlatMemory, Flat!Spec

=============================================================================
