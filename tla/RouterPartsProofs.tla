------------------------- MODULE RouterPartsProofs -------------------------
(***************************************************************************)
(* The parts of a router.  For every number of requesters: the bit matrix  *)
(* of MatrixArbiter.bsv is always a strict total order, so every non-empty *)
(* request has exactly one winner, and nobody waits for more than          *)
(* NumReq - 1 grants.  For every number of ports and every set of flits:   *)
(* the register matrix of CrossbarSwitch.bsv holds at most one flit that   *)
(* is still to be read, and implements OneFlitSwitch.                      *)
(***************************************************************************)
EXTENDS MatrixArbiter, CrossbarSwitch, FiniteSetTheorems, WellFoundedInduction, TLAPS


-----------------------------------------------------------------------------
\* The arbiter: facts about its matrix.

\* Every wire into a comparison carries a bit, and the two requesters of a
\* pair read complementary bits.
LEMMA PriBitComplement ==
  ASSUME NEW P \in Matrix, NEW a \in Idx, NEW b \in Idx
  PROVE  /\ PriBit(P, a, b) \in {0, 1}
         /\ a # b => PriBit(P, b, a) = 1 - PriBit(P, a, b)
<1>1. P[a][b] \in {0, 1} /\ P[b][a] \in {0, 1}
  BY DEF Matrix
<1>2. a \in Int /\ b \in Int
  BY DEF Idx
<1> QED
  BY <1>1, <1>2 DEF PriBit

\* Distinct requesters are always ordered, one way only.
LEMMA BeatsTotal ==
  ASSUME NEW P \in Matrix, NEW a \in Idx, NEW b \in Idx, a # b
  PROVE  Beats(P, a, b) <=> ~Beats(P, b, a)
  BY PriBitComplement DEF Beats

\* The set of the requesters above one is finite and leaves that one out.
LEMMA AboveFinite ==
  ASSUME NEW P \in Matrix, NEW b \in Idx
  PROVE  /\ IsFiniteSet(Above(P, b))
         /\ Cardinality(Above(P, b)) \in Nat
         /\ Cardinality(Above(P, b)) <= NumReq - 1
<1>1. IsFiniteSet(Idx) /\ Cardinality(Idx) = NumReq
  BY FS_Interval, NumReqAssumption DEF Idx
<1>2. IsFiniteSet(Idx \ {b}) /\ Cardinality(Idx \ {b}) = NumReq - 1
  BY <1>1, FS_RemoveElement
<1>3. Above(P, b) \in SUBSET (Idx \ {b})
  BY DEF Above, Beats
<1> QED
  BY <1>2, <1>3, FS_Subset, FS_CardinalityType

\* A grant leaves a matrix of bits and puts its winner last: it now loses to
\* everybody, and the order among the others is what it was.
LEMMA UpdateOrder ==
  ASSUME NEW P \in Matrix, NEW t \in Idx
  PROVE  /\ updatePriorityBits(P, t) \in Matrix
         /\ \A a, b \in Idx : Beats(updatePriorityBits(P, t), a, b)
              <=> a # b /\ a # t /\ (b = t \/ Beats(P, a, b))
<1>1. updatePriorityBits(P, t) \in Matrix
  BY DEF updatePriorityBits, Matrix
<1>2. ASSUME NEW a \in Idx, NEW b \in Idx
      PROVE  Beats(updatePriorityBits(P, t), a, b)
               <=> a # b /\ a # t /\ (b = t \/ Beats(P, a, b))
  BY DEF Beats, PriBit, updatePriorityBits, Matrix, Idx
<1> QED
  BY <1>1, <1>2

\* In a strict total order with a clear diagonal every non-empty set of
\* requesters has one first element, and it alone is permitted.
LEMMA OneWinner ==
  ASSUME NEW P \in Matrix,
         \A a, b, c \in Idx : Beats(P, a, b) /\ Beats(P, b, c) => Beats(P, a, c),
         \A i \in Idx : P[i][i] = 0,
         NEW reqs \in SUBSET Idx, reqs # {}
  PROVE  \E w \in reqs : Permitted(P, reqs) = {w}
<1> DEFINE Rivals(b) == Above(P, b) \cap reqs
           T == {Rivals(b) : b \in reqs}
<1>1. IsWellFoundedOn(StrictSubsetOrdering(Idx), FiniteSubsetsOf(Idx))
  BY FS_StrictSubsetOrderingWellFounded
<1>2. ASSUME NEW b \in Idx
      PROVE  Rivals(b) \in SUBSET Idx /\ IsFiniteSet(Rivals(b))
  <2>1. Rivals(b) \in SUBSET Above(P, b) /\ Rivals(b) \in SUBSET Idx
    BY DEF Above
  <2> QED
    BY <2>1, AboveFinite, FS_Subset
<1>3. T \subseteq FiniteSubsetsOf(Idx) /\ T # {}
  BY <1>2 DEF FiniteSubsetsOf
<1>4. PICK M \in T : \A y \in T : ~(<<y, M>> \in StrictSubsetOrdering(Idx))
  <2> HIDE DEF T
  <2> QED
    BY <1>1, <1>3, WFMin
<1>5. PICK w \in reqs : M = Rivals(w)
  OBVIOUS
<1>6. Rivals(w) = {}
  <2> SUFFICES ASSUME NEW v \in Rivals(w) PROVE FALSE
    OBVIOUS
  <2>1. v \in reqs /\ v \in Idx /\ w \in Idx /\ Beats(P, v, w)
    BY DEF Above
  <2>2. Rivals(v) \subseteq Rivals(w)
    BY <2>1 DEF Above
  <2>3. v \notin Rivals(v)
    BY DEF Above, Beats
  <2>4. Rivals(v) \in SUBSET Idx /\ Rivals(w) \in SUBSET Idx /\ Rivals(v) # Rivals(w)
    BY <1>2, <2>1, <2>3
  <2>5. <<Rivals(v), M>> \in StrictSubsetOrdering(Idx)
    <3> HIDE DEF Rivals
    <3> QED
      BY <1>5, <2>2, <2>4 DEF StrictSubsetOrdering
  <2> QED
    BY <1>4, <2>1, <2>5
<1>7. w \in Permitted(P, reqs)
  <2> SUFFICES ASSUME NEW i \in reqs PROVE PriBit(P, i, w) = 0
    BY DEF Permitted, getPermitSignal
  <2>1. w \in Idx /\ i \in Idx
    OBVIOUS
  <2>2. CASE i = w
    BY <2>1, <2>2 DEF PriBit, Idx
  <2>3. CASE i # w
    <3>1. ~Beats(P, i, w)
      BY <1>6, <2>1 DEF Above
    <3> QED
      BY <2>1, <2>3, <3>1, PriBitComplement DEF Beats
  <2> QED
    BY <2>2, <2>3
<1>8. ASSUME NEW i \in Permitted(P, reqs) PROVE i = w
  <2> SUFFICES ASSUME i # w PROVE FALSE
    OBVIOUS
  <2>1. i \in Idx /\ i \in reqs /\ w \in Idx /\ PriBit(P, w, i) = 0
    BY DEF Permitted, getPermitSignal
  <2>2. ~Beats(P, w, i)
    BY <2>1 DEF Beats
  <2>3. Beats(P, i, w)
    BY <2>1, <2>2, BeatsTotal
  <2> QED
    BY <1>6, <2>1, <2>3 DEF Above
<1> QED
  BY <1>7, <1>8

\* What getArbit does when somebody asks: the winner is one of those that
\* asked and comes before each of the others.
LEMMA GrantIsWinner ==
  ASSUME IInv, inited, NEW reqs \in SUBSET Idx, reqs # {},
         NEW idx \in getGrantIdx(priorityBits, reqs)
  PROVE  /\ idx \in reqs
         /\ \A i \in reqs \ {idx} : Beats(priorityBits, idx, i)
<1>1. PICK w \in reqs : Permitted(priorityBits, reqs) = {w}
  BY OneWinner DEF IInv, TypeOK, Transitive, DiagonalClear
<1>2. idx = w
  <2>1. w \in Int
    BY DEF Idx
  <2>2. \A x \in {w} : (\A y \in {w} : x >= y) <=> x = w
    BY <2>1
  <2>3. Max({w}) = w
    BY <2>2 DEF Max
  <2> QED
    BY <1>1, <2>3 DEF getGrantIdx
<1>3. ASSUME NEW i \in reqs, i # w PROVE Beats(priorityBits, w, i)
  <2>1. PriBit(priorityBits, i, w) = 0
    BY <1>1 DEF Permitted, getPermitSignal
  <2>2. ~Beats(priorityBits, i, w)
    BY <2>1 DEF Beats
  <2> QED
    BY <1>3, <2>2, BeatsTotal DEF IInv, TypeOK
<1> QED
  BY <1>2, <1>3

-----------------------------------------------------------------------------
\* The invariant is inductive.

LEMMA InitIInv == Init => IInv
<1> SUFFICES ASSUME Init PROVE IInv
  OBVIOUS
<1>1. TypeOK
  <2>1. 1 \in 0 .. 1 /\ 0 \in Nat
    OBVIOUS
  <2>2. ResetBits \in Matrix
    BY <2>1 DEF ResetBits, Matrix
  <2> QED
    BY <2>1, <2>2 DEF Init, TypeOK
<1>2. ASSUME NEW a \in Idx, NEW b \in Idx
      PROVE  Beats(priorityBits, a, b) <=> a < b
  BY DEF Init, ResetBits, Beats, PriBit, Idx
<1>3. Transitive
  BY <1>2 DEF Transitive, Idx
<1>4. LossesMoveUp
  BY <1>1, AboveFinite, NumReqAssumption DEF Init, LossesMoveUp, TypeOK
<1> QED
  BY <1>1, <1>3, <1>4 DEF IInv, DiagonalClear, Init

\* initialize touches only the diagonal, which no comparison of two
\* different requesters reads.
LEMMA InitializeIInv == IInv /\ initialize => IInv'
<1> SUFFICES ASSUME IInv, initialize PROVE IInv'
  OBVIOUS
<1>1. TypeOK'
  BY DEF IInv, TypeOK, initialize, ClearDiagonal, Matrix
<1>2. ASSUME NEW a \in Idx, NEW b \in Idx
      PROVE  Beats(priorityBits', a, b) <=> Beats(priorityBits, a, b)
  BY DEF IInv, TypeOK, initialize, ClearDiagonal, Matrix, Beats, PriBit, Idx
<1>3. Transitive'
  BY <1>2 DEF IInv, Transitive
<1>4. DiagonalClear'
  BY DEF IInv, TypeOK, initialize, ClearDiagonal, Matrix, DiagonalClear
<1>5. LossesMoveUp'
  <2>1. \A i \in Idx : Above(priorityBits', i) = Above(priorityBits, i)
    BY <1>2 DEF Above
  <2> QED
    BY <2>1 DEF IInv, LossesMoveUp, initialize
<1> QED
  BY <1>1, <1>3, <1>4, <1>5 DEF IInv

\* A call nobody asks in grants nothing and forgets the losses.
LEMMA NoRequestIInv == IInv /\ getArbit({}) => IInv'
<1> SUFFICES ASSUME IInv, getArbit({}) PROVE IInv'
  OBVIOUS
<1>1. /\ UNCHANGED <<inited, priorityBits>>
      /\ request' = {} /\ response' = {}
      /\ waits' = [i \in Idx |-> 0]
  BY DEF getArbit, doArbit, CountLosses
<1>2. TypeOK'
  BY <1>1 DEF IInv, TypeOK
<1>3. LossesMoveUp'
  BY <1>1, AboveFinite, NumReqAssumption DEF IInv, TypeOK, LossesMoveUp
<1> QED
  BY <1>1, <1>2, <1>3 DEF IInv, Transitive, DiagonalClear

\* A grant moves the winner behind everybody it beat.
LEMMA GrantIInv ==
  ASSUME IInv, NEW reqs \in SUBSET Idx, reqs # {}, getArbit(reqs)
  PROVE  IInv'
<1>1. PICK idx \in getGrantIdx(priorityBits, reqs) :
        /\ response' = {idx}
        /\ priorityBits' = updatePriorityBits(priorityBits, idx)
  BY DEF getArbit, doArbit, packGrantIdx
<1>2. /\ inited /\ inited' = inited
      /\ request' = reqs
      /\ waits' = [i \in Idx |-> IF i \in reqs \ {idx} THEN waits[i] + 1 ELSE 0]
  BY <1>1 DEF getArbit, doArbit, CountLosses
<1>3. idx \in reqs /\ \A i \in reqs \ {idx} : Beats(priorityBits, idx, i)
  BY <1>1, <1>2, GrantIsWinner
<1>4. idx \in Idx /\ priorityBits \in Matrix
  BY <1>3 DEF IInv, TypeOK
<1>5. TypeOK'
  BY <1>1, <1>2, <1>3, <1>4, UpdateOrder DEF IInv, TypeOK
<1>6. \A a, b \in Idx : Beats(priorityBits', a, b)
              <=> a # b /\ a # idx /\ (b = idx \/ Beats(priorityBits, a, b))
  BY <1>1, <1>4, UpdateOrder
<1>7. Transitive'
  <2> SUFFICES ASSUME NEW a \in Idx, NEW b \in Idx, NEW c \in Idx,
                      Beats(priorityBits', a, b), Beats(priorityBits', b, c)
               PROVE  Beats(priorityBits', a, c)
    BY DEF Transitive
  <2>1. a # idx /\ b # idx /\ a # b /\ b # c /\ Beats(priorityBits, a, b)
    BY <1>4, <1>6
  <2>2. CASE c = idx
    BY <1>4, <1>6, <2>1, <2>2
  <2>3. CASE c # idx
    <3>1. Beats(priorityBits, b, c)
      BY <1>4, <1>6, <2>1, <2>3
    <3>2. Beats(priorityBits, a, c)
      BY <2>1, <3>1 DEF IInv, Transitive
    <3>3. a # c
      BY <3>2 DEF Beats
    <3> QED
      BY <1>4, <1>6, <2>1, <3>2, <3>3
  <2> QED
    BY <2>2, <2>3
<1>8. DiagonalClear'
  BY <1>1, <1>2, <1>4 DEF IInv, TypeOK, DiagonalClear, updatePriorityBits, Matrix
<1>9. LossesMoveUp'
  <2> SUFFICES ASSUME NEW i \in Idx
               PROVE  waits'[i] + Cardinality(Above(priorityBits', i)) <= NumReq - 1
    BY DEF LossesMoveUp
  <2>1. priorityBits' \in Matrix
    BY <1>5 DEF TypeOK
  <2>2. CASE i \in reqs \ {idx}
    <3>1. Above(priorityBits', i) = Above(priorityBits, i) \ {idx}
      BY <1>4, <1>6, <2>2 DEF Above, Beats
    <3>2. idx \in Above(priorityBits, i)
      BY <1>3, <1>4, <2>2 DEF Above
    <3>3. Cardinality(Above(priorityBits', i)) = Cardinality(Above(priorityBits, i)) - 1
      <4>1. IsFiniteSet(Above(priorityBits, i))
        BY <1>4, AboveFinite
      <4> QED
        BY <3>1, <3>2, <4>1, FS_RemoveElement, ZenonT(30)
    <3>4. Cardinality(Above(priorityBits, i)) \in Nat
      BY <1>4, AboveFinite
    <3>5. waits[i] \in Nat /\ waits[i] + Cardinality(Above(priorityBits, i)) <= NumReq - 1
      BY DEF IInv, TypeOK, LossesMoveUp
    <3> QED
      BY <1>2, <2>2, <3>3, <3>4, <3>5, NumReqAssumption
  <2>3. CASE i \notin reqs \ {idx}
    BY <1>2, <2>1, <2>3, AboveFinite, NumReqAssumption
  <2> QED
    BY <2>2, <2>3
<1> QED
  BY <1>5, <1>7, <1>8, <1>9 DEF IInv

LEMMA NextIInv == IInv /\ [Next]_vars => IInv'
<1> SUFFICES ASSUME IInv, [Next]_vars PROVE IInv'
  OBVIOUS
<1>1. CASE initialize
  BY <1>1, InitializeIInv
<1>2. ASSUME NEW reqs \in SUBSET Idx, getArbit(reqs) PROVE IInv'
  BY <1>2, NoRequestIInv, GrantIInv
<1>3. CASE UNCHANGED vars
  BY <1>3 DEF vars, IInv, TypeOK, Transitive, DiagonalClear, LossesMoveUp
<1> QED
  BY <1>1, <1>2, <1>3 DEF Next

-----------------------------------------------------------------------------
\* The registers of the arbiter keep their types, and its bits stay a strict
\* total order (priorityBits, inited and the history of losses of MatrixArbiter).
THEOREM ArbiterIInv == Spec => []IInv
  BY InitIInv, NextIInv, PTL DEF Spec

\* Type correctness of the arbiter's registers and of its one-hot result.
THEOREM ArbiterTypeOK == Spec => []TypeOK
<1>1. IInv => TypeOK
  BY DEF IInv
<1> QED
  BY <1>1, ArbiterIInv, PTL

\* Once initialize has run, getGrantIdx always finds exactly one requester,
\* whatever set of them asks.
THEOREM ArbiterExactlyOneWinner == Spec => []ExactlyOneWinner
<1>1. IInv => ExactlyOneWinner
  BY OneWinner DEF IInv, TypeOK, Transitive, DiagonalClear, ExactlyOneWinner
<1> QED
  BY <1>1, ArbiterIInv, PTL

\* A requester that keeps asking is served after at most NumReq - 1 grants
\* to others.
THEOREM ArbiterBoundedWaiting == Spec => []BoundedWaiting
<1>1. IInv => BoundedWaiting
  <2> SUFFICES ASSUME IInv, NEW i \in Idx PROVE waits[i] <= NumReq - 1
    BY DEF BoundedWaiting
  <2>1. Cardinality(Above(priorityBits, i)) \in Nat
    BY AboveFinite DEF IInv, TypeOK
  <2> QED
    BY <2>1, NumReqAssumption DEF IInv, TypeOK, LossesMoveUp
<1> QED
  BY <1>1, ArbiterIInv, PTL

-----------------------------------------------------------------------------
\* The order of the requesters as a queue.

\* Who comes before another has fewer before it.
LEMMA FewerAbove ==
  ASSUME NEW P \in Matrix,
         \A a, b, c \in Idx : Beats(P, a, b) /\ Beats(P, b, c) => Beats(P, a, c),
         NEW a \in Idx, NEW b \in Idx, Beats(P, a, b)
  PROVE  Cardinality(Above(P, a)) < Cardinality(Above(P, b))
<1>1. /\ Cardinality(Above(P, a)) \in Nat
      /\ IsFiniteSet(Above(P, b)) /\ Cardinality(Above(P, b)) \in Nat
  BY AboveFinite
<1>2. Above(P, a) \in SUBSET Above(P, b)
  BY DEF Above
<1>3. a \in Above(P, b) /\ a \notin Above(P, a)
  BY DEF Above, Beats
<1>4. /\ Cardinality(Above(P, a)) <= Cardinality(Above(P, b))
      /\ Cardinality(Above(P, a)) # Cardinality(Above(P, b))
  BY <1>1, <1>2, <1>3, FS_Subset
<1> QED
  BY <1>1, <1>4

\* At every place of the queue stands one requester.
LEMMA OneAtEachPlace ==
  ASSUME NEW P \in Matrix,
         \A a, b, c \in Idx : Beats(P, a, b) /\ Beats(P, b, c) => Beats(P, a, c)
  PROVE  /\ \A a, b \in Idx : Cardinality(Above(P, a)) = Cardinality(Above(P, b)) => a = b
         /\ \A k \in 1 .. NumReq : \E i \in Idx : Cardinality(Above(P, i)) = k - 1
<1> DEFINE rank == [i \in Idx |-> Cardinality(Above(P, i))]
<1>1. \A i \in Idx : Cardinality(Above(P, i)) \in 0 .. NumReq - 1
  <2> SUFFICES ASSUME NEW i \in Idx PROVE Cardinality(Above(P, i)) \in 0 .. NumReq - 1
    OBVIOUS
  <2>1. Cardinality(Above(P, i)) \in Nat /\ Cardinality(Above(P, i)) <= NumReq - 1
    BY AboveFinite
  <2> QED
    BY <2>1, NumReqAssumption
<1>2. ASSUME NEW a \in Idx, NEW b \in Idx, a # b
      PROVE  Cardinality(Above(P, a)) # Cardinality(Above(P, b))
  <2>1. Beats(P, a, b) \/ Beats(P, b, a)
    BY <1>2, BeatsTotal
  <2>2. \/ Cardinality(Above(P, a)) < Cardinality(Above(P, b))
        \/ Cardinality(Above(P, b)) < Cardinality(Above(P, a))
    BY <2>1, FewerAbove
  <2> QED
    BY <1>1, <2>2
<1>3. rank \in Injection(Idx, 0 .. NumReq - 1)
  <2>1. rank \in [Idx -> 0 .. NumReq - 1]
    BY <1>1
  <2>2. \A a, b \in Idx : rank[a] = rank[b] => a = b
    BY <1>2
  <2> HIDE DEF rank
  <2> QED
    BY <2>1, <2>2 DEF Injection, IsInjective
<1>4. /\ IsFiniteSet(0 .. NumReq - 1) /\ Cardinality(Idx) = Cardinality(0 .. NumReq - 1)
  BY FS_Interval, NumReqAssumption DEF Idx
<1>5. rank \in Surjection(Idx, 0 .. NumReq - 1)
  <2> HIDE DEF rank
  <2> QED
    BY <1>3, <1>4, FS_Injection
<1>6. ASSUME NEW k \in 1 .. NumReq
      PROVE  \E i \in Idx : Cardinality(Above(P, i)) = k - 1
  <2>1. k - 1 \in 0 .. NumReq - 1
    BY NumReqAssumption
  <2>2. PICK i \in Idx : rank[i] = k - 1
    <3> HIDE DEF rank
    <3> QED
      BY <1>5, <2>1 DEF Surjection
  <2> QED
    BY <2>2
<1> QED
  BY <1>2, <1>6

LEMMA QueueOfPlaces ==
  ASSUME NEW P \in Matrix,
         \A a, b, c \in Idx : Beats(P, a, b) /\ Beats(P, b, c) => Beats(P, a, c)
  PROVE  /\ QueueOf(P) \in [1 .. NumReq -> Idx]
         /\ \A k \in 1 .. NumReq : Cardinality(Above(P, QueueOf(P)[k])) = k - 1
<1> SUFFICES ASSUME NEW k \in 1 .. NumReq
             PROVE  QueueOf(P)[k] \in Idx /\ Cardinality(Above(P, QueueOf(P)[k])) = k - 1
  BY DEF QueueOf
<1>1. \E i \in Idx : Cardinality(Above(P, i)) = k - 1
  BY OneAtEachPlace
<1>2. QueueOf(P)[k] = CHOOSE i \in Idx : Cardinality(Above(P, i)) = k - 1
  BY DEF QueueOf
<1> QED
  BY <1>1, <1>2

\* The queue is the only one in which so many stand before each.
LEMMA QueueIs ==
  ASSUME NEW P \in Matrix,
         \A a, b, c \in Idx : Beats(P, a, b) /\ Beats(P, b, c) => Beats(P, a, c),
         NEW q \in [1 .. NumReq -> Idx],
         \A k \in 1 .. NumReq : Cardinality(Above(P, q[k])) = k - 1
  PROVE  QueueOf(P) = q
<1>1. /\ QueueOf(P) \in [1 .. NumReq -> Idx]
      /\ \A k \in 1 .. NumReq : Cardinality(Above(P, QueueOf(P)[k])) = k - 1
  BY QueueOfPlaces
<1>2. ASSUME NEW k \in 1 .. NumReq PROVE QueueOf(P)[k] = q[k]
  <2>1. q[k] \in Idx /\ QueueOf(P)[k] \in Idx
    BY <1>1
  <2>2. Cardinality(Above(P, q[k])) = Cardinality(Above(P, QueueOf(P)[k]))
    BY <1>1
  <2> QED
    BY <2>1, <2>2, OneAtEachPlace
<1>3. PICK other \in [1 .. NumReq -> Idx] : other = QueueOf(P)
  BY <1>1
<1>4. \A k \in 1 .. NumReq : other[k] = q[k]
  BY <1>2, <1>3
<1>5. other = q
  <2>1. other = [k \in 1 .. NumReq |-> other[k]] /\ q = [k \in 1 .. NumReq |-> q[k]]
    OBVIOUS
  <2>2. [k \in 1 .. NumReq |-> other[k]] = [k \in 1 .. NumReq |-> q[k]]
    BY <1>4
  <2> QED
    BY <2>1, <2>2
<1> QED
  BY <1>3, <1>5

\* A grant puts its winner behind all others and moves up whom it came before.
LEMMA UpdateRanks ==
  ASSUME NEW P \in Matrix, NEW t \in Idx, NEW i \in Idx
  PROVE  LET above == Above(updatePriorityBits(P, t), i)
         IN  /\ i = t => Cardinality(above) = NumReq - 1
             /\ i # t /\ Beats(P, t, i) => Cardinality(above) = Cardinality(Above(P, i)) - 1
             /\ i # t /\ ~Beats(P, t, i) => Cardinality(above) = Cardinality(Above(P, i))
<1> DEFINE above == Above(updatePriorityBits(P, t), i)
<1>1. \A a \in Idx : a \in above <=> a # i /\ a # t /\ (i = t \/ Beats(P, a, i))
  BY UpdateOrder DEF Above
<1>2. above \subseteq Idx
  BY DEF Above
<1>3. CASE i = t
  <2>1. above = Idx \ {t}
    BY <1>1, <1>2, <1>3
  <2>2. IsFiniteSet(Idx) /\ Cardinality(Idx) = NumReq
    BY FS_Interval, NumReqAssumption DEF Idx
  <2> QED
    BY <1>3, <2>1, <2>2, FS_RemoveElement
<1>4. CASE i # t
  <2>1. above = Above(P, i) \ {t}
    BY <1>1, <1>2, <1>4 DEF Above, Beats
  <2>2. IsFiniteSet(Above(P, i)) /\ (t \in Above(P, i) <=> Beats(P, t, i))
    BY AboveFinite DEF Above
  <2>3. Cardinality(above) = IF t \in Above(P, i) THEN Cardinality(Above(P, i)) - 1
                             ELSE Cardinality(Above(P, i))
    BY <2>1, <2>2, FS_RemoveElement
  <2> QED
    BY <1>4, <2>2, <2>3
<1> QED
  BY <1>3, <1>4

LEMMA InitIsQueue == Init => LRG!Init
<1> SUFFICES ASSUME Init PROVE LRG!Init
  OBVIOUS
<1>1. IInv
  BY InitIInv
<1>2. priorityBits \in Matrix /\ \A a, b \in Idx : Beats(priorityBits, a, b) <=> a < b
  BY <1>1 DEF IInv, TypeOK, Init, ResetBits, Beats, PriBit, Idx
<1> DEFINE q == [k \in 1 .. NumReq |-> k - 1]
<1>3. q \in [1 .. NumReq -> Idx]
  BY NumReqAssumption DEF Idx
<1>4. ASSUME NEW k \in 1 .. NumReq PROVE Cardinality(Above(priorityBits, q[k])) = k - 1
  <2>1. Above(priorityBits, k - 1) = 0 .. k - 2
    BY <1>2, NumReqAssumption DEF Above, Idx
  <2>2. Cardinality(0 .. k - 2) = k - 1
    BY FS_Interval
  <2> QED
    BY <2>1, <2>2
<1>5. QueueOf(priorityBits) = q
  BY <1>1, <1>2, <1>3, <1>4, QueueIs DEF IInv, Transitive
<1> QED
  BY <1>5 DEF Init, LRG!Init

\* initialize changes no order.
LEMMA InitializeIsReady == IInv /\ initialize => LRG!BecomeReady
<1> SUFFICES ASSUME IInv, initialize PROVE LRG!BecomeReady
  OBVIOUS
<1>1. ASSUME NEW a \in Idx, NEW b \in Idx
      PROVE  Beats(priorityBits', a, b) <=> Beats(priorityBits, a, b)
  BY DEF IInv, TypeOK, initialize, ClearDiagonal, Matrix, Beats, PriBit, Idx
<1>2. \A i \in Idx : Above(priorityBits', i) = Above(priorityBits, i)
  BY <1>1 DEF Above
<1>3. QueueOf(priorityBits') = QueueOf(priorityBits)
  <2>1. \A k : (CHOOSE i \in Idx : Cardinality(Above(priorityBits', i)) = k - 1)
                 = CHOOSE i \in Idx : Cardinality(Above(priorityBits, i)) = k - 1
    BY <1>2
  <2> QED
    BY <2>1 DEF QueueOf
<1> QED
  BY <1>3 DEF initialize, LRG!BecomeReady

LEMMA NoRequestIsNoGrant == IInv /\ getArbit({}) => LRG!NoGrant
  BY DEF getArbit, doArbit, LRG!NoGrant

\* The winner of the matrix is the first in the queue of those that ask.
LEMMA GrantIsGrant ==
  ASSUME IInv, NEW reqs \in SUBSET Idx, reqs # {}, getArbit(reqs)
  PROVE  LRG!Grant(reqs)
<1>1. PICK idx \in getGrantIdx(priorityBits, reqs) :
        /\ response' = {idx}
        /\ priorityBits' = updatePriorityBits(priorityBits, idx)
  BY DEF getArbit, doArbit, packGrantIdx
<1>2. inited /\ inited' = inited /\ request' = reqs
  BY DEF getArbit, doArbit
<1>3. idx \in reqs /\ \A i \in reqs \ {idx} : Beats(priorityBits, idx, i)
  BY <1>1, <1>2, GrantIsWinner
<1>4. /\ idx \in Idx /\ priorityBits \in Matrix
      /\ \A a, b, c \in Idx : Beats(priorityBits, a, b) /\ Beats(priorityBits, b, c)
                                => Beats(priorityBits, a, c)
  BY <1>3 DEF IInv, TypeOK, Transitive
<1>5. PICK q \in [1 .. NumReq -> Idx] :
        /\ q = QueueOf(priorityBits)
        /\ \A k \in 1 .. NumReq : Cardinality(Above(priorityBits, q[k])) = k - 1
  BY <1>4, QueueOfPlaces
<1>6. PICK k \in 1 .. NumReq : k = Cardinality(Above(priorityBits, idx)) + 1
  <2>1. PICK n \in Nat : n = Cardinality(Above(priorityBits, idx)) /\ n <= NumReq - 1
    BY <1>4, AboveFinite
  <2>2. n + 1 \in 1 .. NumReq
    BY <2>1, NumReqAssumption
  <2> QED
    BY <2>1, <2>2
<1>7. q[k] = idx
  <2>1. Cardinality(Above(priorityBits, q[k])) = Cardinality(Above(priorityBits, idx))
    <3>1. Cardinality(Above(priorityBits, idx)) \in Nat
      BY <1>4, AboveFinite
    <3> QED
      BY <1>5, <1>6, <3>1
  <2> QED
    BY <1>4, <1>5, <2>1, OneAtEachPlace
\* The places behind it are those of the requesters it comes before.
<1>8. ASSUME NEW j \in 1 .. NumReq
      PROVE  /\ j > k <=> Beats(priorityBits, idx, q[j])
             /\ j < k => Beats(priorityBits, q[j], idx)
  <2>1. q[j] \in Idx
    BY <1>5
  <2>2. Cardinality(Above(priorityBits, q[j])) = j - 1 /\ Cardinality(Above(priorityBits, idx)) = k - 1
    BY <1>5, <1>7
  <2>3. Beats(priorityBits, idx, q[j]) => k - 1 < j - 1
    BY <1>4, <2>1, <2>2, FewerAbove
  <2>4. Beats(priorityBits, q[j], idx) => j - 1 < k - 1
    BY <1>4, <2>1, <2>2, FewerAbove
  <2>5. j # k => q[j] # idx
    BY <2>2
  <2>6. j # k => Beats(priorityBits, idx, q[j]) \/ Beats(priorityBits, q[j], idx)
    BY <1>4, <2>1, <2>5, BeatsTotal
  <2> QED
    BY <2>3, <2>4, <2>6
<1>9. ASSUME NEW j \in 1 .. k - 1 PROVE q[j] \notin reqs
  <2>1. j \in 1 .. NumReq /\ j < k
    BY NumReqAssumption
  <2>2. Beats(priorityBits, q[j], idx) /\ q[j] \in Idx
    BY <1>5, <1>8, <2>1
  <2>3. q[j] # idx /\ ~Beats(priorityBits, idx, q[j])
    BY <1>4, <2>2, BeatsTotal DEF Beats
  <2> QED
    BY <1>3, <2>3
<1> DEFINE next == [j \in 1 .. NumReq |-> IF j < k THEN q[j]
                                         ELSE IF j < NumReq THEN q[j + 1] ELSE q[k]]
<1>10. next \in [1 .. NumReq -> Idx]
  <2>1. \A j \in 1 .. NumReq : j < NumReq => j + 1 \in 1 .. NumReq
    BY NumReqAssumption
  <2> QED
    BY <1>5, <2>1
<1>11. ASSUME NEW j \in 1 .. NumReq
       PROVE  Cardinality(Above(priorityBits', next[j])) = j - 1
  <2>1. CASE j < k
    <3>1. next[j] = q[j] /\ q[j] \in Idx
      BY <1>5, <2>1
    <3>2. ~Beats(priorityBits, idx, q[j]) /\ q[j] # idx
      BY <1>8, <2>1 DEF Beats
    <3> QED
      BY <1>1, <1>4, <1>5, <3>1, <3>2, UpdateRanks
  <2>2. CASE j >= k /\ j < NumReq
    <3>1. j + 1 \in 1 .. NumReq /\ j + 1 > k
      BY <2>2, NumReqAssumption
    <3>2. next[j] = q[j + 1] /\ q[j + 1] \in Idx
      BY <1>5, <2>2, <3>1
    <3>3. Beats(priorityBits, idx, q[j + 1]) /\ q[j + 1] # idx
      BY <1>8, <3>1 DEF Beats
    <3>4. Cardinality(Above(priorityBits, q[j + 1])) = j + 1 - 1
      BY <1>5, <3>1
    <3>5. Cardinality(Above(priorityBits', q[j + 1])) = Cardinality(Above(priorityBits, q[j + 1])) - 1
      BY <1>1, <1>4, <3>2, <3>3, UpdateRanks
    <3> QED
      BY <3>2, <3>4, <3>5
  <2>3. CASE j >= k /\ j = NumReq
    <3>1. next[j] = idx
      BY <1>7, <2>3, NumReqAssumption
    <3> QED
      BY <1>1, <1>4, <2>3, <3>1, UpdateRanks
  <2> QED
    BY <2>1, <2>2, <2>3, NumReqAssumption
<1>12. QueueOf(priorityBits') = next
  <2>1. IInv'
    BY GrantIInv
  <2>2. /\ priorityBits' \in Matrix
        /\ \A a, b, c \in Idx : Beats(priorityBits', a, b) /\ Beats(priorityBits', b, c)
                                  => Beats(priorityBits', a, c)
    BY <2>1 DEF IInv, TypeOK, Transitive
  <2> HIDE DEF next
  <2> QED
    BY <1>10, <1>11, <2>2, QueueIs
<1> QED
  BY <1>1, <1>2, <1>3, <1>5, <1>7, <1>9, <1>12 DEF LRG!Grant, LRG!ToTheBack

\* What the router's arbiter does with its triangle of bits is what a queue
\* does: of those that ask the one that was served longest ago is granted and
\* goes to the back.
THEOREM ArbiterImplementsQueue == Spec => ImplementsQueue
<1>1. Init => LRG!Init
  BY InitIsQueue
<1>2. IInv /\ [Next]_vars => [LRG!Next]_LRG!vars
  <2> SUFFICES ASSUME IInv, [Next]_vars PROVE [LRG!Next]_LRG!vars
    OBVIOUS
  <2>1. CASE initialize
    BY <2>1, InitializeIsReady DEF LRG!Next
  <2>2. ASSUME NEW reqs \in SUBSET Idx, getArbit(reqs) PROVE LRG!Next
    <3>1. CASE reqs = {}
      BY <2>2, <3>1, NoRequestIsNoGrant DEF LRG!Next
    <3>2. CASE reqs # {}
      <4>1. LRG!Grant(reqs)
        BY <2>2, <3>2, GrantIsGrant
      <4> QED
        BY <4>1 DEF LRG!Next, LRG!Requesters, Idx
    <3> QED
      BY <3>1, <3>2
  <2>3. CASE UNCHANGED vars
    BY <2>3 DEF vars, LRG!vars
  <2> QED
    BY <2>1, <2>2, <2>3 DEF Next
<1> QED
  BY <1>1, <1>2, ArbiterIInv, PTL DEF Spec, ImplementsQueue, LRG!Spec

-----------------------------------------------------------------------------
\* The crossbar: its invariant is inductive.

LEMMA PortFacts == /\ NoIndex \notin Ports
                   /\ Ports \subseteq Int
  BY NumPortsAssumption DEF NoIndex, Ports

LEMMA WaitingPair ==
  ASSUME NEW i \in Ports, NEW o \in Ports
  PROVE  <<i, o>> \in Waiting <=> Offers(i, o) /\ clearingIndex[o] # i
  BY DEF Waiting

LEMMA InitSwitchInv == SwitchInit => SwitchInv
<1> SUFFICES ASSUME SwitchInit PROVE SwitchInv
  OBVIOUS
<1>1. \A i, o \in Ports : ~isValid(i, o)
  BY DEF SwitchInit, isValid
<1>2. \A o \in Ports : clearingIndex[o] \notin Ports
  BY PortFacts DEF SwitchInit
<1>3. SwitchTypeOK
  BY DEF SwitchInit, SwitchTypeOK
<1>4. OneFlitPerToken
  BY <1>1 DEF OneFlitPerToken, Waiting, Offers, SwitchInit
<1> QED
  BY <1>1, <1>2, <1>3, <1>4 DEF SwitchInv, RowsAgree, OfferedRowFull, ClearingOffered, Offers

\* putFlit finds a row that offers nothing, and fills it.
LEMMA PutFacts ==
  ASSUME SwitchInv, NEW in \in Ports, NEW destDirn \in Ports, NEW flit \in Flits,
         putFlit(in, flit, destDirn)
  PROVE  /\ Waiting = {} /\ Waiting' = {<<in, destDirn>>}
         /\ \A o \in Ports : clearingIndex[o] # in
         /\ \A i, o \in Ports : Offers(i, o)' <=>
              (i # in /\ Offers(i, o)) \/ (i = in /\ o = destDirn)
         /\ \A i, o \in Ports : isValid(i, o)' <=> i = in \/ isValid(i, o)
<1> DEFINE new == [flit |-> flit, destDirn |-> destDirn]
<1>1. /\ mrmwRegisters' = [mrmwRegisters EXCEPT ![in] = [o \in Ports |-> new]]
      /\ clearingIndex' = clearingIndex
      /\ cbBuffer = 0
      /\ \E o \in Ports : ~isValid(in, o)
  BY DEF putFlit, isInputEmpty
<1>2. new \in SwitchFlit /\ new # Invalid
  BY InvalidAssumption DEF SwitchFlit
<1>3. Waiting = {}
  BY <1>1 DEF SwitchInv, OneFlitPerToken
<1>4. \A o \in Ports : ~Offers(in, o)
  BY <1>1 DEF SwitchInv, OfferedRowFull
<1>5. \A o \in Ports : clearingIndex[o] # in
  BY <1>4 DEF SwitchInv, ClearingOffered
<1>6. ASSUME NEW i \in Ports, NEW o \in Ports
      PROVE  mrmwRegisters'[i][o] = IF i = in THEN new ELSE mrmwRegisters[i][o]
  BY <1>1 DEF SwitchInv, SwitchTypeOK
<1>7. \A i, o \in Ports : isValid(i, o)' <=> i = in \/ isValid(i, o)
  <2> HIDE DEF new
  <2> QED
    BY <1>2, <1>6 DEF isValid
<1>8. \A i, o \in Ports : Offers(i, o)' <=>
              (i # in /\ Offers(i, o)) \/ (i = in /\ o = destDirn)
  <2>1. new.destDirn = destDirn
    OBVIOUS
  <2> HIDE DEF new
  <2> QED
    BY <1>6, <1>7, <2>1 DEF Offers
<1>9. Waiting' = {<<in, destDirn>>}
  <2>1. ASSUME NEW i \in Ports, NEW o \in Ports
        PROVE  Offers(i, o)' /\ clearingIndex'[o] # i <=> i = in /\ o = destDirn
    BY <1>1, <1>3, <1>5, <1>8, WaitingPair
  <2> QED
    BY <2>1 DEF Waiting
<1> QED
  BY <1>3, <1>5, <1>7, <1>8, <1>9

LEMMA PutIInv ==
  ASSUME SwitchInv, NEW in \in Ports, NEW destDirn \in Ports, NEW flit \in Flits,
         putFlit(in, flit, destDirn)
  PROVE  SwitchInv'
<1> DEFINE new == [flit |-> flit, destDirn |-> destDirn]
<1>1. /\ mrmwRegisters' = [mrmwRegisters EXCEPT ![in] = [o \in Ports |-> new]]
      /\ clearingIndex' = clearingIndex
      /\ cbBuffer' = 1
  BY DEF putFlit
<1>2. new \in SwitchFlit
  BY DEF SwitchFlit
<1>3. ASSUME NEW i \in Ports, NEW o \in Ports
      PROVE  mrmwRegisters'[i][o] = IF i = in THEN new ELSE mrmwRegisters[i][o]
  BY <1>1 DEF SwitchInv, SwitchTypeOK
<1> HIDE DEF new
<1>4. SwitchTypeOK'
  BY <1>1, <1>2 DEF SwitchInv, SwitchTypeOK
<1>5. OneFlitPerToken'
  BY <1>1, PutFacts DEF OneFlitPerToken
<1>6. RowsAgree'
  BY <1>3, PutFacts DEF SwitchInv, RowsAgree
<1>7. OfferedRowFull'
  BY PutFacts DEF SwitchInv, OfferedRowFull
<1>8. ClearingOffered'
  BY <1>1, PutFacts DEF SwitchInv, ClearingOffered
<1> QED
  BY <1>4, <1>5, <1>6, <1>7, <1>8 DEF SwitchInv

\* getFlit has exactly one input to choose from.
LEMMA GetFacts ==
  ASSUME SwitchInv, NEW out \in Ports, getFlit(out)
  PROVE  \E in \in Ports : /\ selection(out) = in
                           /\ Offers(in, out)
                           /\ clearingIndex[out] = NoIndex
                           /\ Waiting = {<<in, out>>} /\ Waiting' = {}
<1>1. /\ clearingIndex[out] = NoIndex
      /\ \E i \in Ports : Offers(i, out)
      /\ cbBuffer = 1
      /\ clearingIndex' = [clearingIndex EXCEPT ![out] = selection(out)]
      /\ mrmwRegisters' = mrmwRegisters
  BY DEF getFlit, isOutputReady
<1>2. PICK in \in Ports : Offers(in, out)
  BY <1>1
<1>3. \A i \in Ports : Offers(i, out) => <<i, out>> \in Waiting
  BY <1>1, PortFacts DEF Waiting
<1>4. Waiting = {<<in, out>>}
  <2>1. PICK p \in Waiting : Waiting = {p}
    BY <1>1 DEF SwitchInv, OneFlitPerToken
  <2> QED
    BY <1>2, <1>3, <2>1
<1>5. {i \in Ports : Offers(i, out)} = {in}
  BY <1>2, <1>3, <1>4
<1>6. selection(out) = in
  <2>1. \A x \in {in} : (\A y \in {in} : x >= y) <=> x = in
    BY PortFacts
  <2> QED
    BY <1>5, <2>1 DEF selection, Max
<1>7. Waiting' = {}
  <2> SUFFICES ASSUME NEW i \in Ports, NEW o \in Ports
               PROVE  ~(Offers(i, o)' /\ clearingIndex'[o] # i)
    BY DEF Waiting
  <2>1. Offers(i, o)' <=> Offers(i, o)
    BY <1>1 DEF Offers, isValid
  <2>2. clearingIndex'[o] = IF o = out THEN in ELSE clearingIndex[o]
    BY <1>1, <1>6 DEF SwitchInv, SwitchTypeOK
  <2>3. Offers(i, o) /\ clearingIndex[o] # i => i = in /\ o = out
    BY <1>4, WaitingPair
  <2> QED
    BY <1>1, <2>1, <2>2, <2>3, PortFacts
<1> QED
  BY <1>1, <1>2, <1>4, <1>6, <1>7

LEMMA GetIInv == ASSUME SwitchInv, NEW out \in Ports, getFlit(out)
                 PROVE  SwitchInv'
<1>1. PICK in \in Ports : /\ selection(out) = in /\ Offers(in, out)
                          /\ Waiting = {<<in, out>>} /\ Waiting' = {}
  BY GetFacts
<1>2. /\ clearingIndex' = [clearingIndex EXCEPT ![out] = in]
      /\ cbBuffer' = 0
      /\ mrmwRegisters' = mrmwRegisters
  BY <1>1 DEF getFlit
<1>3. SwitchTypeOK' /\ OneFlitPerToken'
  BY <1>1, <1>2 DEF SwitchInv, SwitchTypeOK, OneFlitPerToken
<1>4. RowsAgree' /\ OfferedRowFull'
  BY <1>2 DEF SwitchInv, RowsAgree, OfferedRowFull, Offers, isValid
<1>5. ClearingOffered'
  BY <1>1, <1>2 DEF SwitchInv, SwitchTypeOK, ClearingOffered, Offers, isValid
<1> QED
  BY <1>3, <1>4, <1>5 DEF SwitchInv

\* Clearing a register leaves every other offer alone.
LEMMA ClearFacts ==
  ASSUME SwitchInv, NEW out \in Ports, clearingIndexRule(out)
  PROVE  \E in \in Ports :
           /\ clearingIndex[out] = in /\ Offers(in, out)
           /\ \A i, o \in Ports : isValid(i, o)' <=> isValid(i, o) /\ ~(i = in /\ o = out)
           /\ \A i, o \in Ports : Offers(i, o)' <=> Offers(i, o) /\ ~(i = in /\ o = out)
           /\ \A i, o \in Ports : Offers(i, o)' => i # in
           /\ Waiting' = Waiting
<1> DEFINE in == clearingIndex[out]
<1>1. /\ in \in Ports
      /\ mrmwRegisters' = [mrmwRegisters EXCEPT ![in][out] = Invalid]
      /\ clearingIndex' = [clearingIndex EXCEPT ![out] = NoIndex]
  BY DEF clearingIndexRule, SwitchInv, SwitchTypeOK
<1>2. Offers(in, out)
  BY <1>1 DEF SwitchInv, ClearingOffered
<1>3. ASSUME NEW i \in Ports, NEW o \in Ports
      PROVE  mrmwRegisters'[i][o]
               = IF i = in /\ o = out THEN Invalid ELSE mrmwRegisters[i][o]
  BY <1>1 DEF SwitchInv, SwitchTypeOK
<1>4. \A i, o \in Ports : isValid(i, o)' <=> isValid(i, o) /\ ~(i = in /\ o = out)
  BY <1>3 DEF isValid
<1>5. \A i, o \in Ports : Offers(i, o)' <=> Offers(i, o) /\ ~(i = in /\ o = out)
  BY <1>3, <1>4 DEF Offers
<1>6. \A o \in Ports : Offers(in, o) => o = out
  BY <1>1, <1>2 DEF SwitchInv, RowsAgree, Offers
<1>7. Waiting' = Waiting
  <2> SUFFICES ASSUME NEW i \in Ports, NEW o \in Ports
               PROVE  Offers(i, o)' /\ clearingIndex'[o] # i
                        <=> Offers(i, o) /\ clearingIndex[o] # i
    BY DEF Waiting
  <2>1. clearingIndex'[o] = IF o = out THEN NoIndex ELSE clearingIndex[o]
    BY <1>1 DEF SwitchInv, SwitchTypeOK
  <2>2. CASE o # out
    BY <1>5, <2>1, <2>2
  <2>3. CASE o = out
    BY <1>5, <2>1, <2>3, PortFacts
  <2> QED
    BY <2>2, <2>3
<1> QED
  BY <1>1, <1>2, <1>4, <1>5, <1>6, <1>7

LEMMA ClearIInv == ASSUME SwitchInv, NEW out \in Ports, clearingIndexRule(out)
                   PROVE  SwitchInv'
<1>1. PICK in \in Ports :
        /\ clearingIndex[out] = in /\ Offers(in, out)
        /\ \A i, o \in Ports : isValid(i, o)' <=> isValid(i, o) /\ ~(i = in /\ o = out)
        /\ \A i, o \in Ports : Offers(i, o)' <=> Offers(i, o) /\ ~(i = in /\ o = out)
        /\ \A i, o \in Ports : Offers(i, o)' => i # in
        /\ Waiting' = Waiting
  BY ClearFacts
<1>2. /\ mrmwRegisters' = [mrmwRegisters EXCEPT ![in][out] = Invalid]
      /\ clearingIndex' = [clearingIndex EXCEPT ![out] = NoIndex]
      /\ cbBuffer' = cbBuffer
  BY <1>1 DEF clearingIndexRule
<1>3. SwitchTypeOK'
  BY <1>2 DEF SwitchInv, SwitchTypeOK
<1>4. OneFlitPerToken'
  BY <1>1, <1>2 DEF SwitchInv, OneFlitPerToken
<1>5. RowsAgree'
  <2>1. ASSUME NEW i \in Ports, NEW o \in Ports, isValid(i, o)'
        PROVE  isValid(i, o) /\ mrmwRegisters'[i][o] = mrmwRegisters[i][o]
    BY <1>1, <1>2, <2>1 DEF SwitchInv, SwitchTypeOK
  <2> QED
    BY <2>1 DEF SwitchInv, RowsAgree
<1>6. OfferedRowFull'
  BY <1>1 DEF SwitchInv, OfferedRowFull
<1>7. ClearingOffered'
  <2> SUFFICES ASSUME NEW i \in Ports, NEW o \in Ports, clearingIndex'[o] = i
               PROVE  Offers(i, o)'
    BY DEF ClearingOffered
  <2>1. o # out /\ clearingIndex[o] = i
    BY <1>2, PortFacts DEF SwitchInv, SwitchTypeOK
  <2> QED
    BY <1>1, <2>1 DEF SwitchInv, ClearingOffered
<1> QED
  BY <1>3, <1>4, <1>5, <1>6, <1>7 DEF SwitchInv

LEMMA NextSwitchInv == SwitchInv /\ [SwitchNext]_switchVars => SwitchInv'
<1> SUFFICES ASSUME SwitchInv, [SwitchNext]_switchVars PROVE SwitchInv'
  OBVIOUS
<1>1. ASSUME NEW in \in Ports, NEW destDirn \in Ports, NEW flit \in Flits,
             putFlit(in, flit, destDirn)
      PROVE  SwitchInv'
  BY <1>1, PutIInv
<1>2. ASSUME NEW out \in Ports, getFlit(out) PROVE SwitchInv'
  BY <1>2, GetIInv
<1>3. ASSUME NEW out \in Ports, clearingIndexRule(out) PROVE SwitchInv'
  BY <1>3, ClearIInv
<1>4. CASE UNCHANGED switchVars
  <2>1. UNCHANGED <<mrmwRegisters, clearingIndex, cbBuffer>>
    BY <1>4 DEF switchVars
  <2>2. \A i, o \in Ports : isValid(i, o)' = isValid(i, o) /\ Offers(i, o)' = Offers(i, o)
    BY <2>1 DEF Offers, isValid
  <2>3. SwitchTypeOK'
    BY <2>1 DEF SwitchInv, SwitchTypeOK
  <2>4. OneFlitPerToken'
    BY <2>1 DEF SwitchInv, OneFlitPerToken, Waiting, Offers, isValid
  <2>5. RowsAgree'
    BY <2>1, <2>2 DEF SwitchInv, RowsAgree
  <2>6. OfferedRowFull' /\ ClearingOffered'
    BY <2>1, <2>2 DEF SwitchInv, OfferedRowFull, ClearingOffered
  <2> QED
    BY <2>3, <2>4, <2>5, <2>6 DEF SwitchInv
<1> QED
  BY <1>1, <1>2, <1>3, <1>4 DEF SwitchNext

-----------------------------------------------------------------------------
\* The inductive invariant of the crossbar holds in every reachable state:
\* among the rest, a flit waits exactly when cbBuffer holds a token.
THEOREM CrossbarIInv == SwitchSpec => []SwitchInv
  BY InitSwitchInv, NextSwitchInv, PTL DEF SwitchSpec

\* Type correctness of the crossbar's registers.
THEOREM CrossbarTypeOK == SwitchSpec => []SwitchTypeOK
<1>1. SwitchInv => SwitchTypeOK
  BY DEF SwitchInv
<1> QED
  BY <1>1, CrossbarIInv, PTL

\* An input that cannot write is one whose flit waits or is being cleared:
\* stale registers never lock a port out.
THEOREM CrossbarInputFree == SwitchSpec => []InputFree
<1>1. SwitchInv => InputFree
  <2> SUFFICES ASSUME SwitchInv, NEW i \in Ports, ~isInputEmpty(i)
               PROVE  \E o \in Ports : <<i, o>> \in Waiting \/ clearingIndex[o] = i
    BY DEF InputFree
  <2>1. \A o \in Ports : isValid(i, o) /\ mrmwRegisters[i][o] \in SwitchFlit
    BY DEF isInputEmpty, isValid, SwitchInv, SwitchTypeOK
  <2>2. 0 \in Ports
    BY NumPortsAssumption DEF Ports
  <2>3. PICK d \in Ports : mrmwRegisters[i][0].destDirn = d
    BY <2>1, <2>2 DEF SwitchFlit
  <2>4. Offers(i, d)
    BY <2>1, <2>2, <2>3 DEF SwitchInv, RowsAgree, Offers
  <2> QED
    BY <2>4 DEF Waiting
<1> QED
  BY <1>1, CrossbarIInv, PTL

-----------------------------------------------------------------------------
\* The refinement.

\* How the slot of the refinement mapping reads.
SlotShape ==
  /\ Waiting = {} => SlotOf = Invalid
  /\ \A i, o \in Ports : Waiting = {<<i, o>>} =>
       SlotOf = [in |-> i, flit |-> mrmwRegisters[i][o].flit, out |-> o]

LEMMA SlotFacts == SlotShape
<1>1. ASSUME NEW i \in Ports, NEW o \in Ports, Waiting = {<<i, o>>}
      PROVE  SlotOf = [in |-> i, flit |-> mrmwRegisters[i][o].flit, out |-> o]
  <2>1. (CHOOSE p \in Waiting : TRUE) = <<i, o>>
    BY <1>1
  <2> QED
    BY <1>1, <2>1 DEF SlotOf
<1> QED
  BY <1>1 DEF SlotOf, SlotShape

\* The register matrix implements a switch that holds one flit: whatever
\* putFlit, getFlit and clearingIndexRule do, in any order, is a step of
\* OneFlitSwitch or no step at all.
THEOREM CrossbarImplementsOneFlitSwitch == SwitchSpec => ImplementsOneFlitSwitch
<1>1. SwitchInit => Switch!Init
  <2> SUFFICES ASSUME SwitchInit PROVE Switch!Init
    OBVIOUS
  <2>1. Waiting = {}
    BY DEF SwitchInit, Waiting, Offers, isValid
  <2> QED
    BY <2>1, SlotFacts DEF SlotShape, SwitchInit, Switch!Init
<1>2. SwitchInv /\ [SwitchNext]_switchVars => [Switch!Next]_(Switch!vars)
  <2> SUFFICES ASSUME SwitchInv, [SwitchNext]_switchVars PROVE [Switch!Next]_(Switch!vars)
    OBVIOUS
  <2>1. ASSUME NEW in \in Ports, NEW destDirn \in Ports, NEW flit \in Flits,
               putFlit(in, flit, destDirn)
        PROVE  Switch!putFlit(in, flit, destDirn)
    <3>1. /\ Waiting = {} /\ Waiting' = {<<in, destDirn>>}
          /\ \A o \in Ports : clearingIndex[o] # in
      BY <2>1, PutFacts
    <3>2. mrmwRegisters'[in][destDirn].flit = flit
      BY <2>1 DEF putFlit, SwitchInv, SwitchTypeOK
    <3>3. SlotOf = Invalid
      BY <3>1, SlotFacts DEF SlotShape
    <3>4. SlotOf' = [in |-> in, flit |-> flit, out |-> destDirn]
      <4>1. SlotShape'
        BY SlotFacts, PTL
      <4> QED
        BY <3>1, <3>2, <4>1 DEF SlotShape
    <3> QED
      BY <2>1, <3>1, <3>3, <3>4 DEF putFlit, Switch!putFlit, Switch!Put, Switch!CanPut
  <2>2. ASSUME NEW out \in Ports, getFlit(out) PROVE Switch!getFlit(out)
    <3>1. PICK in \in Ports : /\ selection(out) = in /\ Offers(in, out)
                              /\ clearingIndex[out] = NoIndex
                              /\ Waiting = {<<in, out>>} /\ Waiting' = {}
      BY <2>2, GetFacts
    <3>2. SlotOf = [in |-> in, flit |-> mrmwRegisters[in][out].flit, out |-> out]
      BY <3>1, SlotFacts DEF SlotShape
    <3>3. mrmwRegisters[in][out].flit \in Flits
      BY <3>1 DEF SwitchInv, SwitchTypeOK, Offers, isValid, SwitchFlit
    <3>4. SlotOf # Invalid
      BY <3>2, <3>3, InvalidAssumption
    <3>5. SlotOf' = Invalid
      <4>1. SlotShape'
        BY SlotFacts, PTL
      <4> QED
        BY <3>1, <4>1 DEF SlotShape
    <3> QED
      BY <2>2, <3>1, <3>2, <3>4, <3>5 DEF getFlit, Switch!getFlit, Switch!Take, Switch!CanTake
  <2>3. ASSUME NEW out \in Ports, clearingIndexRule(out) PROVE Switch!clear(out)
    <3>1. PICK in \in Ports : clearingIndex[out] = in /\ Waiting' = Waiting
      BY <2>3, ClearFacts
    <3>2. \A i, o \in Ports : <<i, o>> \in Waiting =>
            mrmwRegisters'[i][o] = mrmwRegisters[i][o]
      BY <2>3, <3>1 DEF clearingIndexRule, SwitchInv, SwitchTypeOK, Waiting
    <3>3. SlotOf' = SlotOf
      <4>1. CASE Waiting = {}
        BY <3>1, <4>1 DEF SlotOf
      <4>2. CASE Waiting # {}
        <5>1. (CHOOSE p \in Waiting : TRUE) \in Waiting
          BY <4>2
        <5>2. \A p \in Waiting : mrmwRegisters'[p[1]][p[2]] = mrmwRegisters[p[1]][p[2]]
          BY <3>2 DEF Waiting
        <5> QED
          BY <3>1, <4>2, <5>1, <5>2 DEF SlotOf
      <4> QED
        BY <4>1, <4>2
    <3> QED
      BY <2>3, <3>3 DEF clearingIndexRule, Switch!clear, Switch!Clear
  <2>4. CASE UNCHANGED switchVars
    <3>1. SlotOf' = SlotOf
      BY <2>4 DEF switchVars, SlotOf, Waiting, Offers, isValid
    <3> QED
      BY <2>4, <3>1 DEF switchVars, Switch!vars
  <2> QED
    BY <2>1, <2>2, <2>3, <2>4 DEF SwitchNext, Switch!Next
<1> QED
  BY <1>1, <1>2, CrossbarIInv, PTL DEF SwitchSpec, ImplementsOneFlitSwitch, Switch!Spec

=============================================================================
