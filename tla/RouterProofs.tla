---------------------------- MODULE RouterProofs ----------------------------
(***************************************************************************)
(* For every place in the mesh, depth of the input buffers and traffic.    *)
(***************************************************************************)
EXTENDS Router, SequenceTheorems, WellFoundedInduction, TLAPS

-----------------------------------------------------------------------------
\* Picked.

\* Every set of numbers that is not empty has a least one: what stands here
\* for induction.
LEMMA LeastElement ==
  ASSUME NEW B \in SUBSET Nat, B # {}
  PROVE  \E m \in B : \A k \in B : m <= k
<1>1. PICK m \in B : \A k \in B : ~(<<k, m>> \in OpToRel(<, Nat))
  BY NatLessThanWellFounded, WFMin
<1>2. ASSUME NEW k \in B PROVE m <= k
  <2>1. k \in Nat /\ m \in Nat
    OBVIOUS
  <2>2. k < m => <<k, m>> \in OpToRel(<, Nat)
    BY <2>1, Zenon DEF OpToRel
  <2>3. ~(k < m)
    BY <1>1, <2>2, Zenon
  <2> QED
    BY <2>1, <2>3
<1> QED
  BY <1>2

\* g follows the equation of Picked as far as n.
Follows(g, s, S, n) ==
  /\ g[0] = <<>>
  /\ \A k \in 1 .. n : g[k] = IF s[k] \in S THEN Append(g[k - 1], s[k]) ELSE g[k - 1]

LEMMA PickedFunctionExists ==
  ASSUME NEW T, NEW s \in Seq(T), NEW S
  PROVE  \E g \in [0 .. Len(s) -> Seq(T)] : Follows(g, s, S, Len(s))
<1> DEFINE Fine(n) == \E g \in [0 .. n -> Seq(T)] : Follows(g, s, S, n)
           Bad == {n \in 0 .. Len(s) : ~Fine(n)}
<1> SUFFICES ASSUME Bad # {} PROVE FALSE
  OBVIOUS
<1>1. PICK m \in Bad : \A k \in Bad : m <= k
  <2>1. Bad \in SUBSET Nat
    OBVIOUS
  <2> HIDE DEF Bad
  <2> QED
    BY <2>1, LeastElement
<1>2. Fine(0)
  <2>1. [k \in 0 .. 0 |-> <<>>] \in [0 .. 0 -> Seq(T)]
    OBVIOUS
  <2>2. Follows([k \in 0 .. 0 |-> <<>>], s, S, 0)
    BY DEF Follows
  <2> QED
    BY <2>1, <2>2
<1>3. m \in 1 .. Len(s) /\ Fine(m - 1)
  <2>1. m # 0 /\ m \in 0 .. Len(s)
    BY <1>2
  <2>2. m - 1 \notin Bad /\ m - 1 \in 0 .. Len(s)
    <3> HIDE DEF Bad
    <3> QED
      BY <1>1, <2>1
  <2> QED
    BY <2>1, <2>2
<1>4. PICK g \in [0 .. m - 1 -> Seq(T)] : Follows(g, s, S, m - 1)
  BY <1>3
<1> DEFINE last == IF s[m] \in S THEN Append(g[m - 1], s[m]) ELSE g[m - 1]
           h == [k \in 0 .. m |-> IF k = m THEN last ELSE g[k]]
<1>5. s[m] \in T /\ g[m - 1] \in Seq(T)
  BY <1>3, <1>4
<1>6. last \in Seq(T)
  BY <1>5
<1>7. h \in [0 .. m -> Seq(T)]
  <2> HIDE DEF last
  <2> QED
    BY <1>3, <1>4, <1>6
<1>8. Follows(h, s, S, m)
  <2>1. h[0] = <<>>
    BY <1>3, <1>4 DEF Follows
  <2>2. ASSUME NEW k \in 1 .. m
        PROVE  h[k] = IF s[k] \in S THEN Append(h[k - 1], s[k]) ELSE h[k - 1]
    <3>1. CASE k = m
      BY <1>3, <3>1
    <3>2. CASE k # m
      <4>1. k \in 1 .. m - 1 /\ k - 1 \in 0 .. m - 1 /\ h[k] = g[k] /\ h[k - 1] = g[k - 1]
        BY <1>3, <3>2
      <4> QED
        BY <1>4, <4>1 DEF Follows
    <3> QED
      BY <3>1, <3>2
  <2> QED
    BY <2>1, <2>2 DEF Follows
<1> QED
  BY <1>1, <1>7, <1>8

\* Two functions that follow it agree, also when one sequence is longer.
LEMMA PickedFunctionUnique ==
  ASSUME NEW s, NEW t, NEW S, NEW n \in Nat, NEW g, NEW h,
         \A k \in 1 .. n : s[k] = t[k],
         Follows(g, s, S, n), Follows(h, t, S, n)
  PROVE  g[n] = h[n]
<1> DEFINE Bad == {k \in 0 .. n : g[k] # h[k]}
<1> SUFFICES ASSUME Bad # {} PROVE FALSE
  OBVIOUS
<1>1. PICK m \in Bad : \A k \in Bad : m <= k
  <2>1. Bad \in SUBSET Nat
    OBVIOUS
  <2> HIDE DEF Bad
  <2> QED
    BY <2>1, LeastElement
<1>2. m \in 1 .. n
  BY DEF Follows
<1>3. m - 1 \in 0 .. n /\ m - 1 \notin Bad
  BY <1>1, <1>2
<1>4. g[m - 1] = h[m - 1]
  BY <1>3
<1> QED
  BY <1>2, <1>4 DEF Follows

\* What Picked is, by such a function.
LEMMA PickedFollows ==
  ASSUME NEW T, NEW s \in Seq(T), NEW S
  PROVE  \E g \in [0 .. Len(s) -> Seq(T)] :
           Follows(g, s, S, Len(s)) /\ Picked(s, S) = g[Len(s)]
<1> DEFINE Body(g) == [k \in 0 .. Len(s) |-> IF k = 0 THEN <<>>
                         ELSE IF s[k] \in S THEN Append(g[k - 1], s[k]) ELSE g[k - 1]]
           f == CHOOSE g : g = Body(g)
<1>1. PICK g \in [0 .. Len(s) -> Seq(T)] : Follows(g, s, S, Len(s))
  BY PickedFunctionExists
<1>2. g = Body(g)
  <2>1. ASSUME NEW k \in 0 .. Len(s) PROVE g[k] = Body(g)[k]
    <3>1. k = 0 \/ k \in 1 .. Len(s)
      OBVIOUS
    <3>2. Body(g)[k] = IF k = 0 THEN <<>>
                       ELSE IF s[k] \in S THEN Append(g[k - 1], s[k]) ELSE g[k - 1]
      OBVIOUS
    <3> HIDE DEF Body
    <3> QED
      BY <1>1, <3>1, <3>2 DEF Follows
  <2>2. g = [k \in 0 .. Len(s) |-> g[k]]
    BY <1>1
  <2> QED
    BY <2>1, <2>2
<1>3. f = Body(f)
  <2> HIDE DEF Body
  <2> QED
    BY <1>2
<1>4. Picked(s, S) = f[Len(s)]
  BY DEF Picked
<1>5. Follows(f, s, S, Len(s))
  <2> HIDE DEF f
  <2>1. f[0] = <<>>
    BY <1>3
  <2>2. ASSUME NEW k \in 1 .. Len(s)
        PROVE  f[k] = IF s[k] \in S THEN Append(f[k - 1], s[k]) ELSE f[k - 1]
    <3>1. k \in 0 .. Len(s) /\ k # 0
      OBVIOUS
    <3>2. Body(f)[k] = IF s[k] \in S THEN Append(f[k - 1], s[k]) ELSE f[k - 1]
      BY <3>1
    <3> HIDE DEF Body
    <3> QED
      BY <1>3, <3>2
  <2> QED
    BY <2>1, <2>2 DEF Follows
<1>6. f[Len(s)] = g[Len(s)]
  <2> HIDE DEF f
  <2> QED
    BY <1>1, <1>5, PickedFunctionUnique
<1> QED
  BY <1>1, <1>4, <1>6

\* Nothing is picked from nothing, and a further element is picked last.
LEMMA PickedEmpty ==
  ASSUME NEW S PROVE Picked(<<>>, S) = <<>>
<1>1. <<>> \in Seq(Flit) /\ Len(<<>>) = 0
  OBVIOUS
<1>2. PICK g \in [0 .. Len(<<>>) -> Seq(Flit)] : Follows(g, <<>>, S, Len(<<>>)) /\ Picked(<<>>, S) = g[Len(<<>>)]
  BY <1>1, PickedFollows
<1> QED
  BY <1>1, <1>2 DEF Follows

LEMMA PickedAppend ==
  ASSUME NEW T, NEW s \in Seq(T), NEW x \in T, NEW S
  PROVE  Picked(Append(s, x), S) = IF x \in S THEN Append(Picked(s, S), x) ELSE Picked(s, S)
<1> DEFINE t == Append(s, x)
           n == Len(s)
<1>1. t \in Seq(T) /\ Len(t) = n + 1 /\ t[n + 1] = x /\ \A k \in 1 .. n : t[k] = s[k]
  OBVIOUS
<1> HIDE DEF t
<1>2. PICK g : Follows(g, s, S, n) /\ Picked(s, S) = g[n]
  BY PickedFollows
<1>3. PICK h : Follows(h, t, S, n + 1) /\ Picked(t, S) = h[n + 1]
  BY <1>1, PickedFollows
<1>4. Follows(h, t, S, n)
  BY <1>3 DEF Follows
<1>5. g[n] = h[n]
  BY <1>1, <1>2, <1>4, PickedFunctionUnique
<1>6. h[n + 1] = IF x \in S THEN Append(h[n], x) ELSE h[n]
  BY <1>1, <1>3 DEF Follows
<1> QED
  BY <1>2, <1>3, <1>5, <1>6 DEF t

-----------------------------------------------------------------------------
\* The arbiters.  What RouterPartsProofs has about matrices of any size is
\* used for those of the router; the variables of the arbiter's own model, and
\* the crossbar's matrix of registers, are of no concern here.
Arb == INSTANCE RouterPartsProofs
         WITH NumReq <- 5, inited <- inited, priorityBits <- priorityBits[0],
              request <- {}, response <- {}, waits <- <<>>,
              NumPorts <- 5, Flits <- {}, Invalid <- None,
              mrmwRegisters <- <<>>, clearingIndex <- <<>>, cbBuffer <- 0,
              delivered <- None

LEMMA PortFacts == Ports = 0 .. 4 /\ Ports = M!Idx
  BY DEF Ports, W!Ports, M!Idx

\* What the other half of RouterPartsProofs assumes holds with no flits at all.
LEMMA NoFlitsInTheOtherHalf ==
  5 \in 1 .. 7 /\ None \notin Arb!SwitchFlit \cup [in : Arb!Ports, flit : {}, out : Arb!Ports]
<1>1. Arb!SwitchFlit = {} /\ [in : Arb!Ports, flit : {}, out : Arb!Ports] = {}
  BY DEF Arb!SwitchFlit
<1> QED
  BY <1>1

\* An arbiter grants one of those that ask.
LEMMA GrantIsRequested ==
  ASSUME NEW P \in M!Matrix,
         \A a, b, c \in M!Idx : M!Beats(P, a, b) /\ M!Beats(P, b, c) => M!Beats(P, a, c),
         \A a \in M!Idx : P[a][a] = 0,
         NEW reqs \in SUBSET Ports, reqs # {},
         NEW idx \in M!getGrantIdx(P, reqs)
  PROVE  idx \in reqs
<1>1. /\ P \in Arb!Matrix /\ \A a \in Arb!Idx : P[a][a] = 0
      /\ \A a, b, c \in Arb!Idx : Arb!Beats(P, a, b) /\ Arb!Beats(P, b, c) => Arb!Beats(P, a, c)
      /\ reqs \in SUBSET Arb!Idx
  BY PortFacts DEF M!Matrix, M!Idx, M!Beats, M!PriBit, Arb!Matrix, Arb!Idx, Arb!Beats, Arb!PriBit
<1>2. PICK w \in reqs : Arb!Permitted(P, reqs) = {w}
  BY <1>1, Arb!OneWinner, NoFlitsInTheOtherHalf
<1>3. M!Permitted(P, reqs) = {w}
  BY <1>2 DEF M!Permitted, M!getPermitSignal, M!PriBit,
              Arb!Permitted, Arb!getPermitSignal, Arb!PriBit
<1>4. idx = M!Max({w})
  BY <1>3 DEF M!getGrantIdx
<1>5. M!Max({w}) = w
  <2>1. w \in Int
    BY PortFacts
  <2>2. \A x \in {w} : (\A y \in {w} : x >= y) <=> x = w
    BY <2>1
  <2> QED
    BY <2>2 DEF M!Max
<1> QED
  BY <1>4, <1>5

\* A grant leaves a matrix in order, and so does initialize.
LEMMA UpdateKeepsOrder ==
  ASSUME NEW P \in M!Matrix, NEW t \in Ports,
         \A a, b, c \in M!Idx : M!Beats(P, a, b) /\ M!Beats(P, b, c) => M!Beats(P, a, c),
         \A a \in M!Idx : P[a][a] = 0
  PROVE  LET Q == M!updatePriorityBits(P, t)
         IN  /\ Q \in M!Matrix
             /\ \A a, b, c \in M!Idx : M!Beats(Q, a, b) /\ M!Beats(Q, b, c) => M!Beats(Q, a, c)
             /\ \A a \in M!Idx : Q[a][a] = 0
<1> DEFINE Q == M!updatePriorityBits(P, t)
<1>1. Q = Arb!updatePriorityBits(P, t) /\ P \in Arb!Matrix /\ t \in Arb!Idx
  BY PortFacts DEF M!updatePriorityBits, Arb!updatePriorityBits, M!Idx, Arb!Idx, M!Matrix, Arb!Matrix
<1>2. /\ Q \in Arb!Matrix
      /\ \A a, b \in Arb!Idx : Arb!Beats(Q, a, b) <=> a # b /\ a # t /\ (b = t \/ Arb!Beats(P, a, b))
  BY <1>1, Arb!UpdateOrder, NoFlitsInTheOtherHalf
<1>3. Q \in M!Matrix /\ \A a \in M!Idx : Q[a][a] = 0
  <2>1. Q \in M!Matrix
    BY <1>2 DEF M!Matrix, Arb!Matrix, M!Idx, Arb!Idx
  <2>2. ASSUME NEW a \in M!Idx PROVE Q[a][a] = 0
    BY DEF M!updatePriorityBits
  <2> QED
    BY <2>1, <2>2
<1>4. \A a, b \in M!Idx : M!Beats(Q, a, b) <=> a # b /\ a # t /\ (b = t \/ M!Beats(P, a, b))
  <2> HIDE DEF Q
  <2> QED
    BY <1>2 DEF M!Beats, M!PriBit, M!Idx, Arb!Beats, Arb!PriBit, Arb!Idx
<1>5. \A a, b \in M!Idx : M!Beats(P, a, b) => ~M!Beats(P, b, a)
  BY DEF M!Beats, M!PriBit, M!Matrix, M!Idx
<1> HIDE DEF Q
<1>6. \A a, b, c \in M!Idx : M!Beats(Q, a, b) /\ M!Beats(Q, b, c) => M!Beats(Q, a, c)
  BY <1>4, <1>5
<1> QED
  BY <1>3, <1>6 DEF Q

LEMMA InitializeOrders ==
  ASSUME NEW P \in M!Matrix,
         \A a, b, c \in M!Idx : M!Beats(P, a, b) /\ M!Beats(P, b, c) => M!Beats(P, a, c)
  PROVE  LET Q == M!ClearDiagonal(P)
         IN  /\ Q \in M!Matrix
             /\ \A a, b, c \in M!Idx : M!Beats(Q, a, b) /\ M!Beats(Q, b, c) => M!Beats(Q, a, c)
             /\ \A a \in M!Idx : Q[a][a] = 0
<1> DEFINE Q == M!ClearDiagonal(P)
<1>1. Q \in M!Matrix /\ \A a \in M!Idx : Q[a][a] = 0
  BY DEF M!ClearDiagonal, M!Matrix
<1>2. \A a, b \in M!Idx : a # b => Q[a][b] = P[a][b]
  BY DEF M!ClearDiagonal, M!Matrix
<1> HIDE DEF Q
<1>3. \A a, b \in M!Idx : M!Beats(Q, a, b) <=> M!Beats(P, a, b)
  BY <1>2 DEF M!Beats, M!PriBit
<1>4. \A a, b \in M!Idx : M!Beats(P, a, b) => a # b
  BY DEF M!Beats
<1>5. \A a, b \in M!Idx : M!Beats(P, a, b) => ~M!Beats(P, b, a)
  BY DEF M!Beats, M!PriBit, M!Matrix, M!Idx
<1> QED
  BY <1>1, <1>3 DEF Q

-----------------------------------------------------------------------------
\* What the invariant says of a buffer.

taken(p) == Len(sent[p]) - Len(inputBuffer[p])

\* What has left a buffer is the beginning of what was put in, what is in it
\* the rest.
LEMMA BufferFacts ==
  ASSUME TypeOK, BuffersHoldTheRest, NEW p \in Ports
  PROVE  /\ sent[p] \in Seq(Flit) /\ inputBuffer[p] \in Seq(Flit) /\ Consumed(p) \in Seq(Flit)
         /\ Len(sent[p]) \in Nat /\ Len(inputBuffer[p]) \in Nat
         /\ taken(p) \in Nat /\ taken(p) <= Len(sent[p]) /\ Len(Consumed(p)) = taken(p)
         /\ \A k \in 1 .. taken(p) : Consumed(p)[k] = sent[p][k]
         /\ \A i \in 1 .. Len(inputBuffer[p]) : inputBuffer[p][i] = sent[p][taken(p) + i]
<1> DEFINE S == sent[p]
           B == inputBuffer[p]
           C == Consumed(p)
<1>1. S \in Seq(Flit) /\ B \in Seq(Flit) /\ Len(S) \in Nat /\ Len(B) \in Nat
  BY DEF TypeOK
<1>2. C \in Seq(Flit)
  <2>1. C = SubSeq(S, 1, taken(p)) /\ taken(p) \in Int
    BY <1>1 DEF Consumed, taken
  <2>2. \A x, y \in Nat : x - y <= x
    OBVIOUS
  <2>3. taken(p) <= Len(S)
    BY <1>1, <2>2 DEF taken
  <2>4. \A k \in 1 .. taken(p) : S[k] \in Flit
    BY <1>1, <2>1, <2>3
  <2> HIDE DEF S
  <2> QED
    BY <2>1, <2>4, SubSeqProperties
<1>3. S = C \o B
  BY DEF BuffersHoldTheRest
<1>4. taken(p) = Len(S) - Len(B)
  BY DEF taken
<1> HIDE DEF S, B, C
<1>5. Len(C) \in Nat /\ Len(S) = Len(C) + Len(B)
  BY <1>1, <1>2, <1>3
<1>6. taken(p) = Len(C) /\ taken(p) <= Len(S)
  BY <1>1, <1>4, <1>5
<1>7. \A k \in 1 .. Len(C) : C[k] = S[k]
  BY <1>1, <1>2, <1>3, <1>5
<1>8. \A i \in 1 .. Len(B) : B[i] = S[Len(C) + i]
  BY <1>1, <1>2, <1>3, <1>5
<1> QED
  BY <1>1, <1>2, <1>5, <1>6, <1>7, <1>8 DEF S, B, C

\* Where what was put in is cut in two tells the two parts.
LEMMA WhereItIsCut ==
  ASSUME TypeOK', NEW p \in Ports, NEW C \in Seq(Flit), sent[p]' = C \o inputBuffer[p]'
  PROVE  Consumed(p)' = C
<1> DEFINE S == sent[p]'
           B == inputBuffer[p]'
<1>1. S \in Seq(Flit) /\ B \in Seq(Flit) /\ Len(S) \in Nat /\ Len(B) \in Nat
  BY DEF TypeOK
<1>2. Len(C) \in Nat /\ S = C \o B
  OBVIOUS
<1>3. Consumed(p)' = SubSeq(S, 1, Len(S) - Len(B))
  BY DEF Consumed
<1> HIDE DEF S, B
<1>4. Len(S) - Len(B) = Len(C)
  BY <1>1, <1>2
<1>5. \A k \in 1 .. Len(C) : S[k] = C[k] /\ S[k] \in Flit
  BY <1>1, <1>2
<1>6. /\ SubSeq(S, 1, Len(C)) \in Seq(Flit)
      /\ Len(SubSeq(S, 1, Len(C))) = Len(C)
      /\ \A i \in 1 .. Len(C) : SubSeq(S, 1, Len(C))[i] = S[i]
  BY <1>2, <1>5, SubSeqProperties
<1>7. SubSeq(S, 1, Len(C)) = C
  BY <1>5, <1>6, SeqEqual
<1> QED
  BY <1>3, <1>4, <1>7

\* The first flit of a buffer is a HEAD exactly when no message of this input
\* is under way; otherwise it is the next flit of that message.
LEMMA FirstFlit ==
  ASSUME TypeOK, BuffersHoldTheRest, NEW p \in Ports, notEmpty(p)
  PROVE  /\ Head(inputBuffer[p]) = sent[p][taken(p) + 1]
         /\ Head(inputBuffer[p]) \in Flit /\ Head(inputBuffer[p]).src = p
         /\ newHeadFlit(p) <=> ~UnderWay(p)
         /\ UnderWay(p) =>
              Last(Consumed(p)) \in Flit /\ Continues(Head(inputBuffer[p]), Last(Consumed(p)))
<1> DEFINE f == Head(inputBuffer[p])
           n == taken(p)
<1>1. /\ sent[p] \in Seq(Flit) /\ n \in Nat /\ n + 1 \in 1 .. Len(sent[p])
      /\ f = sent[p][n + 1]
  <2>1. inputBuffer[p] \in Seq(Flit) /\ inputBuffer[p] # <<>>
    BY BufferFacts DEF notEmpty
  <2>2. Len(inputBuffer[p]) \in Nat \ {0} /\ f = inputBuffer[p][1]
    BY <2>1
  <2>3. /\ sent[p] \in Seq(Flit) /\ Len(sent[p]) \in Nat
        /\ taken(p) \in Nat /\ taken(p) + 1 <= Len(sent[p])
    <3>1. sent[p] \in Seq(Flit) /\ Len(sent[p]) \in Nat /\ taken(p) \in Nat
      BY BufferFacts
    <3>2. taken(p) + 1 <= Len(sent[p])
      BY <2>2, <3>1 DEF taken
    <3> QED
      BY <3>1, <3>2
  <2>4. inputBuffer[p][1] = sent[p][taken(p) + 1]
    BY <2>2, BufferFacts
  <2> QED
    BY <2>2, <2>3, <2>4
<1> HIDE DEF f, n
<1>2. f \in Flit /\ f.src = p
  <2>1. \A k \in 1 .. Len(sent[p]) : sent[p][k].src = p
    BY DEF BuffersHoldTheRest
  <2> QED
    BY <1>1, <2>1
<1>3. /\ Consumed(p) # <<>> <=> n > 0
      /\ n > 0 => Last(Consumed(p)) = sent[p][n] /\ sent[p][n] \in Flit
  <2>1. Consumed(p) \in Seq(Flit) /\ Len(Consumed(p)) = n
    BY BufferFacts DEF n
  <2>2. n > 0 => Consumed(p)[n] = sent[p][n]
    BY <1>1, BufferFacts DEF n
  <2> QED
    BY <1>1, <2>1, <2>2 DEF Last
<1>4. IF f.flitType = "HEAD" THEN n > 0 => sent[p][n].flitType = "TAIL"
      ELSE n > 0 /\ Continues(f, sent[p][n])
  <2>1. WholeMessages(sent[p])
    BY DEF BuffersHoldTheRest
  <2>2. n + 1 - 1 = n /\ (n + 1 > 1 <=> n > 0)
    BY <1>1
  <2>3. IF f.flitType = "HEAD" THEN n + 1 > 1 => sent[p][n + 1 - 1].flitType = "TAIL"
        ELSE n + 1 > 1 /\ Continues(f, sent[p][n + 1 - 1])
    BY <1>1, <2>1 DEF WholeMessages
  <2> QED
    BY <2>2, <2>3
<1>5. newHeadFlit(p) <=> f.flitType = "HEAD"
  BY DEF newHeadFlit, f
<1>6. newHeadFlit(p) <=> ~UnderWay(p)
  BY <1>1, <1>3, <1>4, <1>5 DEF UnderWay, Continues
<1>7. UnderWay(p) => Last(Consumed(p)) \in Flit /\ Continues(f, Last(Consumed(p)))
  BY <1>3, <1>4, <1>5, <1>6 DEF UnderWay
<1> QED
  BY <1>1, <1>2, <1>6, <1>7 DEF f, n

-----------------------------------------------------------------------------
\* What the links and the crossbar do to the streams of flits.

LEMMA LastOfAppend ==
  ASSUME NEW T, NEW s \in Seq(T), NEW x \in T
  PROVE  Append(s, x) \in Seq(T) /\ Append(s, x) # <<>> /\ Last(Append(s, x)) = x
  BY DEF Last

LEMMA HeadMovesOver ==
  ASSUME NEW T, NEW s \in Seq(T), NEW t \in Seq(T), t # <<>>
  PROVE  s \o t = Append(s, Head(t)) \o Tail(t)
<1>1. Head(t) \in T /\ Tail(t) \in Seq(T) /\ t = <<Head(t)>> \o Tail(t)
  OBVIOUS
<1>2. (s \o <<Head(t)>>) \o Tail(t) = s \o (<<Head(t)>> \o Tail(t))
  BY <1>1, ConcatAssociative, <<Head(t)>> \in Seq(T)
<1>3. Append(s, Head(t)) = s \o <<Head(t)>>
  BY <1>1, AppendIsConcat
<1> QED
  BY <1>1, <1>2, <1>3

\* A flit that may come behind s when s is whole messages.
MayFollow(flit, s) == IF flit.flitType = "HEAD" THEN s # <<>> => Last(s).flitType = "TAIL"
                      ELSE s # <<>> /\ Continues(flit, Last(s))

LEMMA WholeMessagesAppend ==
  ASSUME NEW T, NEW s \in Seq(T), NEW x \in T
  PROVE  WholeMessages(Append(s, x)) <=> WholeMessages(s) /\ MayFollow(x, s)
<1> DEFINE t == Append(s, x)
           n == Len(s)
           Fine(u, k) == IF u[k].flitType = "HEAD" THEN k > 1 => u[k - 1].flitType = "TAIL"
                         ELSE k > 1 /\ Continues(u[k], u[k - 1])
<1>1. n \in Nat /\ Len(t) = n + 1 /\ t[n + 1] = x /\ \A k \in 1 .. n : t[k] = s[k]
  OBVIOUS
<1>2. (s # <<>> <=> n > 0) /\ Last(s) = s[n]
  BY DEF Last
<1>3. n > 0 => t[n] = s[n]
  BY <1>1
<1> HIDE DEF t, n
<1>4. ASSUME NEW k \in 1 .. n PROVE Fine(t, k) <=> Fine(s, k)
  <2>1. t[k] = s[k] /\ (k > 1 => t[k - 1] = s[k - 1])
    BY <1>1
  <2> QED
    BY <2>1
<1>5. Fine(t, n + 1) <=> MayFollow(x, s)
  <2>1. n + 1 - 1 = n /\ (n + 1 > 1 <=> s # <<>>)
    BY <1>1, <1>2
  <2> QED
    BY <1>1, <1>2, <1>3, <2>1 DEF MayFollow
<1>6. WholeMessages(t) <=> \A k \in 1 .. n + 1 : Fine(t, k)
  BY <1>1 DEF WholeMessages
<1>7. WholeMessages(s) <=> \A k \in 1 .. n : Fine(s, k)
  BY DEF WholeMessages, n
<1>8. (\A k \in 1 .. n + 1 : Fine(t, k)) <=> (\A k \in 1 .. n : Fine(t, k)) /\ Fine(t, n + 1)
  <2> HIDE DEF Fine
  <2>1. 1 .. n + 1 = (1 .. n) \cup {n + 1}
    BY <1>1
  <2> QED
    BY <2>1
<1> HIDE DEF Fine
<1> QED
  BY <1>4, <1>5, <1>6, <1>7, <1>8 DEF t

LEMMA DepartedType ==
  ASSUME TypeOK, NEW o \in Ports
  PROVE  /\ got[o] \in Seq(Flit) /\ outputLatch[o] \in Seq(Flit)
         /\ InCrossbar(o) \in Seq(Flit) /\ Departed(o) \in Seq(Flit)
<1>1. got[o] \in Seq(Flit) /\ outputLatch[o] \in Seq(Flit)
  BY DEF TypeOK
<1>2. InCrossbar(o) \in Seq(Flit)
  BY DEF TypeOK, InCrossbar, Slot
<1> QED
  BY <1>1, <1>2 DEF Departed

\* From the crossbar to the latch and from the latch to the link a flit
\* stays where it is among those that have left.
LEMMA LatchKeepsDeparted ==
  ASSUME TypeOK, NEW out \in Ports, NEW o \in Ports,
         rl_enqOutLatch(out) \/ getFlit(out) \/ clearingIndexRule(out)
  PROVE  Departed(o)' = Departed(o)
<1> USE DEF Departed, InCrossbar
<1>1. CASE rl_enqOutLatch(out)
  <2>1. /\ got' = got /\ cbSlot # None /\ cbSlot.out = out /\ cbSlot' = None
        /\ outputLatch[out] = <<>>
        /\ outputLatch' = [outputLatch EXCEPT ![out] = <<cbSlot.flit>>]
    BY <1>1 DEF rl_enqOutLatch, cb!Take, cb!CanTake
  <2>2. /\ got[o] \in Seq(Flit) /\ outputLatch \in [Ports -> Seq(Flit)]
        /\ cbSlot.flit \in Flit
    BY <2>1 DEF TypeOK, Slot
  <2>3. CASE o = out
    BY <2>1, <2>2, <2>3
  <2>4. CASE o # out
    BY <2>1, <2>2, <2>4
  <2> QED
    BY <2>3, <2>4
<1>2. CASE getFlit(out)
  <2>1. /\ cbSlot' = cbSlot /\ outputLatch[out] # <<>>
        /\ got' = [got EXCEPT ![out] = Append(@, Head(outputLatch[out]))]
        /\ outputLatch' = [outputLatch EXCEPT ![out] = Tail(@)]
    BY <1>2 DEF getFlit
  <2>2. got \in [Ports -> Seq(Flit)] /\ outputLatch \in [Ports -> Seq(Flit)]
    BY DEF TypeOK
  <2>3. CASE o = out
    <3>1. Len(outputLatch[o]) <= 1 /\ outputLatch[o] \in Seq(Flit)
      BY DEF TypeOK
    <3>2. PICK x \in Flit : outputLatch[o] = <<x>>
      <4>1. Len(outputLatch[o]) = 1
        <5>1. outputLatch[o] # <<>>
          BY <2>1, <2>3
        <5>2. \A s \in Seq(Flit) : s # <<>> => Len(s) \in Nat \ {0}
          BY EmptySeq
        <5>3. Len(outputLatch[o]) \in Nat \ {0}
          BY <3>1, <5>1, <5>2
        <5>4. \A n \in Nat \ {0} : n <= 1 => n = 1
          OBVIOUS
        <5> QED
          BY <3>1, <5>3, <5>4
      <4> QED
        BY <3>1, <4>1, SMTT(30)
    <3>3. got[o]' = Append(got[o], x) /\ outputLatch[o]' = <<>>
      BY <2>1, <2>2, <2>3, <3>2
    <3>4. InCrossbar(o)' = InCrossbar(o) /\ InCrossbar(o) \in Seq(Flit)
      BY <2>1, DepartedType
    <3> HIDE DEF InCrossbar
    <3>5. got[o] \in Seq(Flit)
      BY <2>2
    <3> QED
      BY <3>2, <3>3, <3>4, <3>5
  <2>4. CASE o # out
    BY <2>1, <2>2, <2>4
  <2> QED
    BY <2>3, <2>4
<1>3. CASE clearingIndexRule(out)
  BY <1>3 DEF clearingIndexRule, cb!Clear
<1> QED
  BY <1>1, <1>2, <1>3

\* What leaves a buffer is what comes behind all that has departed for its
\* output, and behind all that has left that buffer.
LEMMA TraversalMovesOne ==
  ASSUME TypeOK, TypeOK', BuffersHoldTheRest, NEW out \in Ports, rl_Switch_Traversal(out),
         NEW o \in Ports, NEW p \in Ports
  PROVE  LET winner == arbResBuf[out]
             flit   == Head(inputBuffer[winner])
         IN  /\ winner \in Ports /\ flit \in Flit /\ notEmpty(winner)
             /\ Departed(o)' = IF o = out THEN Append(Departed(o), flit) ELSE Departed(o)
             /\ Consumed(p)' = IF p = winner THEN Append(Consumed(p), flit) ELSE Consumed(p)
<1> DEFINE winner == arbResBuf[out]
           flit   == Head(inputBuffer[winner])
<1>1. /\ winner # None /\ notEmpty(winner)
      /\ cbSlot = None /\ cbSlot' = [in |-> winner, flit |-> flit, out |-> out]
      /\ inputBuffer' = [inputBuffer EXCEPT ![winner] = Tail(@)]
      /\ outputLatch' = outputLatch /\ got' = got /\ sent' = sent
  BY DEF rl_Switch_Traversal, cb!Put, cb!CanPut
<1>2. winner \in Ports
  BY <1>1 DEF TypeOK
<1>3. inputBuffer \in [Ports -> Seq(Flit)] /\ inputBuffer[winner] # <<>>
  BY <1>1 DEF TypeOK, notEmpty
<1>4. flit \in Flit
  BY <1>2, <1>3
<1> HIDE DEF winner, flit
<1>5. cbSlot' # None /\ cbSlot'.out = out /\ cbSlot'.flit = flit
  <2>1. cbSlot' \in Slot
    BY <1>1, <1>2, <1>4 DEF Slot
  <2> QED
    BY <1>1, <2>1, NoneAssumption
<1>6. Departed(o)' = IF o = out THEN Append(Departed(o), flit) ELSE Departed(o)
  <2>1. InCrossbar(o) = <<>> /\ InCrossbar(o)' = IF o = out THEN <<flit>> ELSE <<>>
    BY <1>1, <1>5 DEF InCrossbar
  <2>2. got[o] \in Seq(Flit) /\ outputLatch[o] \in Seq(Flit)
    BY DEF TypeOK
  <2>3. got[o]' = got[o] /\ outputLatch[o]' = outputLatch[o]
    BY <1>1
  <2> DEFINE s == got[o] \o outputLatch[o]
  <2>4. s \in Seq(Flit) /\ s \o <<>> = s /\ s \o <<flit>> = Append(s, flit)
    <3>1. s \in Seq(Flit)
      BY <2>2, ConcatProperties
    <3> HIDE DEF s
    <3>2. s \o <<>> = s
      BY <3>1, ConcatEmptySeq
    <3>3. s \o <<flit>> = Append(s, flit)
      BY <1>4, <3>1, AppendIsConcat
    <3> QED
      BY <3>1, <3>2, <3>3
  <2>5. Departed(o) = s \o InCrossbar(o) /\ Departed(o)' = s \o InCrossbar(o)'
    BY <2>3 DEF Departed
  <2> HIDE DEF s
  <2> QED
    BY <2>1, <2>4, <2>5
<1>7. CASE p = winner
  <2>1. inputBuffer[p] \in Seq(Flit) /\ inputBuffer[p] # <<>> /\ flit = Head(inputBuffer[p])
    BY <1>3, <1>7 DEF flit
  <2>2. inputBuffer[p]' = Tail(inputBuffer[p])
    BY <1>1, <1>3, <1>7
  <2>3. sent[p]' = Consumed(p) \o inputBuffer[p] /\ Consumed(p) \in Seq(Flit)
    BY <1>1, BufferFacts DEF BuffersHoldTheRest
  <2>4. sent[p]' = Append(Consumed(p), flit) \o inputBuffer[p]' /\ Append(Consumed(p), flit) \in Seq(Flit)
    <3>1. Consumed(p) \o inputBuffer[p] = Append(Consumed(p), flit) \o Tail(inputBuffer[p])
      BY <2>1, <2>3, HeadMovesOver
    <3>2. Append(Consumed(p), flit) \in Seq(Flit)
      BY <1>4, <2>3, AppendProperties
    <3> QED
      BY <2>2, <2>3, <3>1, <3>2
  <2>5. Consumed(p)' = Append(Consumed(p), flit)
    BY <2>4, WhereItIsCut
  <2> QED
    BY <1>1, <1>2, <1>4, <1>6, <1>7, <2>5 DEF winner, flit
<1>8. CASE p # winner
  <2>1. Consumed(p)' = Consumed(p)
    BY <1>1, <1>3, <1>8 DEF Consumed
  <2> QED
    BY <1>1, <1>2, <1>4, <1>6, <1>8, <2>1 DEF winner, flit
<1> QED
  BY <1>7, <1>8

-----------------------------------------------------------------------------
\* Each step keeps the invariant.

LEMMA StreamsStill ==
  ASSUME OwnersUnderWay, LastDepartedIsOwners, TypeOK, outputPortSource' = outputPortSource,
         \A p \in Ports : Consumed(p)' = Consumed(p),
         \A o \in Ports : Departed(o)' = Departed(o)
  PROVE  OwnersUnderWay' /\ LastDepartedIsOwners'
<1>1. \A p \in Ports : UnderWay(p)' <=> UnderWay(p)
  BY DEF UnderWay
<1>2. OwnersUnderWay'
  BY <1>1 DEF OwnersUnderWay
<1>3. \A o \in Ports : outputPortSource[o] # None => outputPortSource[o] \in Ports
  BY DEF TypeOK
<1>4. LastDepartedIsOwners'
  BY <1>3 DEF LastDepartedIsOwners
<1> QED
  BY <1>2, <1>4

LEMMA InitIInv == Init => IInv
<1> SUFFICES ASSUME Init PROVE IInv
  OBVIOUS
<1> USE DEF Init
<1>1. M!ResetBits \in M!Matrix
  BY DEF M!ResetBits, M!Matrix
<1>2. TypeOK
  <2>1. {inputBuffer, outputLatch, sent, got} \subseteq [Ports -> Seq(Flit)]
    OBVIOUS
  <2>2. \A p \in Ports : Len(inputBuffer[p]) <= BufferDepth /\ Len(outputLatch[p]) <= 1
    BY RouterAssumption
  <2>3. {arbResBuf, outputPortSource, cbDraining} \subseteq [Ports -> Ports \cup {None}]
    OBVIOUS
  <2> QED
    BY <1>1, <2>1, <2>2, <2>3 DEF TypeOK
<1>3. \A p \in Ports : None # p
  BY RouterAssumption
<1>4. GrantsConsistent
  BY <1>3 DEF GrantsConsistent, Claims
<1>5. \A p \in Ports : Consumed(p) = <<>>
  BY SubSeqEmpty DEF Consumed
<1>6. \A o \in Ports : Departed(o) = <<>>
  BY DEF Departed, InCrossbar
<1>7. BuffersHoldTheRest
  BY <1>5 DEF BuffersHoldTheRest, WholeMessages
<1>8. OwnersUnderWay
  BY <1>3, <1>5 DEF OwnersUnderWay, UnderWay
<1>9. LastDepartedIsOwners
  BY <1>6 DEF LastDepartedIsOwners
<1>10. ArbitersOrdered
  <2>1. \A a, b \in M!Idx : M!Beats(M!ResetBits, a, b) <=> a < b
    BY DEF M!Beats, M!PriBit, M!ResetBits, M!Idx
  <2>2. \A a, b, c \in M!Idx : a < b /\ b < c => a < c
    BY DEF M!Idx
  <2> QED
    BY <2>1, <2>2 DEF ArbitersOrdered
<1> QED
  BY <1>2, <1>4, <1>7, <1>8, <1>9, <1>10 DEF IInv, RouterInv

LEMMA InitializeKeeps == ASSUME IInv, doInitialize PROVE IInv'
<1> USE DEF doInitialize, IInv, RouterInv
<1>1. \A o \in Ports : priorityBits[o] \in M!Matrix /\ priorityBits'[o] = M!ClearDiagonal(priorityBits[o])
  BY DEF TypeOK
<1>2. TypeOK'
  BY <1>1, InitializeOrders DEF TypeOK, ArbitersOrdered
<1>3. GrantsConsistent' /\ BuffersHoldTheRest'
  BY DEF GrantsConsistent, Claims, notEmpty, newHeadFlit, BuffersHoldTheRest, Consumed
<1>4. OwnersUnderWay' /\ LastDepartedIsOwners'
  BY StreamsStill DEF Consumed, Departed, InCrossbar
<1>5. ArbitersOrdered'
  BY <1>1, InitializeOrders DEF ArbitersOrdered
<1> QED
  BY <1>2, <1>3, <1>4, <1>5

LEMMA LatchKeeps ==
  ASSUME IInv, NEW o \in Ports, rl_enqOutLatch(o) \/ getFlit(o) \/ clearingIndexRule(o)
  PROVE  IInv'
<1> USE DEF IInv, RouterInv
<1>1. /\ inputBuffer' = inputBuffer /\ sent' = sent /\ arbResBuf' = arbResBuf
      /\ outputPortSource' = outputPortSource /\ priorityBits' = priorityBits /\ inited' = inited
  BY DEF rl_enqOutLatch, getFlit, clearingIndexRule
<1>2. TypeOK'
  <2>1. CASE rl_enqOutLatch(o)
    <3>1. /\ cbSlot \in Slot /\ cbSlot' = None /\ got' = got
          /\ outputLatch' = [outputLatch EXCEPT ![o] = <<cbSlot.flit>>]
          /\ cbDraining' = [cbDraining EXCEPT ![o] = cbSlot.in]
      BY <2>1 DEF rl_enqOutLatch, cb!Take, cb!CanTake, TypeOK
    <3>2. <<cbSlot.flit>> \in Seq(Flit) /\ Len(<<cbSlot.flit>>) = 1 /\ cbSlot.in \in Ports
      BY <3>1 DEF Slot
    <3>3. outputLatch' \in [Ports -> Seq(Flit)] /\ \A p \in Ports : Len(outputLatch'[p]) <= 1
      BY <3>1, <3>2 DEF TypeOK
    <3>4. cbDraining' \in [Ports -> Ports \cup {None}]
      BY <3>1, <3>2 DEF TypeOK
    <3> QED
      BY <1>1, <3>1, <3>3, <3>4 DEF TypeOK
  <2>2. CASE getFlit(o)
    <3>1. /\ cbSlot' = cbSlot /\ cbDraining' = cbDraining /\ outputLatch[o] # <<>>
          /\ outputLatch' = [outputLatch EXCEPT ![o] = Tail(@)]
          /\ got' = [got EXCEPT ![o] = Append(@, Head(outputLatch[o]))]
      BY <2>2 DEF getFlit
    <3>2. /\ outputLatch[o] \in Seq(Flit) /\ got[o] \in Seq(Flit) /\ Len(outputLatch[o]) <= 1
      BY DEF TypeOK
    <3>3. Tail(outputLatch[o]) \in Seq(Flit) /\ Len(Tail(outputLatch[o])) <= 1
      BY <3>1, <3>2
    <3>4. Append(got[o], Head(outputLatch[o])) \in Seq(Flit)
      BY <3>1, <3>2
    <3>5. outputLatch' \in [Ports -> Seq(Flit)] /\ \A p \in Ports : Len(outputLatch'[p]) <= 1
      BY <3>1, <3>3 DEF TypeOK
    <3>6. got' \in [Ports -> Seq(Flit)]
      BY <3>1, <3>4 DEF TypeOK
    <3> QED
      BY <1>1, <3>1, <3>5, <3>6 DEF TypeOK
  <2>3. CASE clearingIndexRule(o)
    <3>1. cbDraining' \in [Ports -> Ports \cup {None}]
      BY <2>3 DEF clearingIndexRule, cb!Clear, TypeOK
    <3> QED
      BY <2>3, <3>1 DEF clearingIndexRule, cb!Clear, TypeOK
  <2> QED
    BY <2>1, <2>2, <2>3
<1>3. GrantsConsistent' /\ BuffersHoldTheRest' /\ ArbitersOrdered'
  BY <1>1 DEF GrantsConsistent, Claims, notEmpty, newHeadFlit, BuffersHoldTheRest, Consumed,
              ArbitersOrdered
<1>4. OwnersUnderWay' /\ LastDepartedIsOwners'
  <2>1. \A p \in Ports : Departed(p)' = Departed(p)
    BY LatchKeepsDeparted
  <2>2. \A p \in Ports : Consumed(p)' = Consumed(p)
    BY <1>1 DEF Consumed
  <2> QED
    BY <1>1, <2>1, <2>2, StreamsStill
<1> QED
  BY <1>2, <1>3, <1>4

\* A flit that may come next at a port goes to the end of its buffer; the
\* first flit there, if there was one, stays the first.
LEMMA PutFlitKeeps ==
  ASSUME IInv, NEW port \in Ports, NEW flit \in Flit, putFlit(port, flit),
         flit.src = port, MayFollow(flit, sent[port])
  PROVE  /\ IInv'
         /\ \A p \in Ports : Consumed(p)' = Consumed(p)
         /\ \A o \in Ports : Departed(o)' = Departed(o)
<1> USE DEF IInv, RouterInv
<1>1. /\ inputBuffer' = [inputBuffer EXCEPT ![port] = Append(@, flit)]
      /\ sent' = [sent EXCEPT ![port] = Append(@, flit)]
      /\ Len(inputBuffer[port]) < BufferDepth
      /\ arbResBuf' = arbResBuf /\ outputPortSource' = outputPortSource
      /\ priorityBits' = priorityBits /\ inited' = inited /\ cbSlot' = cbSlot
      /\ cbDraining' = cbDraining /\ outputLatch' = outputLatch /\ got' = got
  BY DEF putFlit
<1>2. inputBuffer \in [Ports -> Seq(Flit)] /\ sent \in [Ports -> Seq(Flit)]
  BY DEF TypeOK
<1>3. \A p \in Ports : p # port => inputBuffer'[p] = inputBuffer[p] /\ sent'[p] = sent[p]
  BY <1>1, <1>2
<1>4. /\ inputBuffer'[port] = Append(inputBuffer[port], flit)
      /\ sent'[port] = Append(sent[port], flit)
  BY <1>1, <1>2
<1>5. TypeOK'
  <2>1. inputBuffer' \in [Ports -> Seq(Flit)] /\ sent' \in [Ports -> Seq(Flit)]
    BY <1>1, <1>2, AppendProperties
  <2>2. Len(inputBuffer'[port]) <= BufferDepth
    <3>1. Len(inputBuffer'[port]) = Len(inputBuffer[port]) + 1 /\ Len(inputBuffer[port]) \in Nat
      BY <1>2, <1>4, AppendProperties, LenProperties
    <3> QED
      BY <1>1, <3>1, RouterAssumption
  <2>3. \A p \in Ports : Len(inputBuffer'[p]) <= BufferDepth
    BY <1>3, <2>2 DEF TypeOK
  <2> QED
    BY <1>1, <2>1, <2>3 DEF TypeOK
<1>6. \A p \in Ports : sent'[p] = Consumed(p) \o inputBuffer'[p] /\ Consumed(p) \in Seq(Flit)
  <2>1. \A p \in Ports : sent[p] = Consumed(p) \o inputBuffer[p] /\ Consumed(p) \in Seq(Flit)
    BY BufferFacts DEF BuffersHoldTheRest
  <2>2. \A c, b \in Seq(Flit) : Append(c \o b, flit) = c \o Append(b, flit)
    OBVIOUS
  <2>3. inputBuffer[port] \in Seq(Flit)
    BY <1>2
  <2>4. sent'[port] = Consumed(port) \o inputBuffer'[port]
    <3>1. Append(Consumed(port) \o inputBuffer[port], flit)
            = Consumed(port) \o Append(inputBuffer[port], flit)
      BY <2>1, <2>2, <2>3
    <3>2. sent[port] = Consumed(port) \o inputBuffer[port]
      BY <2>1
    <3> QED
      BY <1>4, <3>1, <3>2, Zenon
  <2> QED
    BY <1>3, <2>1, <2>4
<1>7. \A p \in Ports : Consumed(p)' = Consumed(p)
  BY <1>5, <1>6, WhereItIsCut
<1>8. BuffersHoldTheRest'
  <2>1. ASSUME NEW p \in Ports PROVE WholeMessages(sent'[p])
    <3>1. CASE p = port
      <4>1. WholeMessages(sent[port]) /\ sent[port] \in Seq(Flit)
        BY <1>2 DEF BuffersHoldTheRest
      <4>2. WholeMessages(Append(sent[port], flit))
        BY <4>1, WholeMessagesAppend
      <4> QED
        BY <1>4, <3>1, <4>2
    <3>2. CASE p # port
      BY <1>3, <3>2 DEF BuffersHoldTheRest
    <3> QED
      BY <3>1, <3>2
  <2>2. ASSUME NEW p \in Ports, NEW k \in 1 .. Len(sent'[p]) PROVE sent'[p][k].src = p
    <3>1. CASE p = port
      <4>1. /\ Len(sent'[p]) = Len(sent[p]) + 1 /\ Len(sent[p]) \in Nat
            /\ \A i \in 1 .. Len(sent[p]) : sent'[p][i] = sent[p][i]
            /\ sent'[p][Len(sent[p]) + 1] = flit
        <5>1. sent[p] \in Seq(Flit) /\ sent'[p] = Append(sent[p], flit)
          BY <1>2, <1>4, <3>1
        <5> QED
          BY <5>1, AppendProperties, LenProperties
      <4>2. k \in 1 .. Len(sent[p]) \/ k = Len(sent[p]) + 1
        BY <4>1
      <4> QED
        BY <3>1, <4>1, <4>2, SMTT(30) DEF BuffersHoldTheRest
    <3>2. CASE p # port
      BY <1>3, <3>2 DEF BuffersHoldTheRest
    <3> QED
      BY <3>1, <3>2
  <2> QED
    BY <1>6, <1>7, <2>1, <2>2 DEF BuffersHoldTheRest
<1>9. GrantsConsistent'
  <2>1. ASSUME NEW p \in Ports, notEmpty(p)
        PROVE  notEmpty(p)' /\ Head(inputBuffer'[p]) = Head(inputBuffer[p])
    <3>1. CASE p = port
      <4>1. /\ inputBuffer[p] \in Seq(Flit) /\ inputBuffer[p] # <<>>
            /\ inputBuffer'[p] = Append(inputBuffer[p], flit)
        BY <1>2, <1>4, <2>1, <3>1 DEF notEmpty
      <4> QED
        BY <4>1, HeadTailAppend, AppendProperties DEF notEmpty
    <3>2. CASE p # port
      BY <1>3, <2>1, <3>2 DEF notEmpty
    <3> QED
      BY <3>1, <3>2
  <2>2. \A p \in Ports : notEmpty(p) => (newHeadFlit(p)' <=> newHeadFlit(p))
    BY <2>1 DEF newHeadFlit
  <2>3. \A p \in Ports : Claims(p)' = Claims(p)
    BY <1>1 DEF Claims
  <2> QED
    BY <1>1, <2>1, <2>2, <2>3 DEF GrantsConsistent
<1>10. \A o \in Ports : Departed(o)' = Departed(o)
  BY <1>1 DEF Departed, InCrossbar
<1>11. OwnersUnderWay' /\ LastDepartedIsOwners'
  BY <1>1, <1>7, <1>10, StreamsStill
<1>12. ArbitersOrdered'
  BY <1>1 DEF ArbitersOrdered
<1> QED
  BY <1>5, <1>7, <1>8, <1>9, <1>10, <1>11, <1>12

LEMMA ContinuesSameCore ==
  ASSUME NEW last \in Flit, NEW flit, Continues(flit, last)
  PROVE  flit.core = last.core /\ flit.src = last.src
  BY DEF Continues, Flit

LEMMA NextOfMessage ==
  ASSUME NEW last \in Flit, NEW type \in {"BODY", "TAIL"}
  PROVE  LET next == [last EXCEPT !.flitType = type, !.place = @ + 1]
         IN  next \in Flit /\ next.src = last.src /\ next.flitType = type
<1>1. last.place + 1 \in Nat
  BY DEF Flit
<1> QED
  BY <1>1 DEF Flit

\* What comes in by a port is a HEAD behind a whole message, or the next flit
\* of the message begun.
LEMMA WhatComesIn ==
  ASSUME IInv, NEW p \in InPorts, NewMessage(p) \/ NextFlit(p)
  PROVE  /\ p \in Ports
         /\ \E flit \in Flit : putFlit(p, flit) /\ flit.src = p /\ MayFollow(flit, sent[p])
<1>1. p \in Ports
  BY RouterAssumption
<1>2. sent[p] \in Seq(Flit)
  BY <1>1 DEF IInv, RouterInv, TypeOK
<1>3. sent[p] # <<>> => Last(sent[p]) \in Flit /\ Last(sent[p]).src = p
  <2> SUFFICES ASSUME sent[p] # <<>> PROVE Last(sent[p]) \in Flit /\ Last(sent[p]).src = p
    OBVIOUS
  <2>1. Len(sent[p]) \in 1 .. Len(sent[p])
    BY <1>2
  <2> QED
    BY <1>1, <1>2, <2>1 DEF Last, IInv, BuffersHoldTheRest
<1>4. CASE NewMessage(p)
  <2> DEFINE number == IF sent[p] = <<>> THEN 1 ELSE Last(sent[p]).msg + 1
             head(core) == [flitType |-> "HEAD", core |-> core, src |-> p,
                            msg |-> number, place |-> 1]
  <2>1. PICK core \in Dests[p] : putFlit(p, head(core))
    BY <1>4 DEF NewMessage
  <2>2. number \in Nat
    BY <1>3 DEF Flit
  <2>3. core \in 0 .. 15
    BY RouterAssumption
  <2> HIDE DEF number
  <2>4. head(core) \in Flit
    BY <1>1, <2>2, <2>3 DEF Flit
  <2>5. sent[p] # <<>> => Last(sent[p]).flitType = "TAIL"
    BY <1>4 DEF NewMessage, BetweenMessages
  <2> QED
    BY <1>1, <2>1, <2>4, <2>5 DEF MayFollow
<1>5. CASE NextFlit(p)
  <2>1. sent[p] # <<>> /\ Last(sent[p]).flitType # "TAIL"
    BY <1>5 DEF NextFlit, BetweenMessages
  <2> DEFINE last == Last(sent[p])
             next(type) == [last EXCEPT !.flitType = type, !.place = @ + 1]
  <2>2. PICK type \in {"BODY", "TAIL"} : putFlit(p, next(type))
    BY <1>5 DEF NextFlit
  <2> HIDE DEF last
  <2>3. last \in Flit /\ last.src = p /\ last.flitType # "TAIL"
    BY <1>3, <2>1 DEF last
  <2>4. next(type) \in Flit /\ next(type).src = p /\ next(type).flitType = type
    BY <2>3, NextOfMessage
  <2>5. Continues(next(type), last)
    BY <2>3, <2>4 DEF Continues
  <2> HIDE DEF next
  <2> QED
    BY <1>1, <2>1, <2>2, <2>4, <2>5 DEF last, MayFollow
<1> QED
  BY <1>4, <1>5

\* Whoever is granted an output has its first flit go there, and no other
\* output holds a claim to that flit.
LEMMA ArbitrationKeeps ==
  ASSUME IInv, NEW out \in Ports, rl_Switch_Arbitration(out) PROVE IInv'
<1> USE DEF IInv, RouterInv
<1>1. /\ inited /\ arbResBuf[out] = None
      /\ inited' = inited /\ inputBuffer' = inputBuffer /\ cbSlot' = cbSlot
      /\ cbDraining' = cbDraining /\ outputLatch' = outputLatch
      /\ outputPortSource' = outputPortSource /\ sent' = sent /\ got' = got
  BY DEF rl_Switch_Arbitration
<1>2. PICK g \in Ports :
        /\ arbResBuf' = [arbResBuf EXCEPT ![out] = g]
        /\ \/ outputPortSource[out] = None /\ g \in Request(out)
           \/ outputPortSource[out] = g /\ notEmpty(g)
        /\ \/ priorityBits' = [priorityBits EXCEPT ![out] = M!updatePriorityBits(@, g)]
           \/ priorityBits' = priorityBits
  <2>1. CASE outputPortSource[out] = None
    <3>1. PICK idx \in M!getGrantIdx(priorityBits[out], Request(out)) :
            /\ Request(out) # {}
            /\ arbResBuf' = [arbResBuf EXCEPT ![out] = idx]
            /\ priorityBits' = [priorityBits EXCEPT ![out] = M!updatePriorityBits(@, idx)]
      BY <2>1 DEF rl_Switch_Arbitration
    <3>2. Request(out) \in SUBSET Ports /\ priorityBits[out] \in M!Matrix
      BY DEF Request, TypeOK
    <3>3. idx \in Request(out)
      BY <1>1, <3>1, <3>2, GrantIsRequested DEF ArbitersOrdered
    <3> QED
      BY <2>1, <3>1, <3>2, <3>3
  <2>2. CASE outputPortSource[out] # None
    <3>1. outputPortSource[out] \in Ports
      BY <2>2 DEF TypeOK
    <3> QED
      BY <2>2, <3>1 DEF rl_Switch_Arbitration
  <2> QED
    BY <2>1, <2>2
<1>3. TypeOK' /\ ArbitersOrdered'
  <2>1. \A o \in Ports : priorityBits'[o] = priorityBits[o]
                         \/ priorityBits'[o] = M!updatePriorityBits(priorityBits[o], g)
    BY <1>2 DEF TypeOK
  <2>2. priorityBits' \in [Ports -> M!Matrix] /\ ArbitersOrdered'
    <3>1. ASSUME NEW o \in Ports
          PROVE  /\ priorityBits'[o] \in M!Matrix
                 /\ \A a, b, c \in M!Idx : M!Beats(priorityBits'[o], a, b) /\ M!Beats(priorityBits'[o], b, c)
                                             => M!Beats(priorityBits'[o], a, c)
                 /\ \A a \in M!Idx : priorityBits'[o][a][a] = 0
      <4>1. /\ priorityBits[o] \in M!Matrix
            /\ \A a, b, c \in M!Idx : M!Beats(priorityBits[o], a, b) /\ M!Beats(priorityBits[o], b, c)
                                        => M!Beats(priorityBits[o], a, c)
            /\ \A a \in M!Idx : priorityBits[o][a][a] = 0
        BY <1>1 DEF TypeOK, ArbitersOrdered
      <4>2. CASE priorityBits'[o] = priorityBits[o]
        BY <4>1, <4>2
      <4>3. CASE priorityBits'[o] = M!updatePriorityBits(priorityBits[o], g)
        BY <4>1, <4>3, UpdateKeepsOrder
      <4> QED
        BY <2>1, <4>2, <4>3
    <3>2. priorityBits' \in [Ports -> M!Matrix]
      <4>1. priorityBits' = [o \in Ports |-> priorityBits'[o]]
        <5>1. priorityBits = [o \in Ports |-> priorityBits[o]]
          BY DEF TypeOK
        <5> QED
          BY <1>2, <5>1
      <4> QED
        BY <3>1, <4>1
    <3> QED
      BY <1>1, <3>1, <3>2 DEF ArbitersOrdered
  <2>3. arbResBuf' \in [Ports -> Ports \cup {None}]
    BY <1>2 DEF TypeOK
  <2> QED
    BY <1>1, <2>2, <2>3 DEF TypeOK
<1>4. BuffersHoldTheRest'
  BY <1>1 DEF BuffersHoldTheRest, Consumed
<1>5. OwnersUnderWay' /\ LastDepartedIsOwners'
  BY <1>1, StreamsStill DEF Consumed, Departed, InCrossbar
<1>6. /\ notEmpty(g) /\ computeDestinationPort(Head(inputBuffer[g]).core) = out
      /\ IF outputPortSource[out] = None THEN newHeadFlit(g)
         ELSE outputPortSource[out] = g /\ ~newHeadFlit(g)
  <2>1. CASE outputPortSource[out] = None /\ g \in Request(out)
    BY <2>1 DEF Request, newHeadFlit
  <2>2. CASE outputPortSource[out] = g /\ notEmpty(g)
    <3>1. UnderWay(g) /\ computeDestinationPort(Last(Consumed(g)).core) = out
      BY <2>2 DEF OwnersUnderWay
    <3>2. Last(Consumed(g)) \in Flit /\ Continues(Head(inputBuffer[g]), Last(Consumed(g)))
          /\ ~newHeadFlit(g)
      BY <2>2, <3>1, FirstFlit
    <3>3. Head(inputBuffer[g]).core = Last(Consumed(g)).core
      BY <3>2, ContinuesSameCore
    <3>4. g # None
      BY RouterAssumption
    <3> QED
      BY <2>2, <3>1, <3>2, <3>3, <3>4
  <2> QED
    BY <1>2, <2>1, <2>2
<1>7. Claims(g) \subseteq {out}
  <2> SUFFICES ASSUME NEW o \in Claims(g) PROVE o = out
    OBVIOUS
  <2>1. o \in Ports
    BY DEF Claims
  <2>2. CASE arbResBuf[o] = g
    BY <1>6, <2>1, <2>2 DEF GrantsConsistent
  <2>3. CASE outputPortSource[o] = g
    <3>1. UnderWay(g) /\ computeDestinationPort(Last(Consumed(g)).core) = o
      BY <2>1, <2>3 DEF OwnersUnderWay
    <3>2. Last(Consumed(g)) \in Flit /\ Continues(Head(inputBuffer[g]), Last(Consumed(g)))
      BY <1>6, <3>1, FirstFlit
    <3>3. Head(inputBuffer[g]).core = Last(Consumed(g)).core
      BY <3>2, ContinuesSameCore
    <3> QED
      BY <1>6, <3>1, <3>3
  <2> QED
    BY <2>2, <2>3 DEF Claims
<1>8. GrantsConsistent'
  <2>1. \A o \in Ports : arbResBuf'[o] = IF o = out THEN g ELSE arbResBuf[o]
    BY <1>2 DEF TypeOK
  <2>2. ASSUME NEW p \in Ports PROVE \A o1, o2 \in Claims(p)' : o1 = o2
    <3>1. CASE p = g
      <4>1. Claims(p)' \subseteq {out}
        BY <1>1, <1>7, <2>1, <3>1 DEF Claims
      <4> QED
        BY <4>1
    <3>2. CASE p # g
      <4>1. Claims(p)' \subseteq Claims(p)
        BY <1>1, <2>1, <3>2 DEF Claims
      <4> QED
        BY <4>1 DEF GrantsConsistent
    <3> QED
      BY <3>1, <3>2
  <2>3. ASSUME NEW p \in Ports, NEW o \in Ports, arbResBuf'[o] = p
        PROVE  /\ notEmpty(p)'
               /\ computeDestinationPort(Head(inputBuffer'[p]).core) = o
               /\ IF outputPortSource'[o] = None THEN newHeadFlit(p)'
                  ELSE outputPortSource'[o] = p /\ ~newHeadFlit(p)'
    <3>1. CASE o = out
      BY <1>1, <1>6, <2>1, <2>3, <3>1 DEF notEmpty, newHeadFlit
    <3>2. CASE o # out
      BY <1>1, <2>1, <2>3, <3>2 DEF notEmpty, newHeadFlit, GrantsConsistent
    <3> QED
      BY <3>1, <3>2
  <2> QED
    BY <2>2, <2>3 DEF GrantsConsistent
<1> QED
  BY <1>3, <1>4, <1>5, <1>8

\* The flit a grant was for goes into the crossbar, and the output belongs
\* to its message for as long as that lasts.
LEMMA TraversalKeeps ==
  ASSUME IInv, NEW out \in Ports, rl_Switch_Traversal(out) PROVE IInv'
<1> USE DEF IInv, RouterInv
<1>0. PICK winner \in Ports, flit \in Flit :
        arbResBuf[out] = winner /\ notEmpty(winner) /\ Head(inputBuffer[winner]) = flit
  <2>1. arbResBuf[out] \in Ports /\ notEmpty(arbResBuf[out])
    BY DEF rl_Switch_Traversal, TypeOK
  <2>2. Head(inputBuffer[arbResBuf[out]]) \in Flit
    BY <2>1 DEF TypeOK, notEmpty
  <2> QED
    BY <2>1, <2>2
<1>1. /\ inited
      /\ cbSlot = None /\ cbSlot' = [in |-> winner, flit |-> flit, out |-> out]
      /\ inputBuffer' = [inputBuffer EXCEPT ![winner] = Tail(@)]
      /\ outputPortSource' = [outputPortSource EXCEPT ![out] = NewSource(flit, winner)]
      /\ arbResBuf' = [arbResBuf EXCEPT ![out] = None]
      /\ inited' = inited /\ priorityBits' = priorityBits /\ cbDraining' = cbDraining
      /\ outputLatch' = outputLatch /\ got' = got /\ sent' = sent
  BY <1>0 DEF rl_Switch_Traversal, cb!Put, cb!CanPut
<1>2. inputBuffer[winner] \in Seq(Flit) /\ inputBuffer[winner] # <<>>
  BY <1>0 DEF TypeOK, notEmpty
<1>4. /\ computeDestinationPort(flit.core) = out
      /\ IF outputPortSource[out] = None THEN newHeadFlit(winner)
         ELSE outputPortSource[out] = winner /\ ~newHeadFlit(winner)
  BY <1>0 DEF GrantsConsistent
<1>5. \A p \in Ports : p # None
  BY RouterAssumption
<1>6. TypeOK'
  <2>1. NewSource(flit, winner) \in Ports \cup {None}
    BY DEF NewSource
  <2>2. /\ outputPortSource' \in [Ports -> Ports \cup {None}]
        /\ arbResBuf' \in [Ports -> Ports \cup {None}]
    BY <1>1, <2>1 DEF TypeOK
  <2>3. Tail(inputBuffer[winner]) \in Seq(Flit) /\ Len(Tail(inputBuffer[winner])) <= BufferDepth
    <3>1. /\ Tail(inputBuffer[winner]) \in Seq(Flit)
          /\ Len(Tail(inputBuffer[winner])) = Len(inputBuffer[winner]) - 1
          /\ Len(inputBuffer[winner]) \in Nat
      BY <1>2, HeadTailProperties, LenProperties
    <3>2. Len(inputBuffer[winner]) <= BufferDepth
      BY <1>2 DEF TypeOK
    <3> QED
      BY <3>1, <3>2, RouterAssumption
  <2>4. inputBuffer' \in [Ports -> Seq(Flit)] /\ \A p \in Ports : Len(inputBuffer'[p]) <= BufferDepth
    BY <1>1, <1>2, <2>3 DEF TypeOK
  <2>5. cbSlot' \in Slot
    BY <1>1 DEF Slot
  <2> QED
    BY <1>1, <2>2, <2>4, <2>5 DEF TypeOK
<1>7. /\ \A o \in Ports : Departed(o)' = IF o = out THEN Append(Departed(o), flit) ELSE Departed(o)
      /\ \A p \in Ports : Consumed(p)' = IF p = winner THEN Append(Consumed(p), flit) ELSE Consumed(p)
  BY <1>0, <1>6, TraversalMovesOne
<1>8. /\ Last(Consumed(winner))' = flit
      /\ UnderWay(winner)' <=> flit.flitType # "TAIL"
      /\ Departed(out)' # <<>> /\ Last(Departed(out))' = flit
  <2>1. Consumed(winner) \in Seq(Flit) /\ Departed(out) \in Seq(Flit)
    BY BufferFacts, DepartedType
  <2>2. /\ Consumed(winner)' = Append(Consumed(winner), flit)
        /\ Departed(out)' = Append(Departed(out), flit)
    BY <1>7
  <2>3. /\ Append(Consumed(winner), flit) # <<>> /\ Last(Append(Consumed(winner), flit)) = flit
        /\ Append(Departed(out), flit) # <<>> /\ Last(Append(Departed(out), flit)) = flit
    BY <2>1, LastOfAppend
  <2> QED
    BY <2>2, <2>3 DEF UnderWay
<1>9. \A p \in Ports : p # winner => (UnderWay(p)' <=> UnderWay(p)) /\ Last(Consumed(p))' = Last(Consumed(p))
  BY <1>7 DEF UnderWay
<1>10. /\ \A o \in Ports : o # out => outputPortSource'[o] = outputPortSource[o]
                                     /\ arbResBuf'[o] = arbResBuf[o]
       /\ outputPortSource'[out] = NewSource(flit, winner) /\ arbResBuf'[out] = None
  BY <1>1 DEF TypeOK
<1>11. \A o \in Claims(winner) : o = out
  BY <1>0 DEF GrantsConsistent, Claims
<1>12. NewSource(flit, winner) = IF flit.flitType = "TAIL" THEN None ELSE winner
  BY DEF NewSource
<1>13. BuffersHoldTheRest'
  <2>1. ASSUME NEW p \in Ports PROVE sent'[p] = Consumed(p)' \o inputBuffer'[p]
    <3>1. sent[p] = Consumed(p) \o inputBuffer[p] /\ Consumed(p) \in Seq(Flit)
      BY BufferFacts DEF BuffersHoldTheRest
    <3>2. CASE p = winner
      <4>1. Consumed(p) \o inputBuffer[p] = Append(Consumed(p), flit) \o Tail(inputBuffer[p])
        <5>1. /\ inputBuffer[p] \in Seq(Flit) /\ inputBuffer[p] # <<>>
              /\ flit = Head(inputBuffer[p])
          BY <1>0, <1>2, <3>2
        <5>2. Consumed(p) \in Seq(Flit)
          BY <3>1
        <5> QED
          BY <5>1, <5>2, HeadMovesOver
      <4>2. inputBuffer'[p] = Tail(inputBuffer[p])
        BY <1>1, <3>2 DEF TypeOK
      <4> QED
        BY <1>1, <1>7, <3>1, <3>2, <4>1, <4>2
    <3>3. CASE p # winner
      <4>1. inputBuffer'[p] = inputBuffer[p]
        BY <1>1, <3>3 DEF TypeOK
      <4> QED
        BY <1>1, <1>7, <3>1, <3>3, <4>1
    <3> QED
      BY <3>2, <3>3
  <2> QED
    BY <1>1, <2>1 DEF BuffersHoldTheRest
<1>14. GrantsConsistent'
  <2>1. ASSUME NEW p \in Ports, NEW o \in Claims(p)' PROVE o \in Claims(p)
    <3>1. o \in Ports /\ (arbResBuf'[o] = p \/ outputPortSource'[o] = p)
      BY DEF Claims
    <3>2. CASE o = out
      <4>1. p = winner
        BY <1>5, <1>10, <1>12, <3>1, <3>2
      <4> QED
        BY <1>0, <3>2, <4>1 DEF Claims
    <3>3. CASE o # out
      BY <1>10, <3>1, <3>3 DEF Claims
    <3> QED
      BY <3>2, <3>3
  <2>2. \A p \in Ports : \A o1, o2 \in Claims(p)' : o1 = o2
    BY <2>1 DEF GrantsConsistent
  <2>3. ASSUME NEW p \in Ports, NEW o \in Ports, arbResBuf'[o] = p
        PROVE  /\ notEmpty(p)'
               /\ computeDestinationPort(Head(inputBuffer'[p]).core) = o
               /\ IF outputPortSource'[o] = None THEN newHeadFlit(p)'
                  ELSE outputPortSource'[o] = p /\ ~newHeadFlit(p)'
    <3>1. o # out
      BY <1>5, <1>10, <2>3
    <3>2. arbResBuf[o] = p /\ outputPortSource'[o] = outputPortSource[o]
      BY <1>10, <2>3, <3>1
    <3>3. p # winner
      BY <1>11, <3>1, <3>2 DEF Claims
    <3>4. inputBuffer'[p] = inputBuffer[p]
      BY <1>1, <3>3 DEF TypeOK
    <3> QED
      BY <3>2, <3>4 DEF GrantsConsistent, notEmpty, newHeadFlit
  <2> QED
    BY <2>2, <2>3 DEF GrantsConsistent
<1>15. OwnersUnderWay'
  <2> SUFFICES ASSUME NEW o \in Ports, NEW p \in Ports
               PROVE  outputPortSource'[o] = p <=>
                        UnderWay(p)' /\ computeDestinationPort(Last(Consumed(p))'.core) = o
    BY DEF OwnersUnderWay
  <2>1. CASE p = winner
    <3>1. o # out => outputPortSource'[o] # p
      BY <1>10, <1>11, <2>1 DEF Claims
    <3>2. outputPortSource'[out] = p <=> flit.flitType # "TAIL"
      BY <1>5, <1>10, <1>12, <2>1
    <3> QED
      BY <1>4, <1>8, <2>1, <3>1, <3>2
  <2>2. CASE p # winner
    <3>1. outputPortSource'[o] = p <=> outputPortSource[o] = p
      BY <1>4, <1>5, <1>10, <1>12, <2>2
    <3> QED
      BY <1>9, <2>2, <3>1 DEF OwnersUnderWay
  <2> QED
    BY <2>1, <2>2
<1>16. LastDepartedIsOwners'
  <2> SUFFICES ASSUME NEW o \in Ports
               PROVE  IF outputPortSource'[o] = None
                      THEN Departed(o)' # <<>> => Last(Departed(o))'.flitType = "TAIL"
                      ELSE Departed(o)' # <<>>
                           /\ Last(Departed(o))' = Last(Consumed(outputPortSource[o]))'
    BY DEF LastDepartedIsOwners
  <2>1. CASE o = out
    BY <1>5, <1>8, <1>10, <1>12, <2>1
  <2>2. CASE o # out
    <3>1. outputPortSource'[o] = outputPortSource[o] /\ Departed(o)' = Departed(o)
      BY <1>7, <1>10, <2>2
    <3>2. outputPortSource[o] # None =>
            /\ outputPortSource[o] \in Ports /\ outputPortSource[o] # winner
      BY <1>11, <2>2 DEF Claims, TypeOK
    <3>3. outputPortSource[o] # None =>
            Last(Consumed(outputPortSource[o]))' = Last(Consumed(outputPortSource[o]))
      BY <1>9, <3>1, <3>2
    <3> QED
      BY <3>1, <3>3 DEF LastDepartedIsOwners
  <2> QED
    BY <2>1, <2>2
<1>17. ArbitersOrdered'
  BY <1>1 DEF ArbitersOrdered
<1> QED
  BY <1>6, <1>13, <1>14, <1>15, <1>16, <1>17

LEMMA NextIInv == IInv /\ [Next]_vars => IInv'
<1> SUFFICES ASSUME IInv, [Next]_vars PROVE IInv'
  OBVIOUS
<1>1. CASE doInitialize
  BY <1>1, InitializeKeeps
<1>2. ASSUME NEW o \in Ports, rl_Switch_Arbitration(o) PROVE IInv'
  BY <1>2, ArbitrationKeeps
<1>3. ASSUME NEW o \in Ports, rl_Switch_Traversal(o) PROVE IInv'
  BY <1>3, TraversalKeeps
<1>4. ASSUME NEW o \in Ports, rl_enqOutLatch(o) \/ clearingIndexRule(o) \/ getFlit(o) PROVE IInv'
  BY <1>4, LatchKeeps
<1>5. ASSUME NEW p \in InPorts, NewMessage(p) \/ NextFlit(p) PROVE IInv'
  BY <1>5, WhatComesIn, PutFlitKeeps
<1>6. CASE UNCHANGED vars
  <2>1. TypeOK' /\ GrantsConsistent' /\ BuffersHoldTheRest' /\ ArbitersOrdered'
    BY <1>6 DEF vars, IInv, RouterInv, TypeOK, GrantsConsistent, Claims, notEmpty, newHeadFlit,
                BuffersHoldTheRest, Consumed, ArbitersOrdered
  <2>2. OwnersUnderWay' /\ LastDepartedIsOwners'
    BY <1>6, StreamsStill DEF vars, IInv, RouterInv, Consumed, Departed, InCrossbar
  <2> QED
    BY <2>1, <2>2 DEF IInv, RouterInv
<1> QED
  BY <1>1, <1>2, <1>3, <1>4, <1>5, <1>6 DEF Next

\* The inductive invariant, and with it RouterInv: whatever comes in, grants
\* and owners agree with what lies in the buffers.
THEOREM RouterCorrect == Spec => [](IInv /\ RouterInv)
<1>1. IInv => RouterInv
  BY DEF IInv
<1> QED
  BY <1>1, InitIInv, NextIInv, PTL DEF Spec

-----------------------------------------------------------------------------
\* What a step does to the streams of flits: nothing, or one flit leaves the
\* buffer it came by for the output its HEAD asked for, and may follow there.
Moves(winner, out, flit) ==
  /\ \A p \in Ports : Consumed(p)' = IF p = winner THEN Append(Consumed(p), flit) ELSE Consumed(p)
  /\ \A o \in Ports : Departed(o)' = IF o = out THEN Append(Departed(o), flit) ELSE Departed(o)
  /\ flit.src = winner /\ computeDestinationPort(flit.core) = out
  /\ MayFollow(flit, Departed(out))

LEMMA OneFlitMoves ==
  ASSUME IInv, IInv', [Next]_vars
  PROVE  \/ /\ \A p \in Ports : Consumed(p)' = Consumed(p)
            /\ \A o \in Ports : Departed(o)' = Departed(o)
         \/ \E winner, out \in Ports, flit \in Flit : Moves(winner, out, flit)
<1> DEFINE Still == /\ \A p \in Ports : Consumed(p)' = Consumed(p)
                    /\ \A o \in Ports : Departed(o)' = Departed(o)
<1> USE DEF IInv, RouterInv
<1>1. CASE doInitialize \/ UNCHANGED vars
  BY <1>1 DEF doInitialize, vars, Consumed, Departed, InCrossbar
<1>2. ASSUME NEW o \in Ports, rl_Switch_Arbitration(o) PROVE Still
  BY <1>2 DEF rl_Switch_Arbitration, Consumed, Departed, InCrossbar
<1>3. ASSUME NEW out \in Ports, rl_Switch_Traversal(out)
      PROVE  \E winner \in Ports, flit \in Flit : Moves(winner, out, flit)
  <2>1. PICK winner \in Ports, flit \in Flit :
          /\ arbResBuf[out] = winner /\ notEmpty(winner) /\ Head(inputBuffer[winner]) = flit
          /\ \A p \in Ports : Consumed(p)' = IF p = winner THEN Append(Consumed(p), flit)
                                             ELSE Consumed(p)
          /\ \A o \in Ports : Departed(o)' = IF o = out THEN Append(Departed(o), flit)
                                             ELSE Departed(o)
    BY <1>3, TraversalMovesOne
  <2>2. /\ flit.src = winner /\ computeDestinationPort(flit.core) = out
        /\ IF outputPortSource[out] = None THEN newHeadFlit(winner)
           ELSE outputPortSource[out] = winner /\ ~newHeadFlit(winner)
    BY <2>1, FirstFlit DEF GrantsConsistent
  <2>3. newHeadFlit(winner) <=> flit.flitType = "HEAD"
    BY <2>1 DEF newHeadFlit
  <2>4. ASSUME outputPortSource[out] = None PROVE MayFollow(flit, Departed(out))
    BY <2>2, <2>3, <2>4 DEF LastDepartedIsOwners, MayFollow
  <2>5. ASSUME outputPortSource[out] # None PROVE MayFollow(flit, Departed(out))
    <3>1. Departed(out) # <<>> /\ Last(Departed(out)) = Last(Consumed(winner))
      BY <2>2, <2>5 DEF LastDepartedIsOwners
    <3>2. UnderWay(winner)
      BY <2>2, <2>5 DEF OwnersUnderWay
    <3>3. Continues(flit, Last(Consumed(winner)))
      BY <2>1, <3>2, FirstFlit
    <3> QED
      BY <2>2, <2>3, <2>5, <3>1, <3>3 DEF MayFollow
  <2>6. Moves(winner, out, flit)
    BY <2>1, <2>2, <2>4, <2>5 DEF Moves
  <2> QED
    BY <2>6
<1>4. ASSUME NEW o \in Ports, rl_enqOutLatch(o) \/ clearingIndexRule(o) \/ getFlit(o) PROVE Still
  <2>1. inputBuffer' = inputBuffer /\ sent' = sent
    BY <1>4 DEF rl_enqOutLatch, clearingIndexRule, getFlit
  <2> QED
    BY <1>4, <2>1, LatchKeepsDeparted DEF Consumed
<1>5. ASSUME NEW p \in InPorts, NewMessage(p) \/ NextFlit(p) PROVE Still
  BY <1>5, WhatComesIn, PutFlitKeeps
<1> QED
  BY <1>1, <1>2, <1>3, <1>4, <1>5 DEF Next

\* At no output, of a router anywhere in the mesh and for all traffic, is a
\* message cut in two by the flits of another.
THEOREM MessagesStayWhole == Spec => []NoInterleaving
<1>1. Init => NoInterleaving
  <2> SUFFICES ASSUME Init, NEW o \in Ports PROVE WholeMessages(Departed(o))
    BY DEF NoInterleaving
  <2>1. Departed(o) = <<>>
    BY DEF Init, Departed, InCrossbar
  <2> QED
    BY <2>1 DEF WholeMessages
<1>2. NoInterleaving /\ IInv /\ IInv' /\ [Next]_vars => NoInterleaving'
  <2> SUFFICES ASSUME NoInterleaving, IInv, IInv', [Next]_vars, NEW o \in Ports
               PROVE  WholeMessages(Departed(o))'
    BY DEF NoInterleaving
  <2>1. WholeMessages(Departed(o)) /\ Departed(o) \in Seq(Flit)
    BY DepartedType DEF NoInterleaving, IInv, RouterInv
  <2>2. CASE Departed(o)' = Departed(o)
    BY <2>1, <2>2
  <2>3. ASSUME NEW flit \in Flit, Departed(o)' = Append(Departed(o), flit),
               MayFollow(flit, Departed(o))
        PROVE  WholeMessages(Departed(o))'
    <3>1. WholeMessages(Append(Departed(o), flit))
      BY <2>1, <2>3, WholeMessagesAppend
    <3> QED
      BY <2>3, <3>1
  <2> QED
    BY <2>2, <2>3, OneFlitMoves DEF Moves
<1> QED
  BY <1>1, <1>2, RouterCorrect, PTL DEF Spec

\* And none is lost, duplicated, misrouted or overtaken.
THEOREM FlitsExactlyOnceInOrder == Spec => []ExactlyOnceInOrder
<1>1. Init => ExactlyOnceInOrder
  <2> SUFFICES ASSUME Init, NEW p \in Ports, NEW o \in Ports
               PROVE  Picked(Departed(o), FlitsOf(p)) = Picked(Consumed(p), FlitsTo(o))
    BY DEF ExactlyOnceInOrder
  <2>1. Departed(o) = <<>> /\ Consumed(p) = <<>>
    BY SubSeqEmpty DEF Init, Departed, InCrossbar, Consumed
  <2> QED
    BY <2>1, PickedEmpty
<1>2. ExactlyOnceInOrder /\ IInv /\ IInv' /\ [Next]_vars => ExactlyOnceInOrder'
  <2> SUFFICES ASSUME ExactlyOnceInOrder, IInv, IInv', [Next]_vars, NEW p \in Ports, NEW o \in Ports
               PROVE  Picked(Departed(o)', FlitsOf(p)) = Picked(Consumed(p)', FlitsTo(o))
    BY DEF ExactlyOnceInOrder, FlitsOf, FlitsTo
  <2>1. Picked(Departed(o), FlitsOf(p)) = Picked(Consumed(p), FlitsTo(o))
    BY DEF ExactlyOnceInOrder
  <2>2. Departed(o) \in Seq(Flit) /\ Consumed(p) \in Seq(Flit)
    BY DepartedType, BufferFacts DEF IInv, RouterInv
  <2>3. CASE Departed(o)' = Departed(o) /\ Consumed(p)' = Consumed(p)
    BY <2>1, <2>3
  <2>4. ASSUME NEW winner \in Ports, NEW out \in Ports, NEW flit \in Flit,
               Consumed(p)' = IF p = winner THEN Append(Consumed(p), flit) ELSE Consumed(p),
               Departed(o)' = IF o = out THEN Append(Departed(o), flit) ELSE Departed(o),
               flit.src = winner, computeDestinationPort(flit.core) = out
        PROVE  Picked(Departed(o)', FlitsOf(p)) = Picked(Consumed(p)', FlitsTo(o))
    <3>1. (flit \in FlitsOf(p) <=> p = winner) /\ (flit \in FlitsTo(o) <=> o = out)
      BY <2>4 DEF FlitsOf, FlitsTo
    <3>2. /\ Picked(Append(Departed(o), flit), FlitsOf(p)) =
               IF p = winner THEN Append(Picked(Departed(o), FlitsOf(p)), flit)
               ELSE Picked(Departed(o), FlitsOf(p))
          /\ Picked(Append(Consumed(p), flit), FlitsTo(o)) =
               IF o = out THEN Append(Picked(Consumed(p), FlitsTo(o)), flit)
               ELSE Picked(Consumed(p), FlitsTo(o))
      BY <2>2, <3>1, PickedAppend
    <3> QED
      BY <2>1, <2>4, <3>2
  <2> QED
    BY <2>3, <2>4, OneFlitMoves DEF Moves
<1> QED
  BY <1>1, <1>2, RouterCorrect, PTL DEF Spec

-----------------------------------------------------------------------------
\* Every step is one of the abstract router's, or none to be seen there.

\* What the abstract router looks like after a step.
State(b, s, l, w) == [buffer |-> b, slot |-> s, latch |-> l, owner |-> w]

Fields == {"buffer", "slot", "latch", "owner"}

LEMMA StateByFields ==
  ASSUME NEW r, r = [f \in Fields |-> r[f]]
  PROVE  r = State(r.buffer, r.slot, r.latch, r.owner)
  BY DEF State, Fields

LEMMA WormholeStep ==
  ASSUME IInv, IInv', [Next]_vars
  PROVE  [W!Step(Wormhole, Wormhole', routerX, routerY)]_Wormhole
<1> USE DEF IInv, RouterInv
<1>1. CASE doInitialize \/ UNCHANGED vars
  BY <1>1 DEF doInitialize, vars, Wormhole
<1>2. ASSUME NEW o \in Ports, rl_Switch_Arbitration(o) \/ clearingIndexRule(o)
      PROVE  UNCHANGED Wormhole
  BY <1>2 DEF rl_Switch_Arbitration, clearingIndexRule, cb!Clear, Wormhole
<1>3. ASSUME NEW o \in Ports, getFlit(o)
      PROVE  W!CanLeave(Wormhole, o) /\ Wormhole' = W!Left(Wormhole, o)
  <2>1. /\ outputLatch[o] # <<>> /\ outputLatch' = [outputLatch EXCEPT ![o] = Tail(@)]
        /\ inputBuffer' = inputBuffer /\ cbSlot' = cbSlot /\ outputPortSource' = outputPortSource
    BY <1>3 DEF getFlit
  <2>2. outputLatch[o]' = <<>>
    <3>1. outputLatch[o] \in Seq(Flit) /\ Len(outputLatch[o]) <= 1
      BY DEF TypeOK
    <3>2. Tail(outputLatch[o]) = <<>>
      <4>1. \A s \in Seq(Flit) : s # <<>> => /\ Len(s) \in Nat \ {0} /\ Tail(s) \in Seq(Flit)
                                             /\ Len(Tail(s)) = Len(s) - 1
        BY EmptySeq, HeadTailProperties
      <4>2. \A n \in Nat \ {0} : n <= 1 => n - 1 = 0
        OBVIOUS
      <4>3. Tail(outputLatch[o]) \in Seq(Flit) /\ Len(Tail(outputLatch[o])) = 0
        BY <2>1, <3>1, <4>1, <4>2
      <4> QED
        BY <4>3, EmptySeq
    <3> QED
      BY <2>1, <3>2 DEF TypeOK
  <2>3. outputLatch' = [outputLatch EXCEPT ![o] = <<>>]
    BY <2>1, <2>2 DEF TypeOK
  <2> QED
    BY <2>1, <2>3 DEF Wormhole, W!CanLeave, W!Left
<1>4. ASSUME NEW o \in Ports, rl_enqOutLatch(o)
      PROVE  W!CanLatch(Wormhole) /\ Wormhole' = W!Latched(Wormhole)
  <2>1. /\ cbSlot # None /\ cbSlot.out = o /\ cbSlot' = None /\ outputLatch[o] = <<>>
        /\ outputLatch' = [outputLatch EXCEPT ![o] = <<cbSlot.flit>>]
        /\ inputBuffer' = inputBuffer /\ outputPortSource' = outputPortSource
    BY <1>4 DEF rl_enqOutLatch, cb!Take, cb!CanTake
  <2>2. [flit |-> cbSlot.flit, out |-> cbSlot.out] # None
    <3>1. [flit |-> cbSlot.flit, out |-> cbSlot.out] \in [flit : Flit, out : Ports]
      BY <2>1 DEF TypeOK, Slot
    <3> QED
      BY <3>1, NoneAssumption
  <2>3. Wormhole.slot = [flit |-> cbSlot.flit, out |-> cbSlot.out]
    BY <2>1 DEF Wormhole
  <2>4. Wormhole' = State(inputBuffer, None, outputLatch', outputPortSource)
    BY <2>1 DEF Wormhole, State
  <2>5. Wormhole' = W!Latched(Wormhole)
    <3> DEFINE r == W!Latched(Wormhole)
    <3>1. r = [f \in Fields |-> r[f]]
      BY DEF Wormhole, W!Latched, Fields
    <3>2. r = [Wormhole EXCEPT !.latch[o] = <<cbSlot.flit>>, !.slot = None]
      BY <2>1, <2>3 DEF W!Latched
    <3> HIDE DEF r
    <3>3. r.buffer = inputBuffer /\ r.slot = None /\ r.latch = outputLatch' /\ r.owner = outputPortSource
      BY <2>1, <3>2 DEF Wormhole
    <3> QED
      BY <2>4, <3>1, <3>3, StateByFields DEF r
  <2>6. W!CanLatch(Wormhole)
    BY <2>1, <2>2 DEF Wormhole, W!CanLatch
  <2> QED
    BY <2>5, <2>6
<1>5. ASSUME NEW p \in InPorts, NewMessage(p) \/ NextFlit(p)
      PROVE  /\ p \in Ports /\ W!HasRoom(Wormhole, p) /\ Wormhole'.buffer[p] # <<>>
             /\ Wormhole' = W!Received(Wormhole, p, Wormhole'.buffer[p][Len(Wormhole'.buffer[p])])
  <2>1. PICK flit \in Flit : putFlit(p, flit)
    BY <1>5, WhatComesIn
  <2>2. p \in Ports
    BY RouterAssumption
  <2>3. /\ Len(inputBuffer[p]) < BufferDepth
        /\ inputBuffer' = [inputBuffer EXCEPT ![p] = Append(@, flit)]
        /\ cbSlot' = cbSlot /\ outputLatch' = outputLatch /\ outputPortSource' = outputPortSource
    BY <2>1 DEF putFlit
  <2>4. inputBuffer'[p] # <<>> /\ inputBuffer'[p][Len(inputBuffer'[p])] = flit
    <3>1. inputBuffer[p] \in Seq(Flit) /\ inputBuffer'[p] = Append(inputBuffer[p], flit)
      BY <2>2, <2>3 DEF TypeOK
    <3> QED
      BY <3>1
  <2>5. Wormhole.buffer = inputBuffer /\ Wormhole'.buffer = inputBuffer'
    BY DEF Wormhole
  <2>6. Wormhole' = W!Received(Wormhole, p, flit)
    <3> DEFINE r == W!Received(Wormhole, p, flit)
               slot == IF cbSlot = None THEN None ELSE [flit |-> cbSlot.flit, out |-> cbSlot.out]
    <3>1. r = [f \in Fields |-> r[f]]
      BY DEF Wormhole, W!Received, Fields
    <3>2. Wormhole' = State(inputBuffer', slot, outputLatch, outputPortSource)
      BY <2>3 DEF Wormhole, State
    <3>3. Wormhole.slot = slot
      BY DEF Wormhole
    <3> HIDE DEF slot
    <3>4. /\ r.buffer = inputBuffer' /\ r.slot = slot /\ r.latch = outputLatch
          /\ r.owner = outputPortSource
      BY <2>3, <3>3 DEF Wormhole, W!Received
    <3> HIDE DEF r
    <3> QED
      BY <3>1, <3>2, <3>4, StateByFields DEF r
  <2> QED
    BY <2>2, <2>3, <2>4, <2>5, <2>6 DEF W!HasRoom
<1>6. ASSUME NEW out \in Ports, rl_Switch_Traversal(out)
      PROVE  /\ Wormhole.slot = None
             /\ \E p \in Ports : \E o \in W!Takers(Wormhole, routerX, routerY, p) :
                  Wormhole' = W!Traversed(Wormhole, p, o)
  <2>1. PICK winner \in Ports, flit \in Flit :
          arbResBuf[out] = winner /\ notEmpty(winner) /\ Head(inputBuffer[winner]) = flit
    BY <1>6, TraversalMovesOne
  <2>2. /\ cbSlot = None /\ cbSlot' = [in |-> winner, flit |-> flit, out |-> out]
        /\ inputBuffer' = [inputBuffer EXCEPT ![winner] = Tail(@)]
        /\ outputPortSource' = [outputPortSource EXCEPT ![out] = NewSource(flit, winner)]
        /\ outputLatch' = outputLatch
    BY <1>6, <2>1 DEF rl_Switch_Traversal, cb!Put, cb!CanPut
  <2>3. cbSlot' # None
    BY <2>2, NoneAssumption DEF Slot
  <2>4. /\ computeDestinationPort(flit.core) = out
        /\ IF outputPortSource[out] = None THEN newHeadFlit(winner)
           ELSE outputPortSource[out] = winner
    BY <2>1 DEF GrantsConsistent
  <2>5. Wormhole.buffer = inputBuffer /\ Wormhole.owner = outputPortSource /\ Wormhole.slot = None
    BY <2>2 DEF Wormhole
  <2>6. out \in W!Takers(Wormhole, routerX, routerY, winner)
    BY <2>1, <2>4, <2>5 DEF W!Takers, notEmpty, newHeadFlit, computeDestinationPort, Ports
  <2>7. Wormhole' = W!Traversed(Wormhole, winner, out)
    <3> DEFINE r == W!Traversed(Wormhole, winner, out)
               slot == [flit |-> flit, out |-> out]
    <3>1. r = [f \in Fields |-> r[f]]
      BY DEF Wormhole, W!Traversed, Fields
    <3>2. Wormhole' = State(inputBuffer', slot, outputLatch, outputPortSource')
      BY <2>2, <2>3 DEF Wormhole, State
    <3>3. NewSource(flit, winner) = W!OwnerAfter(flit, winner)
      BY DEF NewSource, W!OwnerAfter
    <3>4. r = [Wormhole EXCEPT !.buffer[winner] = Tail(@), !.slot = slot,
                               !.owner[out] = W!OwnerAfter(flit, winner)]
      BY <2>1, <2>5 DEF W!Traversed
    <3> HIDE DEF r, slot
    <3>5. /\ r.buffer = inputBuffer' /\ r.slot = slot /\ r.latch = outputLatch
          /\ r.owner = outputPortSource'
      BY <2>2, <3>3, <3>4 DEF Wormhole
    <3> QED
      BY <3>1, <3>2, <3>5, StateByFields DEF r
  <2> QED
    BY <2>5, <2>6, <2>7
<1>7. Ports = W!Ports
  BY DEF Ports
<1> QED
  BY <1>1, <1>2, <1>3, <1>4, <1>5, <1>6, <1>7 DEF Next, W!Step

\* Mesh's composition of WormholeRouters is one of what this router does.
THEOREM RouterImplementsWormholeRouter == Spec => ImplementsWormholeRouter
<1>1. Init => Wormhole = W!Idle
  BY DEF Init, Wormhole, W!Idle, Ports
<1>2. IInv /\ IInv' /\ [Next]_vars => [W!Step(Wormhole, Wormhole', routerX, routerY)]_Wormhole
  BY WormholeStep
<1> QED
  BY <1>1, <1>2, RouterCorrect, PTL DEF Spec, ImplementsWormholeRouter

=============================================================================
