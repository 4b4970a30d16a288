--------------------------- MODULE RemotePutProofs --------------------------
(***************************************************************************)
(* For any cores, plans, widths and depths: messages stay whole all the    *)
(* way, the engine has no complaint, and every word is put in its place.   *)
(***************************************************************************)
EXTENDS RemotePut, SequenceTheorems, TLAPS

-----------------------------------------------------------------------------
\* Streams are sequences.

LEMMA SequenceOf ==
  ASSUME NEW s, Len(s) \in Nat, s = [k \in 1 .. Len(s) |-> s[k]]
  PROVE  s \in Seq({s[k] : k \in 1 .. Len(s)})
<1> DEFINE n == Len(s)
           R == {s[k] : k \in 1 .. n}
           f == [k \in 1 .. n |-> s[k]]
<1>1. f \in [1 .. n -> R]
  OBVIOUS
<1>2. s \in [1 .. n -> R]
  BY <1>1, Zenon
<1>3. n \in Nat
  OBVIOUS
<1> HIDE DEF n, R
<1>4. s \in Seq(R)
  BY <1>2, <1>3, SeqDef
<1> QED
  BY <1>4 DEF n, R

LEMMA StreamElements ==
  ASSUME NEW made, NEW s, IsStream(made, s)
  PROVE  \E S : /\ s \in Seq(S) /\ \A flit \in S : FlitOK(made, flit)
<1>1. s \in Seq({s[k] : k \in 1 .. Len(s)})
  BY SequenceOf, Zenon DEF IsStream
<1>2. \A flit \in {s[k] : k \in 1 .. Len(s)} : FlitOK(made, flit)
  BY DEF IsStream
<1> QED
  BY <1>1, <1>2

LEMMA StreamOf ==
  ASSUME NEW made, NEW S, NEW s \in Seq(S), \A flit \in S : FlitOK(made, flit)
  PROVE  IsStream(made, s)
<1>1. Len(s) \in Nat /\ \A k \in 1 .. Len(s) : s[k] \in S
  OBVIOUS
<1>2. s = [k \in 1 .. Len(s) |-> s[k]]
  OBVIOUS
<1> QED
  BY <1>1, <1>2, Zenon DEF IsStream

LEMMA EmptyStream == \A made : IsStream(made, <<>>)
<1> SUFFICES ASSUME NEW made PROVE IsStream(made, <<>>)
  OBVIOUS
<1> DEFINE S == {}
<1>1. <<>> \in Seq(S) /\ \A flit \in S : FlitOK(made, flit)
  OBVIOUS
<1> HIDE DEF S
<1> QED
  BY <1>1, StreamOf

LEMMA StreamAppend ==
  ASSUME NEW made, NEW s, NEW flit, IsStream(made, s), FlitOK(made, flit)
  PROVE  IsStream(made, Append(s, flit))
<1>1. PICK S : s \in Seq(S) /\ \A f \in S : FlitOK(made, f)
  BY StreamElements
<1> DEFINE T == S \cup {flit}
<1>2. s \in Seq(T) /\ flit \in T
  BY <1>1
<1>3. Append(s, flit) \in Seq(T)
  BY <1>2
<1>4. \A f \in T : FlitOK(made, f)
  BY <1>1
<1> HIDE DEF T
<1> QED
  BY <1>3, <1>4, StreamOf

LEMMA StreamTail ==
  ASSUME NEW made, NEW s, IsStream(made, s), s # <<>>
  PROVE  /\ IsStream(made, Tail(s)) /\ FlitOK(made, Head(s))
         /\ Head(s) = s[1] /\ Len(s) >= 1
<1>1. PICK S : s \in Seq(S) /\ \A f \in S : FlitOK(made, f)
  BY StreamElements
<1>2. Tail(s) \in Seq(S) /\ Head(s) \in S /\ Head(s) = s[1] /\ Len(s) >= 1
  BY <1>1
<1> QED
  BY <1>1, <1>2, StreamOf

LEMMA StreamConcat ==
  ASSUME NEW made, NEW s, NEW t, IsStream(made, s), IsStream(made, t)
  PROVE  IsStream(made, s \o t)
<1>1. PICK S : s \in Seq(S) /\ \A f \in S : FlitOK(made, f)
  BY StreamElements
<1>2. PICK T : t \in Seq(T) /\ \A f \in T : FlitOK(made, f)
  BY StreamElements
<1> DEFINE U == S \cup T
<1>3. s \in Seq(U) /\ t \in Seq(U)
  BY <1>1, <1>2
<1>4. s \o t \in Seq(U)
  BY <1>3
<1>5. \A f \in U : FlitOK(made, f)
  BY <1>1, <1>2
<1> HIDE DEF U
<1> QED
  BY <1>4, <1>5, StreamOf

-----------------------------------------------------------------------------
\* Chains.

LEMMA ChainEmpty == \A made, a, b : Chain(made, <<>>, a, b) <=> a = b
  BY DEF Chain

LEMMA ChainAppend ==
  ASSUME NEW made, NEW S, NEW s \in Seq(S), NEW flit, NEW a, NEW b,
         Chain(made, s, a, b), Before(made, flit) = b
  PROVE  Chain(made, Append(s, flit), a, After(made, flit))
<1> DEFINE t == Append(s, flit)
           T == S \cup {flit}
<1>1. s \in Seq(T)
  OBVIOUS
<1>2. /\ t \in Seq(T) /\ Len(t) = Len(s) + 1 /\ t[Len(t)] = flit
      /\ \A k \in 1 .. Len(s) : t[k] = s[k]
  BY <1>1
<1>3. t # <<>> /\ Len(s) \in Nat
  BY <1>2, <1>1
<1>4. CASE s = <<>>
  <2>1. Len(s) = 0 /\ t[1] = flit /\ Len(t) = 1
    BY <1>2, <1>4
  <2>2. a = b
    BY <1>4 DEF Chain
  <2> HIDE DEF t
  <2> QED
    BY <1>2, <1>3, <2>1, <2>2 DEF Chain
<1>5. CASE s # <<>>
  <2>1. Len(s) >= 1
    BY <1>5, <1>1
  <2>2. /\ Before(made, s[1]) = a /\ After(made, s[Len(s)]) = b
        /\ \A k \in 1 .. Len(s) - 1 : After(made, s[k]) = Before(made, s[k + 1])
    BY <1>5 DEF Chain
  <2> HIDE DEF t
  <2>3. t[1] = s[1] /\ t[Len(s)] = s[Len(s)]
    BY <1>2, <2>1, <1>3
  <2>4. ASSUME NEW k \in 1 .. Len(t) - 1
        PROVE  After(made, t[k]) = Before(made, t[k + 1])
    <3>1. k \in 1 .. Len(s) /\ t[k] = s[k]
      BY <1>2, <1>3
    <3>2. CASE k = Len(s)
      BY <1>2, <3>1, <3>2, <2>2
    <3>3. CASE k # Len(s)
      <4>1. k \in 1 .. Len(s) - 1 /\ k + 1 \in 1 .. Len(s)
        BY <3>1, <3>3, <1>3
      <4> QED
        BY <1>2, <2>2, <3>1, <4>1
    <3> QED
      BY <3>2, <3>3
  <2> QED
    BY <1>2, <1>3, <2>2, <2>3, <2>4 DEF Chain
<1> QED
  BY <1>4, <1>5

LEMMA ChainTail ==
  ASSUME NEW made, NEW S, NEW s \in Seq(S), NEW a, NEW b,
         Chain(made, s, a, b), s # <<>>
  PROVE  Before(made, Head(s)) = a /\ Chain(made, Tail(s), After(made, Head(s)), b)
<1>1. /\ Len(s) \in Nat /\ Len(s) >= 1 /\ Head(s) = s[1] /\ Tail(s) \in Seq(S)
      /\ Len(Tail(s)) = Len(s) - 1 /\ \A k \in 1 .. Len(s) - 1 : Tail(s)[k] = s[k + 1]
  BY HeadTailProperties
<1>2. /\ Before(made, s[1]) = a /\ After(made, s[Len(s)]) = b
      /\ \A k \in 1 .. Len(s) - 1 : After(made, s[k]) = Before(made, s[k + 1])
  BY DEF Chain
<1>3. CASE Len(s) = 1
  <2>1. Tail(s) = <<>>
    <3>1. Tail(s) \in Seq(S) /\ Len(Tail(s)) = 0
      BY <1>1, <1>3
    <3> QED
      BY <3>1, EmptySeq
  <2> QED
    BY <1>1, <1>2, <1>3, <2>1 DEF Chain
<1>4. CASE Len(s) # 1
  <2> DEFINE t == Tail(s)
  <2>1. t # <<>> /\ Len(t) = Len(s) - 1 /\ \A k \in 1 .. Len(s) - 1 : t[k] = s[k + 1]
    BY <1>1, <1>4
  <2>2. Before(made, t[1]) = After(made, Head(s)) /\ t[Len(t)] = s[Len(s)]
    <3>1. 1 \in 1 .. Len(s) - 1 /\ Len(s) - 1 \in 1 .. Len(s) - 1 /\ 1 + 1 = 2
      BY <1>1, <1>4
    <3>2. t[1] = s[1 + 1] /\ After(made, s[1]) = Before(made, s[1 + 1])
      BY <2>1, <1>2, <3>1
    <3> QED
      BY <1>1, <2>1, <3>1, <3>2
  <2>3. ASSUME NEW k \in 1 .. Len(t) - 1
        PROVE  After(made, t[k]) = Before(made, t[k + 1])
    <3>1. /\ k \in 1 .. Len(s) - 1 /\ k + 1 \in 1 .. Len(s) - 1
      BY <1>1, <2>1
    <3> QED
      BY <1>2, <2>1, <3>1
  <2> HIDE DEF t
  <2>4. Chain(made, t, After(made, Head(s)), b)
    BY <1>2, <2>1, <2>2, <2>3 DEF Chain
  <2> QED
    BY <1>1, <1>2, <2>4 DEF t
<1> QED
  BY <1>3, <1>4

LEMMA ChainConcat ==
  ASSUME NEW made, NEW S, NEW s \in Seq(S), NEW t \in Seq(S), NEW a, NEW b, NEW c,
         Chain(made, s, a, b), Chain(made, t, b, c)
  PROVE  Chain(made, s \o t, a, c)
<1> DEFINE u == s \o t
<1>1. /\ u \in Seq(S) /\ Len(u) = Len(s) + Len(t) /\ Len(s) \in Nat /\ Len(t) \in Nat
      /\ \A k \in 1 .. Len(s) : u[k] = s[k]
      /\ \A k \in 1 .. Len(t) : u[Len(s) + k] = t[k]
  BY ConcatProperties
<1>2. CASE s = <<>>
  <2>1. a = b /\ u = t
    BY <1>2 DEF Chain
  <2> QED
    BY <2>1
<1>3. CASE t = <<>>
  <2>1. b = c /\ u = s
    BY <1>3 DEF Chain
  <2> QED
    BY <2>1
<1>4. CASE s # <<>> /\ t # <<>>
  <2>1. Len(s) >= 1 /\ Len(t) >= 1
    BY <1>4
  <2>2. /\ Before(made, s[1]) = a /\ After(made, s[Len(s)]) = b
        /\ \A k \in 1 .. Len(s) - 1 : After(made, s[k]) = Before(made, s[k + 1])
    BY <1>4 DEF Chain
  <2>3. /\ Before(made, t[1]) = b /\ After(made, t[Len(t)]) = c
        /\ \A k \in 1 .. Len(t) - 1 : After(made, t[k]) = Before(made, t[k + 1])
    BY <1>4 DEF Chain
  <2> HIDE DEF u
  <2>4. u # <<>> /\ u[1] = s[1] /\ u[Len(u)] = t[Len(t)]
    BY <1>1, <2>1
  <2>5. ASSUME NEW k \in 1 .. Len(u) - 1
        PROVE  After(made, u[k]) = Before(made, u[k + 1])
    <3>1. CASE k < Len(s)
      <4>1. k \in 1 .. Len(s) - 1 /\ k \in 1 .. Len(s) /\ k + 1 \in 1 .. Len(s)
        BY <1>1, <3>1
      <4> QED
        BY <1>1, <2>2, <4>1
    <3>2. CASE k = Len(s)
      <4>1. u[k] = s[Len(s)] /\ u[k + 1] = t[1]
        BY <1>1, <2>1, <3>2
      <4> QED
        BY <2>2, <2>3, <4>1
    <3>3. CASE k > Len(s)
      <4> DEFINE j == k - Len(s)
      <4>1. /\ j \in 1 .. Len(t) - 1 /\ j \in 1 .. Len(t) /\ j + 1 \in 1 .. Len(t)
            /\ k = Len(s) + j /\ k + 1 = Len(s) + (j + 1)
        BY <1>1, <3>3
      <4> HIDE DEF j
      <4>2. u[Len(s) + j] = t[j] /\ u[Len(s) + (j + 1)] = t[j + 1]
        BY <1>1, <4>1
      <4> QED
        BY <2>3, <4>1, <4>2
    <3> QED
      BY <1>1, <3>1, <3>2, <3>3
  <2> QED
    BY <2>2, <2>3, <2>4, <2>5 DEF Chain, u
<1> QED
  BY <1>2, <1>3, <1>4

\* The same of streams.
LEMMA StreamsJoined ==
  ASSUME NEW made, NEW s, NEW t, NEW a, NEW b, NEW c, IsStream(made, s), IsStream(made, t),
         Chain(made, s, a, b), Chain(made, t, b, c)
  PROVE  IsStream(made, s \o t) /\ Chain(made, s \o t, a, c)
<1>1. PICK S : s \in Seq(S)
  BY StreamElements
<1>2. PICK T : t \in Seq(T)
  BY StreamElements
<1> DEFINE U == S \cup T
<1>3. s \in Seq(U) /\ t \in Seq(U)
  BY <1>1, <1>2
<1> HIDE DEF U
<1> QED
  BY <1>3, ChainConcat, StreamConcat

LEMMA StreamLonger ==
  ASSUME NEW made, NEW s, NEW flit, NEW a, NEW b, IsStream(made, s), FlitOK(made, flit),
         Chain(made, s, a, b), Before(made, flit) = b
  PROVE  /\ IsStream(made, Append(s, flit))
         /\ Chain(made, Append(s, flit), a, After(made, flit))
<1>1. PICK S : s \in Seq(S)
  BY StreamElements
<1> QED
  BY <1>1, ChainAppend, StreamAppend

LEMMA StreamShorter ==
  ASSUME NEW made, NEW s, NEW a, NEW b, IsStream(made, s), Chain(made, s, a, b), s # <<>>
  PROVE  /\ IsStream(made, Tail(s)) /\ FlitOK(made, Head(s)) /\ Head(s) = s[1]
         /\ Before(made, Head(s)) = a
         /\ Chain(made, Tail(s), After(made, Head(s)), b)
<1>1. PICK S : s \in Seq(S)
  BY StreamElements
<1> QED
  BY <1>1, ChainTail, StreamTail

\* Where a chain begins and ends, said of its flits.
LEMMA ChainEnds ==
  ASSUME NEW made, NEW s, NEW a, NEW b, Chain(made, s, a, b)
  PROVE  /\ b = EndOf(made, s, a)
         /\ a = IF s = <<>> THEN b ELSE Before(made, s[1])
  BY DEF Chain, EndOf

\* Within a chain the flit in front of one leads to it.
LEMMA ChainLink ==
  ASSUME NEW made, NEW s, NEW a, NEW b, Chain(made, s, a, b), Len(s) \in Nat,
         NEW k \in 1 .. Len(s)
  PROVE  Before(made, s[k]) = IF k = 1 THEN a ELSE After(made, s[k - 1])
<1>1. CASE s = <<>>
  <2>1. Len(s) = 0
    BY <1>1
  <2> QED
    BY <2>1
<1>2. CASE s # <<>>
  <2>1. CASE k = 1
    BY <1>2, <2>1 DEF Chain
  <2>2. CASE k # 1
    <3>1. k - 1 \in 1 .. Len(s) - 1 /\ (k - 1) + 1 = k
      BY <2>2
    <3> QED
      BY <1>2, <2>2, <3>1 DEF Chain
  <2> QED
    BY <2>1, <2>2
<1> QED
  BY <1>1, <1>2

LEMMA NamesTail ==
  ASSUME NEW S, NEW s \in Seq(S), NEW d, NamesCore(s, d), s # <<>>
  PROVE  /\ NamesCore(Tail(s), d)
         /\ Head(s).flitType = "HEAD" => CoreField(Head(s).data) = d
<1>1. /\ Len(s) \in Nat /\ Len(s) >= 1 /\ Head(s) = s[1]
      /\ Len(Tail(s)) = Len(s) - 1 /\ \A k \in 1 .. Len(s) - 1 : Tail(s)[k] = s[k + 1]
  BY HeadTailProperties
<1>2. \A k \in 1 .. Len(Tail(s)) : k + 1 \in 1 .. Len(s)
  BY <1>1
<1> QED
  BY <1>1, <1>2 DEF NamesCore

LEMMA NamesAppend ==
  ASSUME NEW S, NEW s \in Seq(S), NEW d, NamesCore(s, d), NEW flit,
         flit.flitType = "HEAD" => CoreField(flit.data) = d
  PROVE  NamesCore(Append(s, flit), d)
<1> DEFINE t == Append(s, flit)
           T == S \cup {flit}
<1>1. s \in Seq(T)
  OBVIOUS
<1>2. /\ Len(s) \in Nat /\ Len(t) = Len(s) + 1 /\ t[Len(t)] = flit
      /\ \A k \in 1 .. Len(s) : t[k] = s[k]
  BY <1>1
<1> HIDE DEF t
<1>3. \A k \in 1 .. Len(t) : k = Len(t) \/ k \in 1 .. Len(s)
  BY <1>2
<1>4. NamesCore(t, d)
  BY <1>2, <1>3 DEF NamesCore
<1> QED
  BY <1>4 DEF t

-----------------------------------------------------------------------------
\* Arithmetic of the packed fields.

LEMMA DivisionUnique ==
  ASSUME NEW n \in Nat \ {0}, NEW q \in Nat, NEW r \in 0 .. n - 1, NEW x \in Nat,
         x = q * n + r
  PROVE  x \div n = q /\ x % n = r
<1> DEFINE p == x \div n
           m == x % n
<1>1. p \in Nat /\ m \in 0 .. n - 1 /\ x = p * n + m
  OBVIOUS
<1> HIDE DEF p, m
<1>2. CASE p > q
  <2> DEFINE d == p - q
  <2>1. d \in Nat /\ d >= 1 /\ p = q + d
    BY <1>1, <1>2
  <2> HIDE DEF d
  <2>2. p * n = q * n + d * n /\ d * n >= n
    BY <2>1, <1>1
  <2> QED
    BY <1>1, <2>2
<1>3. CASE p < q
  <2> DEFINE d == q - p
  <2>1. d \in Nat /\ d >= 1 /\ q = p + d
    BY <1>1, <1>3
  <2> HIDE DEF d
  <2>2. q * n = p * n + d * n /\ d * n >= n
    BY <2>1, <1>1
  <2> QED
    BY <1>1, <2>2
<1>4. CASE p = q
  <2>1. p * n = q * n
    BY <1>4
  <2> QED
    BY <1>1, <1>4, <2>1 DEF p, m
<1> QED
  BY <1>1, <1>2, <1>3, <1>4

LEMMA DivisionFacts ==
  ASSUME NEW n \in Nat \ {0}, NEW x \in Nat
  PROVE  x % n \in 0 .. n - 1 /\ x \div n \in Nat /\ x = (x \div n) * n + (x % n)
  OBVIOUS

LEMMA NextRemainder ==
  ASSUME NEW n \in Nat \ {0}, NEW x \in Nat
  PROVE  ((x % n) + 1) % n = (x + 1) % n
<1> DEFINE q == x \div n
           r == x % n
<1>1. r \in 0 .. n - 1 /\ q \in Nat /\ x = q * n + r
  BY DivisionFacts
<1> HIDE DEF q, r
<1>2. CASE r < n - 1
  <2>1. r + 1 \in 0 .. n - 1 /\ x + 1 = q * n + (r + 1) /\ r + 1 = 0 * n + (r + 1)
    BY <1>1, <1>2
  <2>2. (x + 1) % n = r + 1
    BY <2>1, <1>1, DivisionUnique
  <2>3. (r + 1) % n = r + 1
    BY <2>1, <1>1, DivisionUnique
  <2> QED
    BY <2>2, <2>3 DEF r
<1>3. CASE r = n - 1
  <2>1. /\ (q + 1) * n = q * n + n /\ q + 1 \in Nat /\ x + 1 \in Nat
        /\ 0 \in 0 .. n - 1
    BY <1>1
  <2>2. x + 1 = (q + 1) * n + 0
    BY <1>1, <1>3, <2>1
  <2>3. (x + 1) % n = 0
    BY <2>1, <2>2, DivisionUnique
  <2>4. r + 1 = 1 * n + 0 /\ r + 1 \in Nat /\ 1 \in Nat
    BY <1>3
  <2>5. (r + 1) % n = 0
    BY <2>1, <2>4, DivisionUnique
  <2> QED
    BY <2>3, <2>5 DEF r
<1> QED
  BY <1>1, <1>2, <1>3

\* A field in the middle of three: low bits of L values, then M values.
LEMMA MiddleField ==
  ASSUME NEW L \in Nat \ {0}, NEW M \in Nat \ {0},
         NEW lo \in 0 .. L - 1, NEW mid \in 0 .. M - 1, NEW hi \in Nat,
         NEW y \in Nat, y = mid + hi * M,
         NEW x \in Nat, x = lo + mid * L + hi * (L * M)
  PROVE  /\ x = y * L + lo
         /\ x \div L = y
         /\ y % M = mid
         /\ x \div (L * M) = hi
<1>1. L * M \in Nat
  OBVIOUS
<1>2. x = y * L + lo
  <2>1. (mid + hi * M) * L = mid * L + (hi * M) * L
    OBVIOUS
  <2>2. (hi * M) * L = hi * (L * M)
    OBVIOUS
  <2>3. mid * L \in Nat /\ hi * (L * M) \in Nat
    BY <1>1
  <2> QED
    BY <2>1, <2>2, <2>3
<1>3. x \div L = y
  BY <1>2, DivisionUnique
<1>4. y = hi * M + mid
  <2>1. hi * M \in Nat
    OBVIOUS
  <2> QED
    BY <2>1
<1>5. y % M = mid
  BY <1>4, DivisionUnique
<1>6. x \div (L * M) = hi
  <2> DEFINE P == L * M
             r == lo + mid * L
  <2>1. P \in Nat \ {0}
    BY <1>1
  <2>2. r \in 0 .. P - 1
    <3>1. mid * L + L <= M * L
      <4> DEFINE d == M - 1 - mid
      <4>1. d \in Nat /\ M = mid + 1 + d
        OBVIOUS
      <4> HIDE DEF d
      <4>2. (mid + 1 + d) * L = mid * L + L + d * L /\ d * L >= 0
        BY <4>1
      <4> QED
        BY <4>1, <4>2
    <3>2. mid * L \in Nat /\ M * L = L * M
      OBVIOUS
    <3> QED
      BY <3>1, <3>2
  <2>3. x = hi * P + r
    <3>1. hi * (L * M) \in Nat /\ mid * L \in Nat
      BY <1>1
    <3> QED
      BY <3>1
  <2> HIDE DEF P, r
  <2>4. x \div P = hi
    BY <1>1, <2>1, <2>2, <2>3, DivisionUnique
  <2> QED
    BY <2>4 DEF P
<1> QED
  BY <1>2, <1>3, <1>5, <1>6

\* Bytes of words, whichever is reduced first.
LEMMA WordOfBytes ==
  ASSUME NEW A \in Nat \ {0}, NEW dest \in Nat
  PROVE  \E a \in 0 .. A - 1, b \in 0 .. 3 :
           dest % (4 * A) = a * 4 + b /\ a = (dest \div 4) % A
<1>1. PICK w \in Nat, b \in 0 .. 3 : w = dest \div 4 /\ dest = w * 4 + b
  OBVIOUS
<1>2. PICK v \in Nat, a \in 0 .. A - 1 : a = w % A /\ w = v * A + a
  BY DivisionFacts
<1>3. PICK L \in Nat \ {0} : L = 4 * A
  OBVIOUS
<1>4. PICK r \in 0 .. L - 1 : r = a * 4 + b
  BY <1>3
<1>5. dest = v * L + r
  <2>1. (v * A + a) * 4 = v * (4 * A) + a * 4
    OBVIOUS
  <2>2. v * (4 * A) \in Nat
    OBVIOUS
  <2> QED
    BY <1>1, <1>2, <1>3, <1>4, <2>1, <2>2
<1>6. dest % L = r
  BY <1>5, DivisionUnique
<1> QED
  BY <1>1, <1>2, <1>3, <1>4, <1>6

\* What the assumption says of a call.
LEMMA CallFacts ==
  ASSUME NEW k \in Calls
  PROVE  /\ k.from \in Cores /\ k.to \in Cores /\ k.to \in 0 .. 15
         /\ k.dest \in Nat /\ k.len \in Nat
<1>1. {k.from, k.to} \subseteq Cores /\ k.dest \in Nat /\ k.len \in Nat
  BY RemotePutAssumption
<1>2. Cores \subseteq 0 .. 15
  BY RemotePutAssumption
<1> QED
  BY <1>1, <1>2

LEMMA Widths ==
  AddrSpace \in Nat \ {0} /\ MaxBurst \in Nat \ {0} /\ None \notin Cores
  BY RemotePutAssumption

TimesPlus(q, n, r) == q * n + r

LEMMA TimesPlusDivided ==
  ASSUME NEW n \in Nat \ {0}, NEW q \in Nat, NEW r \in 0 .. n - 1
  PROVE  TimesPlus(q, n, r) \div n = q /\ TimesPlus(q, n, r) % n = r
<1>1. PICK x \in Nat : x = q * n + r
  <2>1. q * n \in Nat
    OBVIOUS
  <2> QED
    BY <2>1
<1> QED
  BY <1>1, DivisionUnique DEF TimesPlus

LEMMA WordAddress ==
  ASSUME NEW y \in Nat, NEW a \in 0 .. AddrSpace - 1, NEW b \in 0 .. 3, NEW x \in Nat,
         x = y * (4 * AddrSpace) + (a * 4 + b)
  PROVE  AddrField(x) = a
<1>1. PICK A \in Nat \ {0} : A = AddrSpace
  BY Widths
<1>2. PICK w \in 0 .. A - 1 : w = a
  BY <1>1
<1>3. PICK c \in Nat : c = y * A
  OBVIOUS
<1>4. PICK u \in Nat : u = c + w
  OBVIOUS
<1>5. y * (4 * A) = c * 4
  <2>1. y * (4 * A) = (y * A) * 4
    OBVIOUS
  <2> QED
    BY <1>3, <2>1
<1>6. u % A = w
  <2>1. u = TimesPlus(y, A, w)
    BY <1>3, <1>4 DEF TimesPlus
  <2>2. TimesPlus(y, A, w) % A = w
    BY TimesPlusDivided
  <2> QED
    BY <2>1, <2>2
<1>7. x \div 4 = u
  <2>1. x = u * 4 + b
    BY <1>1, <1>2, <1>4, <1>5
  <2> QED
    BY <2>1
<1> QED
  BY <1>1, <1>2, <1>6, <1>7 DEF AddrField

\* The head flit of a call gives back what was packed.
LEMMA PackedFields ==
  ASSUME NEW k \in Calls, k.len \in 1 .. MaxBurst
  PROVE  /\ PackHead(k) \in Nat
         /\ BurstField(PackHead(k)) + 1 = k.len
         /\ CoreField(PackHead(k)) = k.to
         /\ AddrField(PackHead(k)) = (k.dest \div 4) % AddrSpace
<1>1. PICK L \in Nat \ {0} : L = 4 * AddrSpace
  BY Widths
<1>2. PICK lo \in 0 .. L - 1 : lo = k.dest % L
  BY <1>1, CallFacts, DivisionFacts
<1>3. PICK mid \in 0 .. MaxBurst - 1 : mid = k.len - 1
  BY Widths
<1>4. PICK hi \in Nat : hi = k.to /\ hi % 16 = hi
  BY CallFacts
<1>5. PICK x \in Nat : x = PackHead(k) /\ x = lo + mid * L + hi * (L * MaxBurst)
  <2>1. PackHead(k) = lo + mid * L + hi * (L * MaxBurst)
    BY <1>1, <1>2, <1>3, <1>4 DEF PackHead
  <2>2. mid * L \in Nat /\ L * MaxBurst \in Nat
    BY Widths
  <2>3. hi * (L * MaxBurst) \in Nat
    BY <2>2
  <2> QED
    BY <2>1, <2>2, <2>3
<1>6. PICK y \in Nat : y = mid + hi * MaxBurst
  <2>1. hi * MaxBurst \in Nat
    BY Widths
  <2> QED
    BY <2>1
<1>7. x = y * L + lo /\ x \div L = y /\ y % MaxBurst = mid /\ x \div (L * MaxBurst) = hi
  BY <1>5, <1>6, MiddleField, Widths
<1>8. BurstField(x) + 1 = k.len
  BY <1>1, <1>3, <1>7, CallFacts DEF BurstField
<1>9. CoreField(x) = k.to
  BY <1>1, <1>4, <1>7 DEF CoreField
<1>10. AddrField(x) = (k.dest \div 4) % AddrSpace
  <2>1. PICK a \in 0 .. AddrSpace - 1, b \in 0 .. 3 :
          lo = a * 4 + b /\ a = (k.dest \div 4) % AddrSpace
    BY <1>1, <1>2, CallFacts, Widths, WordOfBytes
  <2>2. x = y * (4 * AddrSpace) + (a * 4 + b)
    BY <1>1, <1>7, <2>1
  <2> QED
    BY <2>1, <2>2, WordAddress
<1> QED
  BY <1>5, <1>7, <1>8, <1>9, <1>10

-----------------------------------------------------------------------------
\* Words, flits and where they stand in their message.

Histories == [Cores -> Seq(Calls)]

LEMMA InWordsOf ==
  ASSUME NEW made \in Histories, NEW word
  PROVE  word \in WordsOf(made) <=>
           /\ word \in Cores \X Nat \X Nat /\ word[2] \in 1 .. Len(made[word[1]])
           /\ word[3] \in 1 .. CallOf(made, word).len /\ CallOf(made, word).len <= MaxBurst
<1>1. ASSUME NEW c \in Cores, NEW n \in 1 .. Len(made[c])
      PROVE  made[c][n].len \in Nat
  <2>1. made[c] \in Seq(Calls)
    BY DEF Histories
  <2>2. made[c][n] \in Calls
    BY <2>1, ElementOfSeq
  <2> QED
    BY <2>2, CallFacts
<1>2. ASSUME NEW c \in Cores PROVE Len(made[c]) \in Nat
  BY DEF Histories
<1>3. ASSUME word \in WordsOf(made)
      PROVE  /\ word \in Cores \X Nat \X Nat /\ word[2] \in 1 .. Len(made[word[1]])
             /\ word[3] \in 1 .. CallOf(made, word).len /\ CallOf(made, word).len <= MaxBurst
  <2>1. PICK c \in Cores : word \in {c} \X (1 .. Len(made[c])) \X (1 .. MaxBurst)
    BY <1>3 DEF WordsOf
  <2>2. /\ word[1] = c /\ word[2] \in 1 .. Len(made[c]) /\ word[3] \in 1 .. MaxBurst
        /\ word = <<word[1], word[2], word[3]>>
    BY <2>1
  <2>3. CallOf(made, word).len \in word[3] .. MaxBurst
    BY <1>3 DEF WordsOf
  <2>4. PICK i \in Nat \ {0} : i = word[3]
    BY <2>2
  <2>5. CallOf(made, word).len \in i .. MaxBurst /\ MaxBurst \in Nat
    BY <2>3, <2>4, Widths
  <2>6. i \in 1 .. CallOf(made, word).len /\ CallOf(made, word).len <= MaxBurst
    BY <2>5
  <2>7. word \in Cores \X Nat \X Nat
    BY <1>2, <2>2, <2>4
  <2> QED
    BY <2>2, <2>4, <2>6, <2>7
<1>4. ASSUME word \in Cores \X Nat \X Nat, word[2] \in 1 .. Len(made[word[1]]),
             word[3] \in 1 .. CallOf(made, word).len, CallOf(made, word).len <= MaxBurst
      PROVE  word \in WordsOf(made)
  <2>1. PICK c \in Cores, n \in Nat, i \in Nat : word = <<c, n, i>>
    BY <1>4
  <2>2. word[1] = c /\ word[2] = n /\ word[3] = i
    BY <2>1
  <2>3. PICK len \in Nat : len = CallOf(made, word).len
    BY <1>1, <1>4, <2>2 DEF CallOf
  <2>4. i \in 1 .. MaxBurst /\ len \in i .. MaxBurst
    BY <1>4, <2>2, <2>3, Widths
  <2>5. word \in {c} \X (1 .. Len(made[c])) \X (1 .. MaxBurst)
    BY <1>4, <2>1, <2>2, <2>4
  <2> QED
    BY <2>2, <2>3, <2>4, <2>5 DEF WordsOf
<1> QED
  BY <1>3, <1>4

LEMMA WordFacts ==
  ASSUME NEW made \in Histories, NEW word \in WordsOf(made)
  PROVE  /\ word[1] \in Cores /\ word[2] \in 1 .. Len(made[word[1]])
         /\ CallOf(made, word) \in Calls /\ CallOf(made, word).to \in Cores
         /\ CallOf(made, word).dest \in Nat
         /\ Left(made, word) \in 0 .. MaxBurst - 1
         /\ AddressOf(made, word) \in 0 .. AddrSpace - 1
<1>1. /\ word \in Cores \X Nat \X Nat /\ word[2] \in 1 .. Len(made[word[1]])
      /\ word[3] \in 1 .. CallOf(made, word).len /\ CallOf(made, word).len <= MaxBurst
  BY InWordsOf
<1>2. word[1] \in Cores /\ word[2] \in Nat /\ word[3] \in Nat
  BY <1>1
<1>3. made[word[1]] \in Seq(Calls)
  BY <1>2 DEF Histories
<1>4. CallOf(made, word) \in Calls
  BY <1>1, <1>3, ElementOfSeq DEF CallOf
<1>5. PICK k \in Calls : k = CallOf(made, word)
  BY <1>4
<1>6. k.to \in Cores /\ k.dest \in Nat /\ k.len \in Nat
  BY CallFacts
<1>7. Left(made, word) \in 0 .. MaxBurst - 1
  <2>1. PICK len \in Nat : len = k.len
    BY <1>6
  <2>2. Left(made, word) = len - word[3] /\ word[3] \in 1 .. len /\ len <= MaxBurst
    BY <1>1, <1>5, <2>1 DEF Left
  <2> QED
    BY <2>2, Widths
<1>8. AddressOf(made, word) \in 0 .. AddrSpace - 1
  <2>1. PICK dest \in Nat : dest = k.dest
    BY <1>6
  <2>2. PICK x \in Nat : x = dest \div 4 + word[3] - 1
    <3>1. PICK y \in Nat : y = dest \div 4
      OBVIOUS
    <3>2. word[3] >= 1 /\ word[3] \in Nat
      BY <1>1, <1>2
    <3> QED
      BY <3>1, <3>2
  <2>3. AddressOf(made, word) = x % AddrSpace
    BY <1>5, <2>1, <2>2 DEF AddressOf
  <2> QED
    BY <2>3, DivisionFacts, Widths
<1> QED
  BY <1>1, <1>2, <1>4, <1>5, <1>6, <1>7, <1>8

WithCall(made, c, k) == [made EXCEPT ![c] = Append(made[c], k)]

\* Nothing that is said of a word changes with a further call.
LEMMA WordsKept ==
  ASSUME NEW made \in Histories, NEW c \in Cores, NEW k \in Calls, NEW new,
         new = WithCall(made, c, k), NEW word \in WordsOf(made)
  PROVE  /\ CallOf(new, word) = CallOf(made, word) /\ word \in WordsOf(new)
         /\ Open(new, word) = Open(made, word)
<1>1. /\ word \in Cores \X Nat \X Nat /\ word[2] \in 1 .. Len(made[word[1]])
      /\ word[3] \in 1 .. CallOf(made, word).len /\ CallOf(made, word).len <= MaxBurst
  BY InWordsOf
<1>2. PICK b \in Cores, n \in Nat : b = word[1] /\ n = word[2]
  BY <1>1
<1>3. new[b][n] = made[b][n] /\ n \in 1 .. Len(new[b])
  <2>1. made[b] \in Seq(Calls) /\ made[c] \in Seq(Calls) /\ n \in 1 .. Len(made[b])
    BY <1>1, <1>2 DEF Histories
  <2>2. CASE b = c
    <3>1. new[b] = Append(made[c], k)
      BY <2>2 DEF Histories, WithCall
    <3> QED
      BY <2>1, <2>2, <3>1
  <2>3. CASE b # c
    <3>1. new[b] = made[b]
      BY <2>3 DEF Histories, WithCall
    <3> QED
      BY <2>1, <3>1
  <2> QED
    BY <2>2, <2>3
<1>4. CallOf(new, word) = CallOf(made, word)
  BY <1>2, <1>3 DEF CallOf
<1>5. word[2] \in 1 .. Len(new[word[1]])
  BY <1>2, <1>3
<1>6. new \in Histories
  BY DEF Histories, WithCall
<1>7. word \in WordsOf(new)
  BY <1>1, <1>4, <1>5, <1>6, InWordsOf
<1>8. Open(new, word) = Open(made, word)
  BY <1>4 DEF Open, Left
<1> QED
  BY <1>4, <1>7, <1>8

LEMMA FlitsKept ==
  ASSUME NEW made \in Histories, NEW c \in Cores, NEW k \in Calls, NEW new,
         new = WithCall(made, c, k), NEW flit, FlitOK(made, flit)
  PROVE  /\ FlitOK(new, flit) /\ Before(new, flit) = Before(made, flit)
         /\ After(new, flit) = After(made, flit)
<1>1. CASE flit.flitType = "BODY"
  <2>1. flit.data \in WordsOf(made)
    BY <1>1 DEF FlitOK
  <2>2. flit.data \in WordsOf(new) /\ CallOf(new, flit.data) = CallOf(made, flit.data)
    BY <2>1, WordsKept
  <2>3. Left(new, flit.data) = Left(made, flit.data)
    BY <2>2 DEF Left
  <2>4. AddressOf(new, flit.data) = AddressOf(made, flit.data)
    BY <2>2 DEF AddressOf
  <2>5. FlitOK(new, flit)
    BY <1>1, <2>2 DEF FlitOK
  <2>6. Before(new, flit) = Before(made, flit)
    BY <1>1, <2>2, <2>3, <2>4 DEF Before
  <2>7. After(new, flit) = After(made, flit)
    BY <1>1, <2>2, <2>3, <2>4 DEF After
  <2> QED
    BY <2>5, <2>6, <2>7
<1>2. CASE flit.flitType = "HEAD"
  <2>1. FlitOK(new, flit)
    BY <1>2 DEF FlitOK
  <2> QED
    BY <1>2, <2>1 DEF Before, After
<1>3. CASE flit.flitType # "HEAD" /\ flit.flitType # "BODY"
  <2>1. FlitOK(new, flit)
    BY <1>3 DEF FlitOK
  <2> QED
    BY <1>3, <2>1 DEF Before, After
<1> QED
  BY <1>1, <1>2, <1>3

LEMMA StreamsKept ==
  ASSUME NEW made \in Histories, NEW c \in Cores, NEW k \in Calls, NEW new,
         new = WithCall(made, c, k), NEW s, IsStream(made, s)
  PROVE  /\ IsStream(new, s)
         /\ \A a, b : Chain(made, s, a, b) => Chain(new, s, a, b)
         /\ \A a : EndOf(new, s, a) = EndOf(made, s, a)
<1>1. /\ Len(s) \in Nat /\ s = [i \in 1 .. Len(s) |-> s[i]]
      /\ \A i \in 1 .. Len(s) : FlitOK(made, s[i])
  BY DEF IsStream
<1>2. ASSUME NEW i \in 1 .. Len(s)
      PROVE  /\ FlitOK(new, s[i]) /\ Before(new, s[i]) = Before(made, s[i])
             /\ After(new, s[i]) = After(made, s[i])
  <2>1. FlitOK(made, s[i])
    BY <1>1
  <2> QED
    BY <2>1, FlitsKept
<1>3. IsStream(new, s)
  BY <1>1, <1>2, Zenon DEF IsStream
<1>4. s # <<>> => Len(s) \in 1 .. Len(s) /\ 1 \in 1 .. Len(s)
  <2>1. PICK S : s \in Seq(S)
    BY StreamElements
  <2> QED
    BY <2>1
<1>5. ASSUME NEW a, NEW b, Chain(made, s, a, b)
      PROVE  Chain(new, s, a, b)
  <2>1. CASE s = <<>>
    BY <1>5, <2>1 DEF Chain
  <2>2. CASE s # <<>>
    <3>1. /\ Before(made, s[1]) = a /\ After(made, s[Len(s)]) = b
          /\ \A i \in 1 .. Len(s) - 1 : After(made, s[i]) = Before(made, s[i + 1])
      BY <1>5, <2>2 DEF Chain
    <3>2. Before(new, s[1]) = a /\ After(new, s[Len(s)]) = b
      BY <1>2, <1>4, <2>2, <3>1
    <3>3. ASSUME NEW i \in 1 .. Len(s) - 1
          PROVE  After(new, s[i]) = Before(new, s[i + 1])
      <4>1. i \in 1 .. Len(s) /\ i + 1 \in 1 .. Len(s)
        BY <1>1
      <4> QED
        BY <1>2, <3>1, <4>1
    <3> QED
      BY <2>2, <3>2, <3>3 DEF Chain
  <2> QED
    BY <2>1, <2>2
<1>6. ASSUME NEW a
      PROVE  EndOf(new, s, a) = EndOf(made, s, a)
  BY <1>2, <1>4 DEF EndOf
<1> QED
  BY <1>3, <1>5, <1>6

\* Where a flit stands, by its type.
LEMMA Kinds ==
  ASSUME NEW made \in Histories, NEW flit, FlitOK(made, flit)
  PROVE  \/ /\ flit.flitType = "HEAD" /\ flit.data \in Nat /\ CoreField(flit.data) \in Cores
            /\ Before(made, flit) = NoMessage
            /\ BurstField(flit.data) \in 0 .. MaxBurst - 1
            /\ AddrField(flit.data) \in 0 .. AddrSpace - 1
            /\ After(made, flit) = [left |-> BurstField(flit.data) + 1,
                                    addr |-> AddrField(flit.data), to |-> CoreField(flit.data),
                                    front |-> NoWord]
         \/ /\ flit.flitType = "BODY" /\ flit.data \in WordsOf(made)
            /\ Before(made, flit) = [left |-> Left(made, flit.data) + 1,
                                     addr |-> AddressOf(made, flit.data),
                                     to |-> CallOf(made, flit.data).to,
                                     front |-> FrontOf(flit.data)]
            /\ After(made, flit) = Within(Left(made, flit.data),
                                          (AddressOf(made, flit.data) + 1) % AddrSpace,
                                          CallOf(made, flit.data).to, flit.data)
         \/ /\ flit.flitType = "TAIL" /\ Before(made, flit) = OnlyTail
            /\ After(made, flit) = NoMessage
<1>1. CASE flit.flitType = "HEAD"
  <2>1. flit.data \in Nat /\ CoreField(flit.data) \in Cores
    BY <1>1 DEF FlitOK
  <2>2. Before(made, flit) = NoMessage
    BY <1>1 DEF Before
  <2>3. PICK x \in Nat : x = flit.data
    BY <2>1
  <2>4. BurstField(x) \in 0 .. MaxBurst - 1 /\ AddrField(x) \in 0 .. AddrSpace - 1
    <3>1. PICK A \in Nat \ {0} : A = AddrSpace
      BY Widths
    <3>2. PICK L \in Nat \ {0} : L = 4 * A
      OBVIOUS
    <3>3. PICK y \in Nat, z \in Nat : y = x \div L /\ z = x \div 4
      OBVIOUS
    <3>4. BurstField(x) = y % MaxBurst /\ AddrField(x) = z % A
      BY <3>1, <3>2, <3>3 DEF BurstField, AddrField
    <3>5. z % A \in 0 .. A - 1
      BY DivisionFacts
    <3>6. y % MaxBurst \in 0 .. MaxBurst - 1
      BY DivisionFacts, Widths
    <3> QED
      BY <3>1, <3>4, <3>5, <3>6
  <2>5. BurstField(x) + 1 # 0
    BY <2>4, Widths
  <2>6. After(made, flit) = [left |-> BurstField(flit.data) + 1,
                             addr |-> AddrField(flit.data), to |-> CoreField(flit.data),
                             front |-> NoWord]
    BY <1>1, <2>3, <2>5 DEF After, Within
  <2> QED
    BY <1>1, <2>1, <2>2, <2>3, <2>4, <2>6
<1>2. CASE flit.flitType = "BODY"
  <2>1. flit.data \in WordsOf(made)
    BY <1>2 DEF FlitOK
  <2>2. Left(made, flit.data) + 1 # 0
    BY <2>1, WordFacts, Widths
  <2>3. Before(made, flit) = [left |-> Left(made, flit.data) + 1,
                              addr |-> AddressOf(made, flit.data),
                              to |-> CallOf(made, flit.data).to,
                              front |-> FrontOf(flit.data)]
    BY <1>2, <2>2 DEF Before, Within
  <2> QED
    BY <1>2, <2>1, <2>3 DEF After
<1>3. CASE flit.flitType # "HEAD" /\ flit.flitType # "BODY"
  <2>1. flit.flitType = "TAIL"
    BY <1>3 DEF FlitOK
  <2> QED
    BY <2>1 DEF Before, After
<1> QED
  BY <1>1, <1>2, <1>3

-----------------------------------------------------------------------------
\* The flits that bsp_put queues are a whole message.

LEMMA OneFlit ==
  ASSUME NEW made, NEW flit, FlitOK(made, flit)
  PROVE  /\ IsStream(made, <<flit>>)
         /\ Chain(made, <<flit>>, Before(made, flit), After(made, flit))
<1>1. <<flit>> \in Seq({flit}) /\ <<flit>> # <<>> /\ Len(<<flit>>) = 1 /\ <<flit>>[1] = flit
  OBVIOUS
<1> DEFINE S == {flit}
           s == <<flit>>
<1>2. \A f \in S : FlitOK(made, f)
  OBVIOUS
<1>3. s \in Seq(S) /\ s # <<>> /\ Len(s) = 1 /\ s[1] = flit
  BY <1>1
<1> HIDE DEF S, s
<1>4. IsStream(made, s)
  BY <1>2, <1>3, StreamOf
<1>5. Chain(made, s, Before(made, flit), After(made, flit))
  BY <1>3 DEF Chain
<1> QED
  BY <1>4, <1>5 DEF s

\* Before word i of call k, the n-th of core c.
Place(c, n, k, i) == Within(k.len - i + 1, (k.dest \div 4 + i - 1) % AddrSpace, k.to,
                            IF i = 1 THEN NoWord ELSE <<c, n, i - 1>>)

\* k is call number n of core c, and one that is sent.
IsCall(made, c, n, k) == /\ c \in Cores /\ n \in Nat /\ k \in Calls
                         /\ k.len \in 1 .. MaxBurst
                         /\ n \in 1 .. Len(made[c]) /\ made[c][n] = k

\* The flit with word i of that call.
IsBody(flit, c, n, i) == flit.flitType = "BODY" /\ flit.data = <<c, n, i>>

LEMMA BodyFacts ==
  ASSUME NEW made \in Histories, NEW c, NEW n, NEW k, IsCall(made, c, n, k),
         NEW i \in 1 .. k.len, NEW flit, IsBody(flit, c, n, i)
  PROVE  /\ FlitOK(made, flit)
         /\ Before(made, flit) = Place(c, n, k, i) /\ After(made, flit) = Place(c, n, k, i + 1)
<1> USE DEF IsCall, IsBody
<1>1. PICK len \in Nat, dest \in Nat : len = k.len /\ dest = k.dest
  BY CallFacts
<1>2. i \in Nat /\ i >= 1 /\ i <= len
  BY <1>1
<1>3. PICK word : word = <<c, n, i>>
  OBVIOUS
<1>4. /\ word \in Cores \X Nat \X Nat /\ word[1] = c /\ word[2] = n /\ word[3] = i
  BY <1>2, <1>3
<1>5. CallOf(made, word) = k
  BY <1>4 DEF CallOf
<1>6. word \in WordsOf(made)
  BY <1>1, <1>2, <1>4, <1>5, Widths, InWordsOf
<1>7. Left(made, word) = k.len - i
  BY <1>4, <1>5 DEF Left
<1>8. AddressOf(made, word) = (k.dest \div 4 + i - 1) % AddrSpace
  BY <1>4, <1>5 DEF AddressOf
<1>9. (((k.dest \div 4 + i - 1) % AddrSpace) + 1) % AddrSpace = (k.dest \div 4 + i) % AddrSpace
  <2>1. PICK A \in Nat \ {0} : A = AddrSpace
    BY Widths
  <2>2. PICK w \in Nat : w = dest \div 4
    OBVIOUS
  <2>3. PICK x \in Nat : x = w + i - 1
    BY <1>2
  <2>4. w + i = x + 1
    BY <1>2, <2>3
  <2>5. ((x % A) + 1) % A = (x + 1) % A
    BY NextRemainder
  <2> QED
    BY <1>1, <2>1, <2>2, <2>3, <2>4, <2>5
<1>10. flit.flitType = "BODY" /\ flit.data = word
  BY <1>3
<1>11. FlitOK(made, flit)
  BY <1>6, <1>10 DEF FlitOK
<1>12. Before(made, flit) = Place(c, n, k, i)
  BY <1>4, <1>5, <1>7, <1>8, <1>10 DEF Before, Place, FrontOf
<1>13. After(made, flit) = Place(c, n, k, i + 1)
  <2>1. After(made, flit) = Within(k.len - i, (k.dest \div 4 + i) % AddrSpace, k.to, <<c, n, i>>)
    BY <1>3, <1>5, <1>7, <1>8, <1>9, <1>10 DEF After
  <2>2. len - (i + 1) + 1 = len - i /\ i + 1 # 1 /\ (i + 1) - 1 = i
    BY <1>2
  <2>3. PICK w \in Nat : w = k.dest \div 4 /\ w + (i + 1) - 1 = w + i
    <3>1. PICK w \in Nat : w = dest \div 4
      OBVIOUS
    <3>2. w + (i + 1) - 1 = w + i
      BY <1>2
    <3> QED
      BY <1>1, <3>1, <3>2
  <2> QED
    BY <1>1, <2>1, <2>2, <2>3 DEF Place
<1> QED
  BY <1>11, <1>12, <1>13

LEMMA BodiesFacts ==
  ASSUME NEW made \in Histories, NEW c, NEW n, NEW k, IsCall(made, c, n, k),
         NEW T, NEW s \in Seq(T), Len(s) = k.len, \A i \in 1 .. k.len : IsBody(s[i], c, n, i)
  PROVE  /\ IsStream(made, s)
         /\ Chain(made, s, Within(k.len, (k.dest \div 4) % AddrSpace, k.to, NoWord), OnlyTail)
<1>1. PICK len \in Nat, w \in Nat : len = k.len /\ w = k.dest \div 4 /\ len >= 1
  <2>1. PICK dest \in Nat : dest = k.dest
    BY CallFacts DEF IsCall
  <2>2. dest \div 4 \in Nat
    OBVIOUS
  <2> QED
    BY <2>1, <2>2, CallFacts DEF IsCall
<1>2. ASSUME NEW i \in 1 .. len
      PROVE  /\ FlitOK(made, s[i])
             /\ Before(made, s[i]) = Place(c, n, k, i) /\ After(made, s[i]) = Place(c, n, k, i + 1)
  <2>1. i \in 1 .. k.len /\ IsBody(s[i], c, n, i)
    BY <1>1
  <2> QED
    BY <2>1, BodyFacts
<1>3. Len(s) = len
  BY <1>1
<1>4. s = [i \in 1 .. Len(s) |-> s[i]]
  OBVIOUS
<1>5. IsStream(made, s)
  BY <1>2, <1>3, <1>4, Zenon DEF IsStream
<1>6. s # <<>>
  BY <1>1, <1>3
<1>7. Before(made, s[1]) = Within(k.len, (k.dest \div 4) % AddrSpace, k.to, NoWord)
  <2>1. 1 \in 1 .. len /\ len - 1 + 1 = len /\ w + 1 - 1 = w
    BY <1>1
  <2>2. Place(c, n, k, 1) = Within(k.len, (k.dest \div 4) % AddrSpace, k.to, NoWord)
    BY <1>1, <2>1 DEF Place
  <2> QED
    BY <1>2, <2>1, <2>2
<1>8. After(made, s[Len(s)]) = OnlyTail
  <2>1. len \in 1 .. len /\ len - (len + 1) + 1 = 0
    BY <1>1
  <2>2. Place(c, n, k, len + 1) = OnlyTail
    BY <1>1, <2>1 DEF Place, Within
  <2> QED
    BY <1>2, <1>3, <2>1, <2>2
<1>9. ASSUME NEW i \in 1 .. Len(s) - 1
      PROVE  After(made, s[i]) = Before(made, s[i + 1])
  <2>1. /\ i \in 1 .. len /\ i + 1 \in 1 .. len
    BY <1>3
  <2> QED
    BY <1>2, <2>1
<1>10. Chain(made, s, Within(k.len, (k.dest \div 4) % AddrSpace, k.to, NoWord), OnlyTail)
  BY <1>6, <1>7, <1>8, <1>9 DEF Chain
<1> QED
  BY <1>5, <1>10

LEMMA PacketFacts ==
  ASSUME NEW made \in Histories, NEW c, NEW n, NEW k, IsCall(made, c, n, k)
  PROVE  /\ IsStream(made, PacketOf(c, n, k))
         /\ Chain(made, PacketOf(c, n, k), NoMessage, NoMessage)
<1> DEFINE head   == [flitType |-> "HEAD", data |-> PackHead(k)]
           bodies == [i \in 1 .. k.len |-> [flitType |-> "BODY", data |-> <<c, n, i>>]]
           tail   == [flitType |-> "TAIL", data |-> 0]
           start  == Within(k.len, (k.dest \div 4) % AddrSpace, k.to, NoWord)
<1>1. PacketOf(c, n, k) = (<<head>> \o bodies) \o <<tail>>
  BY DEF PacketOf
<1>2. FlitOK(made, head) /\ Before(made, head) = NoMessage /\ After(made, head) = start
  <2>1. head.flitType = "HEAD" /\ head.data = PackHead(k)
    OBVIOUS
  <2> HIDE DEF head
  <2>2. FlitOK(made, head)
    BY <2>1, PackedFields, CallFacts DEF FlitOK, IsCall
  <2>3. After(made, head) = start
    BY <2>1, PackedFields DEF After, IsCall
  <2> QED
    BY <2>1, <2>2, <2>3 DEF Before
<1>3. IsStream(made, bodies) /\ Chain(made, bodies, start, OnlyTail)
  <2> DEFINE T == {bodies[i] : i \in 1 .. k.len}
  <2>1. bodies \in [1 .. k.len -> T] /\ \A i \in 1 .. k.len : IsBody(bodies[i], c, n, i)
    BY DEF IsBody
  <2>2. PICK len \in Nat : len = k.len
    BY CallFacts DEF IsCall
  <2> HIDE DEF bodies, T
  <2>3. bodies \in Seq(T) /\ Len(bodies) = k.len
    <3>1. bodies \in [1 .. len -> T]
      BY <2>1, <2>2
    <3>2. bodies \in Seq(T)
      BY <3>1, SeqDef
    <3> QED
      BY <2>2, <3>1, <3>2, LenProperties
  <2> QED
    BY <2>1, <2>3, BodiesFacts
<1>4. FlitOK(made, tail) /\ Before(made, tail) = OnlyTail /\ After(made, tail) = NoMessage
  BY DEF FlitOK, Before, After
<1> HIDE DEF head, bodies, tail, start
<1>5. IsStream(made, <<head>>) /\ Chain(made, <<head>>, NoMessage, start)
  BY <1>2, OneFlit
<1>6. IsStream(made, <<tail>>) /\ Chain(made, <<tail>>, OnlyTail, NoMessage)
  BY <1>4, OneFlit
<1>7. /\ IsStream(made, <<head>> \o bodies)
      /\ Chain(made, <<head>> \o bodies, NoMessage, OnlyTail)
  BY <1>3, <1>5, StreamsJoined
<1>8. /\ IsStream(made, (<<head>> \o bodies) \o <<tail>>)
      /\ Chain(made, (<<head>> \o bodies) \o <<tail>>, NoMessage, NoMessage)
  BY <1>6, <1>7, StreamsJoined
<1> QED
  BY <1>1, <1>8

-----------------------------------------------------------------------------
\* The inductive invariant without what follows from it.

Inner == /\ TypeOK /\ StreamsOK /\ WordsInPlace /\ WordsJoined
         /\ SendersInOrder /\ ReceiversInOrder /\ HeadsArrive

LEMMA WithinFacts ==
  ASSUME NEW left \in 0 .. MaxBurst, NEW addr, NEW to, NEW front
  PROVE  /\ Within(left, addr, to, front) # NoMessage /\ Within(left, addr, to, front).left = left
         /\ left # 0 => Within(left, addr, to, front) =
                          [left |-> left, addr |-> addr, to |-> to, front |-> front]
         /\ OnlyTail # NoMessage /\ NoMessage.left = -1 /\ OnlyTail.left = 0
<1>1. /\ NoMessage.left = -1 /\ OnlyTail.left = 0 /\ OnlyTail # NoMessage
  BY DEF NoMessage, OnlyTail
<1>2. Within(left, addr, to, front).left = left
  BY DEF Within, OnlyTail
<1>3. left \in Nat
  OBVIOUS
<1>4. left # 0 => Within(left, addr, to, front) =
                    [left |-> left, addr |-> addr, to |-> to, front |-> front]
  BY DEF Within
<1> QED
  BY <1>1, <1>2, <1>3, <1>4

LEMMA Ends ==
  ASSUME NEW made \in Histories, NEW flit, FlitOK(made, flit)
  PROVE  /\ Before(made, flit) = NoMessage <=> flit.flitType = "HEAD"
         /\ After(made, flit) = NoMessage <=> flit.flitType = "TAIL"
<1>1. CASE flit.flitType = "HEAD"
  <2>1. /\ Before(made, flit) = NoMessage /\ BurstField(flit.data) \in 0 .. MaxBurst - 1
        /\ After(made, flit) = [left |-> BurstField(flit.data) + 1,
                                addr |-> AddrField(flit.data), to |-> CoreField(flit.data),
                                front |-> NoWord]
    BY <1>1, Kinds
  <2>2. After(made, flit).left # -1
    BY <2>1, Widths
  <2> QED
    BY <1>1, <2>1, <2>2 DEF NoMessage
<1>2. CASE flit.flitType = "BODY"
  <2>1. /\ flit.data \in WordsOf(made)
        /\ Before(made, flit) = [left |-> Left(made, flit.data) + 1,
                                 addr |-> AddressOf(made, flit.data),
                                 to |-> CallOf(made, flit.data).to,
                                 front |-> FrontOf(flit.data)]
        /\ After(made, flit) = Within(Left(made, flit.data),
                                      (AddressOf(made, flit.data) + 1) % AddrSpace,
                                      CallOf(made, flit.data).to, flit.data)
    BY <1>2, Kinds
  <2>2. Left(made, flit.data) \in 0 .. MaxBurst - 1 /\ Left(made, flit.data) \in 0 .. MaxBurst
    BY <2>1, WordFacts, Widths
  <2>3. Before(made, flit).left # -1
    BY <2>1, <2>2
  <2>4. After(made, flit) # NoMessage
    BY <2>1, <2>2, WithinFacts
  <2> QED
    BY <1>2, <2>3, <2>4 DEF NoMessage
<1>3. CASE flit.flitType = "TAIL"
  <2>1. Before(made, flit) = OnlyTail /\ After(made, flit) = NoMessage
    BY <1>3, Kinds
  <2> QED
    BY <1>3, <2>1 DEF OnlyTail, NoMessage
<1> QED
  BY <1>1, <1>2, <1>3, Kinds

\* A receiver that has "left" words to come, and its stream behind incoming.
ReceiverAt(d, left, end) ==
  /\ EngineAt(engine[d], left)
  /\ left <= 0 => Open(calls, Recent(d)) = NoWord
  /\ Chain(calls, incoming[d], Handled(d, left), end)
  /\ passing[d] = None <=> end = NoMessage
  /\ \A c \in Cores : Chain(calls, net[<<c, d>>],
                            IF passing[d] = c THEN end ELSE NoMessage,
                            IF route[c] = d THEN Upcoming(c) ELSE NoMessage)

LEMMA ReceiverNow ==
  ASSUME ReceiversInOrder, NEW d \in Cores
  PROVE  \E left \in -1 .. MaxBurst : \E end : ReceiverAt(d, left, end)
  BY DEF ReceiversInOrder, ReceiverAt

LEMMA ReceiversNext ==
  ASSUME \A d \in Cores : \E left \in -1 .. MaxBurst : \E end : ReceiverAt(d, left, end)'
  PROVE  ReceiversInOrder'
<1> SUFFICES ASSUME NEW d \in Cores
             PROVE  \E left \in -1 .. MaxBurst :
                      (LET end == EndOf(calls, incoming[d], Handled(d, left))
                       IN  /\ EngineAt(engine[d], left)
                           /\ left <= 0 => Open(calls, Recent(d)) = NoWord
                           /\ Chain(calls, incoming[d], Handled(d, left), end)
                           /\ passing[d] = None <=> end = NoMessage
                           /\ \A c \in Cores : Chain(calls, net[<<c, d>>],
                                IF passing[d] = c THEN end ELSE NoMessage,
                                IF route[c] = d THEN Upcoming(c) ELSE NoMessage))'
  BY DEF ReceiversInOrder
<1>1. PICK left \in -1 .. MaxBurst : \E end : ReceiverAt(d, left, end)'
  OBVIOUS
<1>2. PICK end : ReceiverAt(d, left, end)'
  BY <1>1
<1>3. Chain(calls', incoming'[d], Handled(d, left)', end)
  BY <1>2 DEF ReceiverAt
<1>4. end = EndOf(calls', incoming'[d], Handled(d, left)')
  BY <1>3, ChainEnds
<1> QED
  BY <1>2, <1>4 DEF ReceiverAt

\* A step that the receivers and the network do not notice.
LEMMA ReceiversUntouched ==
  ASSUME ReceiversInOrder, HeadsArrive,
         UNCHANGED <<calls, engine, incoming, passing, net, route>>,
         \A c \in Cores : Upcoming(c)' = Upcoming(c) /\ Recent(c)' = Recent(c)
  PROVE  ReceiversInOrder' /\ HeadsArrive'
<1>1. ASSUME NEW d \in Cores
      PROVE  \E left \in -1 .. MaxBurst : \E end : ReceiverAt(d, left, end)'
  <2>1. PICK left \in -1 .. MaxBurst : \E end : ReceiverAt(d, left, end)
    BY ReceiverNow
  <2>2. PICK end : ReceiverAt(d, left, end)
    BY <2>1
  <2>3. Handled(d, left)' = Handled(d, left)
    BY DEF Handled
  <2>4. ReceiverAt(d, left, end)'
    BY <2>2, <2>3 DEF ReceiverAt
  <2> QED
    BY <2>4
<1>2. ReceiversInOrder'
  BY <1>1, ReceiversNext
<1>3. HeadsArrive'
  BY DEF HeadsArrive
<1> QED
  BY <1>2, <1>3

-----------------------------------------------------------------------------
\* One lemma per action.  First what the sender does alone.

LEMMA CoreTypes ==
  ASSUME Inner, NEW c \in Cores
  PROVE  /\ calls \in Histories
         /\ IsStream(calls, bspQueue[c]) /\ IsStream(calls, outgoingFlits[c])
         /\ IsStream(calls, incoming[c])
         /\ \A d \in Cores : IsStream(calls, net[<<c, d>>])
         /\ outgoing[c] \in Seq([addr : 0 .. AddrSpace - 1, word : WordsOf(calls)])
         /\ latest[c] \in {NoWord} \cup WordsOf(calls)
         /\ Len(bspQueue[c]) \in Nat /\ bspRdPtr[c] \in Nat
         /\ sending[c] => bspRdPtr[c] \in 0 .. Len(bspQueue[c])
         /\ Chain(calls, bspQueue[c], NoMessage, NoMessage)
         /\ Chain(calls, outgoingFlits[c], Upcoming(c), Queued(c))
         /\ route[c] = None <=> Upcoming(c) = NoMessage
  BY DEF Inner, TypeOK, StreamsOK, SendersInOrder, Histories, IsStream

LEMMA RecentType ==
  ASSUME Inner, NEW d \in Cores
  PROVE  Recent(d) \in {NoWord} \cup WordsOf(calls)
<1> DEFINE Requests == [addr : 0 .. AddrSpace - 1, word : WordsOf(calls)]
<1>1. outgoing[d] \in Seq(Requests) /\ latest[d] \in {NoWord} \cup WordsOf(calls)
  BY CoreTypes
<1>2. ASSUME outgoing[d] # <<>>
      PROVE  outgoing[d][Len(outgoing[d])] \in Requests
  <2> HIDE DEF Requests
  <2>1. Len(outgoing[d]) \in 1 .. Len(outgoing[d])
    BY <1>1, <1>2
  <2> QED
    BY <1>1, <2>1, ElementOfSeq
<1> QED
  BY <1>1, <1>2 DEF Recent

\* Nothing that these depend on changes.
LEMMA RecentKept ==
  ASSUME UNCHANGED <<outgoing, latest>>
  PROVE  \A d : Recent(d)' = Recent(d)
  BY DEF Recent

LEMMA BeginSendStep ==
  ASSUME Inner, NEW c \in Cores, BeginSend(c)
  PROVE  Inner' /\ \A b \in Cores : Upcoming(b)' = Upcoming(b)
<1> USE DEF BeginSend, netVars, feVars, memVars
<1>1. \A b \in Cores : Queued(b)' = Queued(b)
  <2>1. sending \in [Cores -> BOOLEAN] /\ DOMAIN bspRdPtr = Cores
    BY DEF Inner, TypeOK, StreamsOK
  <2>2. ~sending[c] /\ ~(bspRdPtr'[c] > 0)
    BY <2>1
  <2>3. Queued(c) = NoMessage
    BY <2>2, Zenon DEF Queued
  <2>4. Queued(c)' = NoMessage
    BY <2>2, Zenon DEF Queued
  <2>5. \A b \in Cores : b # c => sending'[b] = sending[b] /\ bspRdPtr'[b] = bspRdPtr[b]
    BY <2>1
  <2>6. \A b \in Cores : b # c => Queued(b)' = Queued(b)
    BY <2>5 DEF Queued
  <2> QED
    BY <2>3, <2>4, <2>6
<1>2. \A b \in Cores : Upcoming(b)' = Upcoming(b)
  BY <1>1 DEF Upcoming
<1>3. TypeOK'
  <2>1. Len(bspQueue[c]) \in Nat
    BY CoreTypes
  <2>2. \A b \in Cores : bspRdPtr'[b] \in 0 .. Len(bspQueue'[b]) \/ ~sending'[b]
    BY <2>1 DEF Inner, TypeOK, StreamsOK
  <2>3. sending' \in [Cores -> BOOLEAN]
    BY DEF Inner, TypeOK
  <2> QED
    BY <2>2, <2>3 DEF Inner, TypeOK
<1>4. StreamsOK'
  BY DEF Inner, StreamsOK
<1>5. WordsInPlace' /\ WordsJoined'
  BY DEF Inner, WordsInPlace, WordsJoined
<1>6. SendersInOrder'
  BY <1>1, <1>2 DEF Inner, SendersInOrder
<1>7. ReceiversInOrder' /\ HeadsArrive'
  <2>1. \A b \in Cores : Recent(b)' = Recent(b)
    BY RecentKept
  <2> QED
    BY <1>2, <2>1, ReceiversUntouched DEF Inner
<1> QED
  BY <1>2, <1>3, <1>4, <1>5, <1>6, <1>7 DEF Inner

LEMMA SendFlitStep ==
  ASSUME Inner, NEW c \in Cores, SendFlit(c)
  PROVE  Inner' /\ \A b \in Cores : Upcoming(b)' = Upcoming(b)
<1> DEFINE q == bspQueue[c]
           p == bspRdPtr[c]
           flit == q[p + 1]
<1>1. /\ sending[c] /\ p < Len(q) /\ p \in Nat /\ Len(q) \in Nat /\ p + 1 \in 1 .. Len(q)
      /\ Len(outgoingFlits[c]) < FifoDepth
  BY CoreTypes DEF SendFlit
<1>2. FlitOK(calls, flit)
  BY <1>1, CoreTypes DEF IsStream
<1>3. Before(calls, flit) = Queued(c)
  <2>1. Before(calls, flit) = IF p + 1 = 1 THEN NoMessage ELSE After(calls, q[(p + 1) - 1])
    BY <1>1, CoreTypes, ChainLink
  <2>2. (p + 1) - 1 = p /\ (p + 1 = 1 <=> p = 0) /\ (p > 0 <=> p # 0)
    BY <1>1
  <2> QED
    BY <1>1, <2>1, <2>2 DEF Queued
<1>4. /\ IsStream(calls, Append(outgoingFlits[c], flit))
      /\ Chain(calls, Append(outgoingFlits[c], flit), Upcoming(c), After(calls, flit))
  <2> HIDE DEF flit, p, q
  <2> QED
    BY <1>2, <1>3, CoreTypes, StreamLonger
<1>5. DOMAIN outgoingFlits = Cores /\ DOMAIN bspRdPtr = Cores
  BY DEF Inner, StreamsOK
<1>6. /\ outgoingFlits'[c] = Append(outgoingFlits[c], flit) /\ bspRdPtr'[c] = p + 1
      /\ UNCHANGED <<sending, bspQueue, calls, netVars, feVars, memVars>>
      /\ \A b \in Cores : b # c => /\ outgoingFlits'[b] = outgoingFlits[b]
                                   /\ bspRdPtr'[b] = bspRdPtr[b]
      /\ DOMAIN outgoingFlits' = Cores /\ bspRdPtr' \in [Cores -> Nat]
  <2>1. bspRdPtr \in [Cores -> Nat]
    BY DEF Inner, StreamsOK
  <2> QED
    BY <1>1, <1>5, <2>1 DEF SendFlit
<1>7. Queued(c)' = After(calls, flit)
  <2>1. p + 1 > 0
    BY <1>1
  <2> QED
    BY <1>1, <1>6, <2>1 DEF Queued
<1> HIDE DEF flit, p, q
<1>8. Upcoming(c)' = Upcoming(c)
  <2>1. Append(outgoingFlits[c], flit) # <<>>
    <3>1. PICK S : outgoingFlits[c] \in Seq(S)
      BY CoreTypes, StreamElements
    <3> DEFINE T == S \cup {flit}
    <3>2. outgoingFlits[c] \in Seq(T) /\ flit \in T
      BY <3>1
    <3> HIDE DEF T
    <3> QED
      BY <3>2, AppendProperties
  <2>2. Upcoming(c) = Before(calls, Append(outgoingFlits[c], flit)[1])
    BY <1>4, <2>1, ChainEnds
  <2> QED
    BY <1>6, <2>1, <2>2 DEF Upcoming
<1>9. \A b \in Cores : b # c => Queued(b)' = Queued(b) /\ Upcoming(b)' = Upcoming(b)
  BY <1>6 DEF Queued, Upcoming
<1>10. TypeOK'
  <2>1. Len(outgoingFlits'[c]) <= FifoDepth
    <3>1. PICK S : outgoingFlits[c] \in Seq(S)
      BY CoreTypes, StreamElements
    <3> DEFINE T == S \cup {flit}
    <3>2. outgoingFlits[c] \in Seq(T) /\ flit \in T
      BY <3>1
    <3> HIDE DEF T
    <3>3. Len(Append(outgoingFlits[c], flit)) = Len(outgoingFlits[c]) + 1
          /\ Len(outgoingFlits[c]) \in Nat
      BY <3>2, AppendProperties
    <3>4. FifoDepth \in Nat
      BY RemotePutAssumption
    <3> QED
      BY <1>1, <1>6, <3>3, <3>4
  <2>2. \A b \in Cores : Len(outgoingFlits'[b]) <= FifoDepth
    BY <1>6, <2>1 DEF Inner, TypeOK
  <2>3. \A b \in Cores : bspRdPtr'[b] \in 0 .. Len(bspQueue'[b]) \/ ~sending'[b]
    <3>1. p + 1 \in 0 .. Len(bspQueue[c])
      BY <1>1 DEF p, q
    <3> QED
      BY <1>6, <3>1 DEF Inner, TypeOK
  <2> QED
    BY <1>6, <2>2, <2>3 DEF Inner, TypeOK, netVars, feVars, memVars
<1>11. StreamsOK'
  BY <1>4, <1>6 DEF Inner, StreamsOK, netVars, feVars, memVars
<1>12. WordsInPlace' /\ WordsJoined'
  BY <1>6 DEF Inner, WordsInPlace, WordsJoined, netVars, feVars, memVars
<1>13. SendersInOrder'
  <2> SUFFICES ASSUME NEW b \in Cores
               PROVE  /\ Chain(calls', bspQueue'[b], NoMessage, NoMessage)
                      /\ Chain(calls', outgoingFlits'[b], Upcoming(b)', Queued(b)')
                      /\ route'[b] = None <=> Upcoming(b)' = NoMessage
    BY DEF SendersInOrder
  <2>1. CASE b = c
    BY <1>4, <1>6, <1>7, <1>8, <2>1, CoreTypes DEF netVars
  <2>2. CASE b # c
    BY <1>6, <1>9, <2>2, CoreTypes DEF netVars
  <2> QED
    BY <2>1, <2>2
<1>14. ReceiversInOrder' /\ HeadsArrive'
  <2>1. \A b \in Cores : Upcoming(b)' = Upcoming(b) /\ Recent(b)' = Recent(b)
    BY <1>6, <1>8, <1>9, RecentKept DEF feVars, memVars
  <2>2. UNCHANGED <<calls, engine, incoming, passing, net, route>>
    BY <1>6 DEF netVars, feVars
  <2> QED
    BY <2>1, <2>2, ReceiversUntouched DEF Inner
<1> QED
  BY <1>8, <1>9, <1>10, <1>11, <1>12, <1>13, <1>14 DEF Inner

LEMMA EndSendStep ==
  ASSUME Inner, NEW c \in Cores, EndSend(c)
  PROVE  Inner' /\ \A b \in Cores : Upcoming(b)' = Upcoming(b)
<1>1. sending[c] /\ bspRdPtr[c] = Len(bspQueue[c])
  BY DEF EndSend
<1>2. /\ ~sending'[c] /\ bspQueue'[c] = <<>>
      /\ UNCHANGED <<bspRdPtr, calls, outgoingFlits, netVars, feVars, memVars>>
      /\ \A b \in Cores : b # c => bspQueue'[b] = bspQueue[b] /\ sending'[b] = sending[b]
      /\ DOMAIN bspQueue' = Cores /\ sending' \in [Cores -> BOOLEAN]
  BY DEF EndSend, Inner, TypeOK, StreamsOK
<1>3. Queued(c) = NoMessage
  <2>1. CASE bspRdPtr[c] > 0
    <3>1. bspQueue[c] # <<>>
      BY <1>1, <2>1
    <3> QED
      BY <1>1, <2>1, <3>1, CoreTypes DEF Queued, Chain
  <2>2. CASE ~(bspRdPtr[c] > 0)
    BY <2>2 DEF Queued
  <2> QED
    BY <2>1, <2>2
<1>4. \A b \in Cores : Queued(b)' = Queued(b)
  BY <1>2, <1>3 DEF Queued
<1>5. \A b \in Cores : Upcoming(b)' = Upcoming(b)
  BY <1>2, <1>4 DEF Upcoming
<1>6. TypeOK'
  <2>1. \A b \in Cores : bspRdPtr'[b] \in 0 .. Len(bspQueue'[b]) \/ ~sending'[b]
    BY <1>2 DEF Inner, TypeOK
  <2> QED
    BY <1>2, <2>1 DEF Inner, TypeOK, netVars, feVars, memVars
<1>7. StreamsOK'
  <2>1. IsStream(calls, <<>>)
    BY EmptyStream
  <2> QED
    BY <1>2, <2>1 DEF Inner, StreamsOK, netVars, feVars, memVars
<1>8. WordsInPlace' /\ WordsJoined'
  BY <1>2 DEF Inner, WordsInPlace, WordsJoined, netVars, feVars, memVars
<1>9. SendersInOrder'
  <2>1. Chain(calls, <<>>, NoMessage, NoMessage)
    BY ChainEmpty
  <2> QED
    BY <1>2, <1>4, <1>5, <2>1 DEF Inner, SendersInOrder, netVars
<1>10. ReceiversInOrder' /\ HeadsArrive'
  <2>1. \A b \in Cores : Recent(b)' = Recent(b)
    BY <1>2, RecentKept DEF feVars, memVars
  <2> QED
    BY <1>2, <1>5, <2>1, ReceiversUntouched DEF Inner, netVars, feVars
<1> QED
  BY <1>5, <1>6, <1>7, <1>8, <1>9, <1>10 DEF Inner

\* A further call leaves what is under way as it is.
LEMMA PutStep ==
  ASSUME Inner, NEW c \in Cores, NEW k \in Calls, bsp_put(c, k)
  PROVE  Inner' /\ \A b \in Cores : Upcoming(b)' = Upcoming(b)
<1> DEFINE n == Len(calls[c]) + 1
<1>1. calls \in Histories /\ calls[c] \in Seq(Calls)
  BY CoreTypes DEF Histories
<1>2. calls' = WithCall(calls, c, k)
  BY DEF bsp_put, WithCall
<1>3. /\ ~sending[c]
      /\ UNCHANGED <<sending, bspRdPtr, outgoingFlits, netVars, feVars, memVars>>
  BY DEF bsp_put
<1>4. calls' \in Histories
  BY <1>1, <1>2 DEF Histories, WithCall
<1>5. n \in Nat /\ n \in 1 .. Len(calls'[c]) /\ calls'[c][n] = k
  <2>1. calls'[c] = Append(calls[c], k)
    BY <1>1, <1>2 DEF WithCall, Histories
  <2> QED
    BY <1>1, <2>1, AppendProperties
<1> HIDE DEF n
<1>6. ASSUME NEW s, IsStream(calls, s)
      PROVE  /\ IsStream(calls', s)
             /\ \A a, b : Chain(calls, s, a, b) => Chain(calls', s, a, b)
  BY <1>1, <1>2, <1>6, StreamsKept
<1>7. ASSUME NEW flit, FlitOK(calls, flit)
      PROVE  Before(calls', flit) = Before(calls, flit) /\ After(calls', flit) = After(calls, flit)
  BY <1>1, <1>2, <1>7, FlitsKept
<1>8. ASSUME NEW word \in WordsOf(calls)
      PROVE  /\ CallOf(calls', word) = CallOf(calls, word) /\ word \in WordsOf(calls')
             /\ Open(calls', word) = Open(calls, word)
  BY <1>1, <1>2, WordsKept
<1>9. \/ bspQueue' = bspQueue
      \/ /\ IsCall(calls', c, n, k)
         /\ bspQueue'[c] = bspQueue[c] \o PacketOf(c, n, k)
         /\ \A b \in Cores : b # c => bspQueue'[b] = bspQueue[b]
         /\ DOMAIN bspQueue' = Cores
  <2>1. CASE k.len \in 1 .. MaxBurst
    <3>1. IsCall(calls', c, n, k)
      BY <1>5, <2>1 DEF IsCall
    <3>2. /\ bspQueue' = [bspQueue EXCEPT ![c] = bspQueue[c] \o PacketOf(c, n, k)]
          /\ DOMAIN bspQueue = Cores
      BY <2>1 DEF bsp_put, Inner, StreamsOK, n
    <3> QED
      BY <3>1, <3>2
  <2>2. CASE k.len \notin 1 .. MaxBurst
    BY <2>2 DEF bsp_put
  <2> QED
    BY <2>1, <2>2
<1>10. DOMAIN bspQueue' = Cores
  BY <1>9 DEF Inner, StreamsOK
<1>11. ASSUME NEW b \in Cores
       PROVE  IsStream(calls', bspQueue'[b]) /\ Chain(calls', bspQueue'[b], NoMessage, NoMessage)
  <2>1. IsStream(calls', bspQueue[b]) /\ Chain(calls', bspQueue[b], NoMessage, NoMessage)
    BY <1>6, CoreTypes
  <2>2. CASE IsCall(calls', c, n, k) /\ b = c /\ bspQueue'[c] = bspQueue[c] \o PacketOf(c, n, k)
    <3>1. /\ IsStream(calls', PacketOf(c, n, k))
          /\ Chain(calls', PacketOf(c, n, k), NoMessage, NoMessage)
      BY <1>4, <2>2, PacketFacts
    <3> QED
      BY <2>1, <2>2, <3>1, StreamsJoined
  <2> QED
    BY <1>9, <2>1, <2>2
<1>12. ASSUME NEW b \in Cores PROVE Queued(b)' = Queued(b)
  <2>1. CASE sending[b] /\ bspRdPtr[b] > 0
    <3>1. b # c /\ bspQueue'[b] = bspQueue[b]
      BY <1>3, <1>9, <2>1
    <3>2. bspRdPtr[b] \in 1 .. Len(bspQueue[b])
      BY <2>1, CoreTypes
    <3>3. FlitOK(calls, bspQueue[b][bspRdPtr[b]])
      BY <3>2, CoreTypes DEF IsStream
    <3>4. Queued(b) = After(calls, bspQueue[b][bspRdPtr[b]])
      BY <2>1, Zenon DEF Queued
    <3>5. sending'[b] /\ bspRdPtr'[b] > 0 /\ bspRdPtr'[b] = bspRdPtr[b]
      BY <1>3, <2>1
    <3>6. Queued(b)' = After(calls', bspQueue'[b][bspRdPtr'[b]])
      BY <3>5, Zenon DEF Queued
    <3> QED
      BY <1>7, <3>1, <3>3, <3>4, <3>5, <3>6
  <2>2. CASE ~(sending[b] /\ bspRdPtr[b] > 0)
    <3>1. ~(sending'[b] /\ bspRdPtr'[b] > 0)
      BY <1>3, <2>2
    <3>2. Queued(b) = NoMessage
      BY <2>2, Zenon DEF Queued
    <3>3. Queued(b)' = NoMessage
      BY <3>1, Zenon DEF Queued
    <3> QED
      BY <3>2, <3>3
  <2> QED
    BY <2>1, <2>2
<1>13. ASSUME NEW b \in Cores PROVE Upcoming(b)' = Upcoming(b)
  <2>1. CASE outgoingFlits[b] = <<>>
    BY <1>3, <1>12, <2>1 DEF Upcoming
  <2>2. CASE outgoingFlits[b] # <<>>
    <3>1. 1 \in 1 .. Len(outgoingFlits[b])
      <4>1. PICK S : outgoingFlits[b] \in Seq(S)
        BY CoreTypes, StreamElements
      <4> QED
        BY <2>2, <4>1
    <3>2. FlitOK(calls, outgoingFlits[b][1])
      BY <3>1, CoreTypes DEF IsStream
    <3> QED
      BY <1>3, <1>7, <2>2, <3>2 DEF Upcoming
  <2> QED
    BY <2>1, <2>2
<1>14. TypeOK'
  <2>1. \A b \in Cores : bspRdPtr'[b] \in 0 .. Len(bspQueue'[b]) \/ ~sending'[b]
    BY <1>3, <1>9 DEF Inner, TypeOK
  <2> QED
    BY <1>3, <2>1 DEF Inner, TypeOK, netVars, feVars, memVars
<1>15. StreamsOK'
  <2>1. ASSUME NEW b \in Cores
        PROVE  /\ IsStream(calls', outgoingFlits'[b]) /\ IsStream(calls', incoming'[b])
               /\ \A d \in Cores : IsStream(calls', net'[<<b, d>>])
    BY <1>3, <1>6, CoreTypes DEF netVars, feVars
  <2>2. ASSUME NEW b \in Cores
        PROVE  outgoing'[b] \in Seq([addr : 0 .. AddrSpace - 1, word : WordsOf(calls')])
    <3>1. WordsOf(calls) \subseteq WordsOf(calls')
      BY <1>8
    <3>2. [addr : 0 .. AddrSpace - 1, word : WordsOf(calls)]
            \subseteq [addr : 0 .. AddrSpace - 1, word : WordsOf(calls')]
      BY <3>1
    <3> DEFINE S == [addr : 0 .. AddrSpace - 1, word : WordsOf(calls)]
               T == [addr : 0 .. AddrSpace - 1, word : WordsOf(calls')]
    <3>3. outgoing[b] \in Seq(S) /\ S \subseteq T
      BY <3>2, CoreTypes
    <3> HIDE DEF S, T
    <3>4. outgoing[b] \in Seq(T)
      BY <3>3
    <3>5. outgoing' = outgoing
      BY <1>3 DEF feVars
    <3> QED
      BY <3>4, <3>5 DEF T
  <2>3. \A b \in Cores : \A a \in DOMAIN bram'[b] : bram'[b][a] \in WordsOf(calls')
    BY <1>3, <1>8 DEF Inner, StreamsOK, memVars
  <2>4. calls' \in [Cores -> Seq(Calls)]
    BY <1>4 DEF Histories
  <2>5. latest' \in [Cores -> {NoWord} \cup WordsOf(calls')]
    BY <1>3, <1>8 DEF Inner, StreamsOK, memVars
  <2> QED
    BY <1>3, <1>10, <1>11, <2>1, <2>2, <2>3, <2>4, <2>5
       DEF Inner, StreamsOK, netVars, feVars, memVars
<1>16. WordsInPlace'
  <2>1. ASSUME NEW word \in WordsOf(calls), NEW d, NEW a, IsFor(calls, word, d, a)
        PROVE  IsFor(calls', word, d, a)
    BY <1>8, <2>1 DEF IsFor, AddressOf
  <2>2. ASSUME NEW d \in Cores, NEW i \in 1 .. Len(outgoing[d])
        PROVE  outgoing[d][i].word \in WordsOf(calls)
    <3>1. outgoing[d][i] \in [addr : 0 .. AddrSpace - 1, word : WordsOf(calls)]
      BY CoreTypes, ElementOfSeq
    <3> QED
      BY <3>1
  <2>3. bram' = bram /\ outgoing' = outgoing
    BY <1>3 DEF memVars, feVars
  <2>4. \A d \in Cores : \A a \in DOMAIN bram[d] : bram[d][a] \in WordsOf(calls)
    BY DEF Inner, StreamsOK
  <2> QED
    BY <2>1, <2>2, <2>3, <2>4 DEF Inner, WordsInPlace
<1>20. \A word \in {NoWord} \cup WordsOf(calls) : Open(calls', word) = Open(calls, word)
  BY <1>8 DEF Open
<1>21. WordsJoined'
  <2>1. outgoing' = outgoing /\ latest' = latest
    BY <1>3 DEF feVars, memVars
  <2> SUFFICES ASSUME NEW d \in Cores, NEW i \in 1 .. Len(outgoing[d])
               PROVE  FrontOf(outgoing[d][i].word) =
                        Open(calls', IF i = 1 THEN latest[d] ELSE outgoing[d][i - 1].word)
    BY <2>1 DEF WordsJoined
  <2> DEFINE before == IF i = 1 THEN latest[d] ELSE outgoing[d][i - 1].word
  <2>2. before \in {NoWord} \cup WordsOf(calls)
    <3>1. CASE i = 1
      BY <3>1, CoreTypes
    <3>2. CASE i # 1
      <4>1. i - 1 \in 1 .. Len(outgoing[d])
        BY <3>2
      <4>2. outgoing[d][i - 1] \in [addr : 0 .. AddrSpace - 1, word : WordsOf(calls)]
        BY <4>1, CoreTypes, ElementOfSeq
      <4> QED
        BY <3>2, <4>2
    <3> QED
      BY <3>1, <3>2
  <2>3. FrontOf(outgoing[d][i].word) = Open(calls, before)
    BY DEF Inner, WordsJoined
  <2> HIDE DEF before
  <2>4. Open(calls', before) = Open(calls, before)
    BY <1>20, <2>2
  <2> QED
    BY <2>3, <2>4 DEF before
<1>17. SendersInOrder'
  <2> SUFFICES ASSUME NEW b \in Cores
               PROVE  /\ Chain(calls', bspQueue'[b], NoMessage, NoMessage)
                      /\ Chain(calls', outgoingFlits'[b], Upcoming(b)', Queued(b)')
                      /\ route'[b] = None <=> Upcoming(b)' = NoMessage
    BY DEF SendersInOrder
  <2>1. Chain(calls', outgoingFlits[b], Upcoming(b), Queued(b))
    BY <1>6, CoreTypes
  <2> QED
    BY <1>3, <1>11, <1>12, <1>13, <2>1, CoreTypes DEF netVars
<1>18. ReceiversInOrder'
  <2> SUFFICES ASSUME NEW d \in Cores
               PROVE  \E left \in -1 .. MaxBurst : \E end : ReceiverAt(d, left, end)'
    BY ReceiversNext
  <2>1. PICK left \in -1 .. MaxBurst : \E end : ReceiverAt(d, left, end)
    BY ReceiverNow DEF Inner
  <2>2. PICK end : ReceiverAt(d, left, end)
    BY <2>1
  <2>3. /\ incoming' = incoming /\ engine' = engine /\ passing' = passing
        /\ net' = net /\ route' = route
    BY <1>3 DEF netVars, feVars
  <2>8. Recent(d)' = Recent(d) /\ Open(calls', Recent(d)) = Open(calls, Recent(d))
    BY <1>3, <1>20, RecentKept, RecentType DEF feVars, memVars
  <2>4. Handled(d, left)' = Handled(d, left)
    BY <2>3, <2>8 DEF Handled
  <2>5. Chain(calls', incoming[d], Handled(d, left), end)
    BY <1>6, <2>2, CoreTypes DEF ReceiverAt
  <2>6. \A b \in Cores : Chain(calls', net[<<b, d>>],
                               IF passing[d] = b THEN end ELSE NoMessage,
                               IF route[b] = d THEN Upcoming(b) ELSE NoMessage)
    BY <1>6, <2>2, CoreTypes DEF ReceiverAt
  <2>7. ReceiverAt(d, left, end)'
    BY <1>13, <2>2, <2>3, <2>4, <2>5, <2>6, <2>8 DEF ReceiverAt
  <2> QED
    BY <2>7
<1>19. HeadsArrive'
  BY <1>3 DEF Inner, HeadsArrive, netVars, feVars
<1> QED
  BY <1>13, <1>14, <1>15, <1>16, <1>17, <1>18, <1>19, <1>21 DEF Inner

\* The network.

LEMMA NoneIsNoCore == \A c \in Cores : c # None
  BY Widths

LEMMA corePutStep ==
  ASSUME Inner, NEW c \in Cores, corePut(c)
  PROVE  /\ Inner' /\ Before(calls, Head(outgoingFlits[c])) = Upcoming(c)
         /\ Upcoming(c)' = After(calls, Head(outgoingFlits[c]))
         /\ \A b \in Cores : b # c => Upcoming(b)' = Upcoming(b)
<1>1. PICK flit : flit = Head(outgoingFlits[c])
  OBVIOUS
<1>2. PICK d : d = IF flit.flitType = "HEAD" THEN CoreField(flit.data) ELSE route[c]
  OBVIOUS
<1>3. /\ outgoingFlits[c] # <<>>
      /\ net' = [net EXCEPT ![<<c, d>>] = Append(net[<<c, d>>], flit)]
      /\ route' = [route EXCEPT ![c] = IF flit.flitType = "TAIL" THEN None ELSE d]
      /\ outgoingFlits' = [outgoingFlits EXCEPT ![c] = Tail(outgoingFlits[c])]
      /\ UNCHANGED <<sendVars, passing, feVars, memVars>>
  BY <1>1, <1>2 DEF corePut
<1>4. /\ IsStream(calls, Tail(outgoingFlits[c])) /\ FlitOK(calls, flit)
      /\ Before(calls, flit) = Upcoming(c) /\ flit = outgoingFlits[c][1]
      /\ Chain(calls, Tail(outgoingFlits[c]), After(calls, flit), Queued(c))
  BY <1>1, <1>3, CoreTypes, StreamShorter
<1>5. /\ Upcoming(c) = NoMessage <=> flit.flitType = "HEAD"
      /\ After(calls, flit) = NoMessage <=> flit.flitType = "TAIL"
  BY <1>4, CoreTypes, Ends
<1>6. d \in Cores /\ d # None
  <2>1. CASE flit.flitType = "HEAD"
    BY <1>2, <1>4, <2>1, CoreTypes, NoneIsNoCore, Kinds
  <2>2. CASE flit.flitType # "HEAD"
    <3>1. route[c] # None /\ route[c] \in Cores \cup {None}
      BY <1>5, <2>2, CoreTypes DEF Inner, TypeOK
    <3> QED
      BY <1>2, <2>2, <3>1
  <2> QED
    BY <2>1, <2>2
<1>7. /\ DOMAIN outgoingFlits = Cores /\ DOMAIN net = Cores \X Cores
      /\ route \in [Cores -> Cores \cup {None}]
  BY DEF Inner, TypeOK, StreamsOK
<1>8. /\ outgoingFlits'[c] = Tail(outgoingFlits[c])
      /\ \A b \in Cores : b # c => outgoingFlits'[b] = outgoingFlits[b] /\ route'[b] = route[b]
      /\ route'[c] = IF flit.flitType = "TAIL" THEN None ELSE d
      /\ DOMAIN outgoingFlits' = Cores /\ DOMAIN net' = Cores \X Cores
      /\ route' \in [Cores -> Cores \cup {None}]
  BY <1>3, <1>6, <1>7
<1>9. /\ net'[<<c, d>>] = Append(net[<<c, d>>], flit)
      /\ \A b, e \in Cores : <<b, e>> # <<c, d>> => net'[<<b, e>>] = net[<<b, e>>]
  BY <1>3, <1>6, <1>7
<1>10. calls' = calls /\ \A b \in Cores : Queued(b)' = Queued(b)
  BY <1>3 DEF sendVars, Queued
<1>11. Upcoming(c)' = After(calls, flit)
  <2>1. After(calls, flit) = IF Tail(outgoingFlits[c]) = <<>> THEN Queued(c)
                             ELSE Before(calls, Tail(outgoingFlits[c])[1])
    BY <1>4, ChainEnds
  <2> QED
    BY <1>8, <1>10, <2>1 DEF Upcoming
<1>12. \A b \in Cores : b # c => Upcoming(b)' = Upcoming(b)
  BY <1>8, <1>10 DEF Upcoming
<1>13. TypeOK'
  <2>1. Len(outgoingFlits'[c]) <= FifoDepth
    <3>1. PICK S : outgoingFlits[c] \in Seq(S)
      BY CoreTypes, StreamElements
    <3>2. Len(Tail(outgoingFlits[c])) = Len(outgoingFlits[c]) - 1 /\ Len(outgoingFlits[c]) \in Nat
      BY <1>3, <3>1, HeadTailProperties
    <3>3. Len(outgoingFlits[c]) <= FifoDepth /\ FifoDepth \in Nat
      BY RemotePutAssumption DEF Inner, TypeOK
    <3> QED
      BY <1>8, <3>2, <3>3
  <2>2. \A b \in Cores : Len(outgoingFlits'[b]) <= FifoDepth
    BY <1>8, <2>1 DEF Inner, TypeOK
  <2> QED
    <3>1. UNCHANGED <<sending, bspQueue, bspRdPtr, passing, incoming, outgoing, engine, bram>>
      BY <1>3 DEF sendVars, feVars, memVars
    <3>2. route' \in [Cores -> Cores \cup {None}]
      BY <1>8
    <3> QED
      BY <2>2, <3>1, <3>2 DEF Inner, TypeOK
<1>14. StreamsOK'
  <2>1. \A b, e \in Cores : IsStream(calls, net'[<<b, e>>])
    <3>1. IsStream(calls, net'[<<c, d>>])
      BY <1>4, <1>6, <1>9, CoreTypes, StreamAppend
    <3> QED
      BY <1>9, <3>1, CoreTypes
  <2>2. \A b \in Cores : IsStream(calls, outgoingFlits'[b])
    BY <1>4, <1>8, CoreTypes
  <2> QED
    BY <1>3, <1>8, <2>1, <2>2 DEF Inner, StreamsOK, sendVars, feVars, memVars
<1>15. WordsInPlace' /\ WordsJoined'
  BY <1>3 DEF Inner, WordsInPlace, WordsJoined, sendVars, feVars, memVars
<1>16. SendersInOrder'
  <2> SUFFICES ASSUME NEW b \in Cores
               PROVE  /\ Chain(calls', bspQueue'[b], NoMessage, NoMessage)
                      /\ Chain(calls', outgoingFlits'[b], Upcoming(b)', Queued(b)')
                      /\ route'[b] = None <=> Upcoming(b)' = NoMessage
    BY DEF SendersInOrder
  <2>1. bspQueue' = bspQueue
    BY <1>3 DEF sendVars
  <2>2. CASE b = c
    BY <1>4, <1>5, <1>6, <1>8, <1>10, <1>11, <2>1, <2>2, CoreTypes
  <2>3. CASE b # c
    BY <1>8, <1>10, <1>12, <2>1, <2>3, CoreTypes
  <2> QED
    BY <2>2, <2>3
<1>17. ReceiversInOrder'
  <2> SUFFICES ASSUME NEW e \in Cores
               PROVE  \E left \in -1 .. MaxBurst : \E end : ReceiverAt(e, left, end)'
    BY ReceiversNext
  <2>1. PICK left \in -1 .. MaxBurst : \E end : ReceiverAt(e, left, end)
    BY ReceiverNow DEF Inner
  <2>2. PICK end : ReceiverAt(e, left, end)
    BY <2>1
  <2>3. incoming' = incoming /\ engine' = engine /\ passing' = passing
    BY <1>3 DEF feVars
  <2>7. Recent(e)' = Recent(e)
    BY <1>3, RecentKept DEF feVars, memVars
  <2>4. Handled(e, left)' = Handled(e, left)
    BY <1>10, <2>3, <2>7 DEF Handled
  <2>5. ASSUME NEW b \in Cores
        PROVE  Chain(calls', net'[<<b, e>>], IF passing'[e] = b THEN end ELSE NoMessage,
                     IF route'[b] = e THEN Upcoming(b)' ELSE NoMessage)
    <3> DEFINE start == IF passing[e] = b THEN end ELSE NoMessage
    <3>1. Chain(calls, net[<<b, e>>], start, IF route[b] = e THEN Upcoming(b) ELSE NoMessage)
      BY <2>2 DEF ReceiverAt
    <3>2. CASE b # c
      <4>1. route'[b] = route[b] /\ Upcoming(b)' = Upcoming(b) /\ net'[<<b, e>>] = net[<<b, e>>]
        BY <1>8, <1>9, <1>12, <3>2
      <4> QED
        BY <1>10, <2>3, <3>1, <4>1
    <3>3. CASE b = c /\ e # d
      <4>1. net'[<<c, e>>] = net[<<c, e>>]
        BY <1>9, <3>3
      <4>2. (IF route[c] = e THEN Upcoming(c) ELSE NoMessage) = NoMessage
        BY <1>2, <1>5, <3>3
      <4>3. (IF route'[c] = e THEN Upcoming(c)' ELSE NoMessage) = NoMessage
        BY <1>8, <3>3, NoneIsNoCore
      <4>4. Chain(calls, net[<<c, e>>], start, NoMessage)
        BY <3>1, <3>3, <4>2
      <4> QED
        BY <1>10, <2>3, <3>3, <4>1, <4>3, <4>4
    <3>4. CASE b = c /\ e = d
      <4>1. (IF route[c] = d THEN Upcoming(c) ELSE NoMessage) = Before(calls, flit)
        BY <1>2, <1>4, <1>5
      <4>2. (IF route'[c] = d THEN Upcoming(c)' ELSE NoMessage) = After(calls, flit)
        BY <1>5, <1>6, <1>8, <1>11
      <4>3. Chain(calls, net[<<c, d>>], start, Before(calls, flit))
        BY <3>1, <3>4, <4>1
      <4> HIDE DEF start
      <4>4. Chain(calls, Append(net[<<c, d>>], flit), start, After(calls, flit))
        BY <1>4, <1>6, <4>3, CoreTypes, StreamLonger
      <4> QED
        BY <1>9, <1>10, <2>3, <3>4, <4>2, <4>4 DEF start
    <3> QED
      BY <3>2, <3>3, <3>4
  <2>6. ReceiverAt(e, left, end)'
    BY <1>10, <2>2, <2>3, <2>4, <2>5, <2>7 DEF ReceiverAt
  <2> QED
    BY <2>6
<1>18. HeadsArrive'
  <2>1. NamesCore(net'[<<c, d>>], d)
    <3>1. PICK S : net[<<c, d>>] \in Seq(S)
      BY <1>6, CoreTypes, StreamElements
    <3>2. NamesCore(net[<<c, d>>], d)
      BY <1>6 DEF Inner, HeadsArrive
    <3>3. flit.flitType = "HEAD" => CoreField(flit.data) = d
      BY <1>2
    <3> QED
      BY <1>9, <3>1, <3>2, <3>3, NamesAppend
  <2>2. \A b, e \in Cores : NamesCore(net'[<<b, e>>], e)
    BY <1>9, <2>1 DEF Inner, HeadsArrive
  <2> QED
    BY <1>3, <2>2 DEF Inner, HeadsArrive, feVars
<1> QED
  BY <1>1, <1>4, <1>11, <1>12, <1>13, <1>14, <1>15, <1>16, <1>17, <1>18 DEF Inner

LEMMA coreGetStep ==
  ASSUME Inner, NEW c \in Cores, NEW d \in Cores, coreGet(c, d)
  PROVE  Inner'
<1>1. PICK flit : flit = Head(net[<<c, d>>])
  OBVIOUS
<1>2. /\ net[<<c, d>>] # <<>> /\ passing[d] \in {None, c} /\ Len(incoming[d]) < FifoDepth
      /\ net' = [net EXCEPT ![<<c, d>>] = Tail(net[<<c, d>>])]
      /\ passing' = [passing EXCEPT ![d] = PassingAfter(flit, c)]
      /\ UNCHANGED <<sendVars, outgoingFlits, route, outgoing, engine, memVars>>
  BY <1>1 DEF coreGet
<1>3. /\ calls \in Histories /\ IsStream(calls, net[<<c, d>>]) /\ NamesCore(net[<<c, d>>], d)
      /\ DOMAIN incoming = Cores /\ DOMAIN net = Cores \X Cores
      /\ passing \in [Cores -> Cores \cup {None}]
  BY CoreTypes DEF Inner, TypeOK, StreamsOK, HeadsArrive
<1>4. /\ NamesCore(Tail(net[<<c, d>>]), d)
      /\ flit.flitType = "HEAD" => CoreField(flit.data) = d
  <2>1. PICK S : net[<<c, d>>] \in Seq(S)
    BY <1>3, StreamElements
  <2> QED
    BY <1>1, <1>2, <1>3, <2>1, NamesTail
<1>5. incoming' = [incoming EXCEPT ![d] = Append(incoming[d], flit)]
  BY <1>1, <1>4 DEF coreGet
<1>6. /\ incoming'[d] = Append(incoming[d], flit)
      /\ passing'[d] = PassingAfter(flit, c)
      /\ \A e \in Cores : e # d => incoming'[e] = incoming[e] /\ passing'[e] = passing[e]
      /\ DOMAIN incoming' = Cores /\ DOMAIN net' = Cores \X Cores
      /\ passing' \in [Cores -> Cores \cup {None}]
  BY <1>2, <1>3, <1>5 DEF PassingAfter
<1>7. /\ net'[<<c, d>>] = Tail(net[<<c, d>>])
      /\ \A b, e \in Cores : <<b, e>> # <<c, d>> => net'[<<b, e>>] = net[<<b, e>>]
  BY <1>2, <1>3
<1>8. /\ IsStream(calls, Tail(net[<<c, d>>])) /\ FlitOK(calls, flit)
  BY <1>1, <1>2, <1>3, StreamTail
<1>9. /\ Before(calls, flit) = NoMessage <=> flit.flitType = "HEAD"
      /\ After(calls, flit) = NoMessage <=> flit.flitType = "TAIL"
  BY <1>3, <1>8, Ends
<1>10. /\ calls' = calls
       /\ \A b \in Cores : Queued(b)' = Queued(b) /\ Upcoming(b)' = Upcoming(b)
  BY <1>2 DEF sendVars, Queued, Upcoming
<1>11. IsStream(calls, incoming'[d])
  BY <1>6, <1>8, CoreTypes, StreamAppend
<1>12. TypeOK'
  <2>1. Len(incoming'[d]) <= FifoDepth
    <3>1. PICK S : incoming[d] \in Seq(S)
      BY CoreTypes, StreamElements
    <3> DEFINE T == S \cup {flit}
    <3>2. incoming[d] \in Seq(T) /\ flit \in T
      BY <3>1
    <3> HIDE DEF T
    <3>3. Len(Append(incoming[d], flit)) = Len(incoming[d]) + 1 /\ Len(incoming[d]) \in Nat
      BY <3>2, AppendProperties
    <3>4. FifoDepth \in Nat
      BY RemotePutAssumption
    <3> QED
      BY <1>2, <1>6, <3>3, <3>4
  <2>2. \A b \in Cores : Len(incoming'[b]) <= FifoDepth
    BY <1>6, <2>1 DEF Inner, TypeOK
  <2> QED
    <3>1. /\ UNCHANGED <<sending, bspQueue, bspRdPtr, outgoingFlits, route, outgoing, engine, bram>>
      BY <1>2 DEF sendVars, memVars
    <3>2. passing' \in [Cores -> Cores \cup {None}]
      BY <1>6
    <3> QED
      BY <2>2, <3>1, <3>2 DEF Inner, TypeOK
<1>13. StreamsOK'
  <2>1. \A b, e \in Cores : IsStream(calls, net'[<<b, e>>])
    BY <1>7, <1>8, CoreTypes
  <2>2. \A b \in Cores : IsStream(calls, incoming'[b])
    BY <1>6, <1>11, CoreTypes
  <2> QED
    BY <1>2, <1>6, <2>1, <2>2 DEF Inner, StreamsOK, sendVars, memVars
<1>14. WordsInPlace' /\ WordsJoined'
  BY <1>2 DEF Inner, WordsInPlace, WordsJoined, sendVars, memVars
<1>15. SendersInOrder'
  BY <1>2, <1>10 DEF Inner, SendersInOrder, sendVars
<1>16. ReceiversInOrder'
  <2> SUFFICES ASSUME NEW e \in Cores
               PROVE  \E left \in -1 .. MaxBurst : \E end : ReceiverAt(e, left, end)'
    BY ReceiversNext
  <2>1. PICK left \in -1 .. MaxBurst : \E end : ReceiverAt(e, left, end)
    BY ReceiverNow DEF Inner
  <2>2. PICK end : ReceiverAt(e, left, end)
    BY <2>1
  <2>3. engine' = engine /\ route' = route /\ Recent(e)' = Recent(e)
    BY <1>2, RecentKept DEF memVars
  <2>4. Handled(e, left)' = Handled(e, left)
    BY <1>10, <2>3 DEF Handled
  <2>5. CASE e # d
    <3>1. /\ incoming'[e] = incoming[e] /\ passing'[e] = passing[e]
          /\ \A b \in Cores : net'[<<b, e>>] = net[<<b, e>>]
      BY <1>6, <1>7, <2>5
    <3>2. ReceiverAt(e, left, end)'
      BY <1>10, <2>2, <2>3, <2>4, <3>1 DEF ReceiverAt
    <3> QED
      BY <3>2
  <2>6. CASE e = d
    <3> DEFINE goal == IF route[c] = d THEN Upcoming(c) ELSE NoMessage
    <3>1. Chain(calls, net[<<c, d>>], IF passing[d] = c THEN end ELSE NoMessage, goal)
      BY <2>2, <2>6 DEF ReceiverAt
    <3>2. (IF passing[d] = c THEN end ELSE NoMessage) = end
      <4>1. passing[d] = None <=> end = NoMessage
        BY <2>2, <2>6 DEF ReceiverAt
      <4> QED
        BY <1>2, <4>1
    <3>3. Chain(calls, net[<<c, d>>], end, goal)
      BY <3>1, <3>2
    <3> HIDE DEF goal
    <3>4. Before(calls, flit) = end /\ Chain(calls, Tail(net[<<c, d>>]), After(calls, flit), goal)
      BY <1>1, <1>2, <1>3, <3>3, StreamShorter
    <3>5. Chain(calls, incoming[d], Handled(d, left), end)
      BY <2>2, <2>6 DEF ReceiverAt
    <3>6. Chain(calls, Append(incoming[d], flit), Handled(d, left), After(calls, flit))
      BY <1>8, <3>4, <3>5, CoreTypes, StreamLonger
    <3>7. passing'[d] = None <=> After(calls, flit) = NoMessage
      BY <1>6, <1>9, NoneIsNoCore DEF PassingAfter
    <3>8. (IF passing'[d] = c THEN After(calls, flit) ELSE NoMessage) = After(calls, flit)
      BY <1>6, <1>9 DEF PassingAfter
    <3>9. ASSUME NEW b \in Cores
          PROVE  Chain(calls', net'[<<b, d>>],
                       IF passing'[d] = b THEN After(calls, flit) ELSE NoMessage,
                       IF route'[b] = d THEN Upcoming(b)' ELSE NoMessage)
      <4>1. CASE b = c
        BY <1>7, <1>10, <2>3, <3>4, <3>8, <4>1 DEF goal
      <4>2. CASE b # c
        <5>1. /\ passing[d] # b /\ passing'[d] # b
          BY <1>2, <1>6, <4>2, NoneIsNoCore DEF PassingAfter
        <5>2. Chain(calls, net[<<b, d>>], NoMessage,
                    IF route[b] = d THEN Upcoming(b) ELSE NoMessage)
          BY <2>2, <2>6, <5>1 DEF ReceiverAt
        <5>3. net'[<<b, d>>] = net[<<b, d>>]
          BY <1>7, <4>2
        <5> QED
          BY <1>10, <2>3, <5>1, <5>2, <5>3
      <4> QED
        BY <4>1, <4>2
    <3>10. EngineAt(engine[d], left) /\ (left <= 0 => Open(calls, Recent(d)) = NoWord)
      BY <2>2, <2>6 DEF ReceiverAt
    <3>11. ReceiverAt(d, left, After(calls, flit))'
      <4>1. PICK after : after = After(calls, flit)
        OBVIOUS
      <4>2. Chain(calls', incoming'[d], Handled(d, left)', after)
        BY <1>6, <1>10, <2>4, <2>6, <3>6, <4>1
      <4>3. ReceiverAt(d, left, after)'
        BY <1>10, <2>3, <2>6, <3>7, <3>9, <3>10, <4>1, <4>2 DEF ReceiverAt
      <4> QED
        BY <1>10, <4>1, <4>3
    <3> QED
      BY <2>6, <3>11
  <2> QED
    BY <2>5, <2>6
<1>17. HeadsArrive'
  <2>1. NamesCore(incoming'[d], d)
    <3>1. PICK S : incoming[d] \in Seq(S)
      BY CoreTypes, StreamElements
    <3>2. NamesCore(incoming[d], d)
      BY DEF Inner, HeadsArrive
    <3> QED
      BY <1>4, <1>6, <3>1, <3>2, NamesAppend
  <2>2. \A b, e \in Cores : NamesCore(net'[<<b, e>>], e)
    BY <1>4, <1>7 DEF Inner, HeadsArrive
  <2> QED
    BY <1>6, <2>1, <2>2 DEF Inner, HeadsArrive
<1> QED
  BY <1>12, <1>13, <1>14, <1>15, <1>16, <1>17 DEF Inner

-----------------------------------------------------------------------------
\* The engine.

LEMMA EngineCounter ==
  ASSUME NEW left \in 1 .. MaxBurst
  PROVE  /\ (left + MaxBurst - 1) % MaxBurst = left - 1
         /\ (left - 1) \in 0 .. MaxBurst
         /\ ((left - 1) + MaxBurst - 1) % MaxBurst \in 0 .. MaxBurst - 1
<1>1. PICK M \in Nat \ {0} : M = MaxBurst
  BY Widths
<1>2. (left + M - 1) % M = left - 1
  <2>1. PICK x \in Nat : x = left + M - 1
    BY <1>1
  <2>2. x = 1 * M + (left - 1) /\ left - 1 \in 0 .. M - 1
    BY <1>1, <2>1
  <2>3. x % M = left - 1
    BY <2>2, DivisionUnique
  <2> QED
    BY <2>1, <2>3
<1>3. ((left - 1) + M - 1) % M \in 0 .. M - 1
  <2>1. PICK x \in Nat : x = (left - 1) + M - 1
    BY <1>1
  <2> QED
    BY <2>1
<1> QED
  BY <1>1, <1>2, <1>3

\* What an idle and a handling engine expect.
LEMMA Expected ==
  ASSUME NEW d \in Cores, NEW left \in -1 .. MaxBurst, EngineAt(engine[d], left)
  PROVE  /\ engine[d].state = "Idle" <=> left = -1
         /\ engine[d].state = "Handling" <=> left # -1
         /\ Handled(d, left) = NoMessage <=> left = -1
         /\ Handled(d, left).left = left
<1>1. CASE left = -1
  BY <1>1 DEF EngineAt, Handled, NoMessage
<1>2. CASE left # -1
  <2>1. left \in 0 .. MaxBurst
    BY <1>2
  <2> QED
    BY <1>2, <2>1, WithinFacts DEF EngineAt, Handled
<1> QED
  BY <1>1, <1>2

LEMMA EngineNeverComplainsNow ==
  Inner => EngineNeverComplains
<1> SUFFICES ASSUME Inner, NEW d \in Cores, incoming[d] # <<>>
             PROVE  LET type == Head(incoming[d]).flitType
                    IN  IF engine[d].state = "Idle" THEN type = "HEAD"
                        ELSE /\ type # "HEAD"
                             /\ type = "TAIL" => engine[d].burstCtrF = 0
  BY DEF EngineNeverComplains
<1>1. PICK left \in -1 .. MaxBurst : \E end : ReceiverAt(d, left, end)
  BY ReceiverNow DEF Inner
<1>2. PICK end : ReceiverAt(d, left, end)
  BY <1>1
<1>3. PICK flit : flit = Head(incoming[d])
  OBVIOUS
<1>4. FlitOK(calls, flit) /\ Before(calls, flit) = Handled(d, left)
  BY <1>2, <1>3, CoreTypes, StreamShorter DEF ReceiverAt
<1>5. Before(calls, flit) = NoMessage <=> flit.flitType = "HEAD"
  BY <1>4, CoreTypes, Ends
<1>6. EngineAt(engine[d], left)
  BY <1>2 DEF ReceiverAt
<1>7. CASE left = -1
  BY <1>3, <1>4, <1>5, <1>6, <1>7, Expected
<1>8. CASE left # -1
  <2>1. flit.flitType # "HEAD" /\ engine[d].state # "Idle"
    BY <1>4, <1>5, <1>6, <1>8, Expected
  <2>2. ASSUME flit.flitType = "TAIL" PROVE engine[d].burstCtrF = 0
    <3>1. Before(calls, flit) = OnlyTail
      BY <1>4, <2>2, CoreTypes, Kinds
    <3>2. left = 0
      <4>1. Handled(d, left).left = left
        BY <1>6, Expected
      <4>2. OnlyTail.left = 0
        BY DEF OnlyTail
      <4> QED
        BY <1>4, <3>1, <4>1, <4>2
    <3> QED
      BY <1>6, <3>2 DEF EngineAt
  <2> QED
    BY <1>3, <2>1, <2>2
<1> QED
  BY <1>7, <1>8

\* What changes when the engine takes a flit from incoming.
EngineTook(d, flit) ==
  /\ flit = Head(incoming[d]) /\ incoming[d] # <<>>
  /\ incoming' = [incoming EXCEPT ![d] = Tail(incoming[d])]
  /\ UNCHANGED <<sendVars, outgoingFlits, netVars, memVars>>

\* It is enough that the engine moves on as the flit says.
LEMMA EngineStep ==
  ASSUME Inner, NEW d \in Cores, NEW flit, EngineTook(d, flit),
         NEW left \in -1 .. MaxBurst, NEW end, ReceiverAt(d, left, end),
         \A e \in Cores : e # d => engine'[e] = engine[e],
         \A e \in Cores : e # d => Recent(e)' = Recent(e),
         NEW next \in -1 .. MaxBurst, EngineAt(engine'[d], next),
         next <= 0 => Open(calls', Recent(d)') = NoWord,
         Handled(d, next)' = After(calls, flit)
  PROVE  /\ SendersInOrder' /\ ReceiversInOrder' /\ HeadsArrive'
         /\ \A e \in Cores : Len(incoming'[e]) <= FifoDepth
         /\ \A e \in Cores : IsStream(calls', incoming'[e])
         /\ DOMAIN incoming' = Cores
<1>1. /\ flit = Head(incoming[d]) /\ incoming[d] # <<>>
      /\ UNCHANGED <<sending, bspQueue, bspRdPtr, calls, outgoingFlits, route, net, passing>>
      /\ incoming'[d] = Tail(incoming[d]) /\ DOMAIN incoming' = Cores
      /\ \A e \in Cores : e # d => incoming'[e] = incoming[e]
  BY DEF EngineTook, sendVars, netVars, Inner, StreamsOK
<1>2. \A b \in Cores : Queued(b)' = Queued(b) /\ Upcoming(b)' = Upcoming(b)
  BY <1>1 DEF Queued, Upcoming
<1>3. SendersInOrder'
  BY <1>1, <1>2 DEF Inner, SendersInOrder
<1>4. /\ IsStream(calls, Tail(incoming[d]))
      /\ Chain(calls, Tail(incoming[d]), After(calls, flit), end)
  <2>1. Chain(calls, incoming[d], Handled(d, left), end)
    BY DEF ReceiverAt
  <2> QED
    BY <1>1, <2>1, CoreTypes, StreamShorter
<1>5. ReceiversInOrder'
  <2> SUFFICES ASSUME NEW e \in Cores
               PROVE  \E l \in -1 .. MaxBurst : \E x : ReceiverAt(e, l, x)'
    BY ReceiversNext
  <2>1. CASE e = d
    <3>1. Chain(calls', incoming'[d], Handled(d, next)', end)
      BY <1>1, <1>4
    <3>2. ReceiverAt(d, next, end)'
      BY <1>1, <1>2, <3>1 DEF ReceiverAt
    <3> QED
      BY <2>1, <3>2
  <2>2. CASE e # d
    <3>1. PICK l \in -1 .. MaxBurst : \E x : ReceiverAt(e, l, x)
      BY ReceiverNow DEF Inner
    <3>2. PICK x : ReceiverAt(e, l, x)
      BY <3>1
    <3>3. engine'[e] = engine[e] /\ incoming'[e] = incoming[e]
      BY <1>1, <2>2
    <3>4. Recent(e)' = Recent(e) /\ Handled(e, l)' = Handled(e, l)
      BY <1>1, <2>2, <3>3 DEF Handled
    <3>5. ReceiverAt(e, l, x)'
      BY <1>1, <1>2, <3>2, <3>3, <3>4 DEF ReceiverAt
    <3> QED
      BY <3>5
  <2> QED
    BY <2>1, <2>2
<1>6. HeadsArrive'
  <2>1. NamesCore(incoming'[d], d)
    <3>1. PICK S : incoming[d] \in Seq(S)
      BY CoreTypes, StreamElements
    <3>2. NamesCore(incoming[d], d)
      BY DEF Inner, HeadsArrive
    <3> QED
      BY <1>1, <3>1, <3>2, NamesTail
  <2> QED
    BY <1>1, <2>1 DEF Inner, HeadsArrive
<1>7. \A e \in Cores : Len(incoming'[e]) <= FifoDepth
  <2>1. Len(incoming'[d]) <= FifoDepth
    <3>1. PICK S : incoming[d] \in Seq(S)
      BY CoreTypes, StreamElements
    <3>2. Len(Tail(incoming[d])) = Len(incoming[d]) - 1 /\ Len(incoming[d]) \in Nat
      BY <1>1, <3>1, HeadTailProperties
    <3>3. Len(incoming[d]) <= FifoDepth /\ FifoDepth \in Nat
      BY RemotePutAssumption DEF Inner, TypeOK
    <3> QED
      BY <1>1, <3>2, <3>3
  <2> QED
    BY <1>1, <2>1 DEF Inner, TypeOK
<1>8. \A e \in Cores : IsStream(calls', incoming'[e])
  BY <1>1, <1>4, CoreTypes
<1> QED
  BY <1>1, <1>3, <1>5, <1>6, <1>7, <1>8

EngineType == [state : {"Idle", "Handling"}, addr : 0 .. AddrSpace - 1,
               burstCtr : 0 .. MaxBurst - 1, burstCtrF : 0 .. MaxBurst - 1]

LEMMA handleHeadFlitStep ==
  ASSUME Inner, NEW d \in Cores, handleHeadFlit(d)
  PROVE  Inner'
<1>1. PICK left \in -1 .. MaxBurst : \E end : ReceiverAt(d, left, end)
  BY ReceiverNow DEF Inner
<1>2. PICK end : ReceiverAt(d, left, end)
  BY <1>1
<1>3. PICK flit : flit = Head(incoming[d])
  OBVIOUS
<1>4. EngineTook(d, flit) /\ outgoing' = outgoing
  BY <1>3 DEF handleHeadFlit, EngineTook
<1>5. left = -1
  BY <1>2, Expected DEF handleHeadFlit, ReceiverAt
<1>6. FlitOK(calls, flit) /\ Before(calls, flit) = NoMessage
  <2>1. Before(calls, flit) = Handled(d, left) /\ FlitOK(calls, flit)
    BY <1>2, <1>4, CoreTypes, StreamShorter DEF ReceiverAt, EngineTook
  <2> QED
    BY <1>5, <2>1 DEF Handled
<1>7. /\ flit.flitType = "HEAD" /\ flit.data \in Nat
      /\ BurstField(flit.data) \in 0 .. MaxBurst - 1 /\ AddrField(flit.data) \in 0 .. AddrSpace - 1
      /\ After(calls, flit) = [left |-> BurstField(flit.data) + 1,
                               addr |-> AddrField(flit.data), to |-> CoreField(flit.data),
                               front |-> NoWord]
  BY <1>6, CoreTypes, Ends, Kinds
<1>8. CoreField(flit.data) = d
  <2>1. PICK S : incoming[d] \in Seq(S)
    BY CoreTypes, StreamElements
  <2>2. NamesCore(incoming[d], d)
    BY DEF Inner, HeadsArrive
  <2> QED
    BY <1>4, <1>7, <2>1, <2>2, NamesTail DEF EngineTook
<1>9. engine \in [Cores -> EngineType]
  BY DEF Inner, TypeOK, EngineType
<1>10. /\ engine'[d] = [state |-> "Handling", addr |-> AddrField(flit.data),
                        burstCtr |-> BurstField(flit.data), burstCtrF |-> engine[d].burstCtr]
       /\ \A e \in Cores : e # d => engine'[e] = engine[e]
       /\ DOMAIN engine' = Cores
  BY <1>3, <1>9 DEF handleHeadFlit
<1>11. engine' \in [Cores -> EngineType]
  <2>1. engine'[d] \in EngineType
    BY <1>7, <1>9, <1>10 DEF EngineType
  <2>2. engine' = [e \in Cores |-> engine'[e]]
    BY <1>9 DEF handleHeadFlit
  <2> QED
    BY <1>9, <1>10, <2>1, <2>2
<1>12. PICK next \in 1 .. MaxBurst : next = BurstField(flit.data) + 1
  BY <1>7, Widths
<1>13. EngineAt(engine'[d], next)
  <2>1. (next + MaxBurst - 1) % MaxBurst = next - 1 /\ next - 1 = BurstField(flit.data)
    BY <1>7, <1>12, EngineCounter
  <2> QED
    BY <1>10, <1>12, <2>1 DEF EngineAt
<1>14. /\ \A e \in Cores : Recent(e)' = Recent(e)
       /\ Open(calls', Recent(d)') = NoWord /\ Handled(d, next)' = After(calls, flit)
  <2>1. UNCHANGED <<outgoing, latest, calls>>
    BY <1>4 DEF EngineTook, sendVars, memVars
  <2>2. \A e : Recent(e)' = Recent(e)
    BY <2>1, RecentKept
  <2>3. Open(calls, Recent(d)) = NoWord
    BY <1>2, <1>5 DEF ReceiverAt
  <2>4. Open(calls', Recent(d)') = NoWord
    BY <2>1, <2>2, <2>3
  <2>5. Handled(d, next)' = Within(next, engine'[d].addr, d, NoWord)
    BY <1>12, <2>4 DEF Handled
  <2>6. Within(next, engine'[d].addr, d, NoWord) = After(calls, flit)
    BY <1>7, <1>8, <1>10, <1>12 DEF Within
  <2> QED
    BY <2>2, <2>4, <2>5, <2>6
<1>15. next \in -1 .. MaxBurst
  OBVIOUS
<1>16. /\ SendersInOrder' /\ ReceiversInOrder' /\ HeadsArrive'
       /\ \A e \in Cores : Len(incoming'[e]) <= FifoDepth
       /\ \A e \in Cores : IsStream(calls', incoming'[e])
       /\ DOMAIN incoming' = Cores
  BY <1>2, <1>4, <1>10, <1>13, <1>14, <1>15, EngineStep
<1>17. UNCHANGED <<sending, bspQueue, bspRdPtr, calls, outgoingFlits, route, net, passing, bram,
                   latest>>
  BY <1>4 DEF EngineTook, sendVars, netVars, memVars
<1>18. TypeOK'
  BY <1>4, <1>11, <1>16, <1>17 DEF Inner, TypeOK, EngineType
<1>19. StreamsOK'
  BY <1>4, <1>16, <1>17 DEF Inner, StreamsOK
<1>20. WordsInPlace' /\ WordsJoined'
  BY <1>4, <1>17 DEF Inner, WordsInPlace, WordsJoined
<1> QED
  BY <1>16, <1>18, <1>19, <1>20 DEF Inner

LEMMA IsAWord ==
  ASSUME NEW word \in Cores \X Nat \X Nat
  PROVE  word # NoWord
<1>1. PICK b \in Cores, m \in Nat, j \in Nat : word = <<b, m, j>>
  OBVIOUS
<1>2. <<b, m, j>> # <<>>
  OBVIOUS
<1> QED
  BY <1>1, <1>2 DEF NoWord

\* A BODY goes to the memory that its message is for, and the engine counts it.
LEMMA handleWordStep ==
  ASSUME Inner, NEW d \in Cores, handleBodyFlit(d), Head(incoming[d]).flitType = "BODY"
  PROVE  Inner'
<1>1. PICK left \in -1 .. MaxBurst : \E end : ReceiverAt(d, left, end)
  BY ReceiverNow DEF Inner
<1>2. PICK end : ReceiverAt(d, left, end)
  BY <1>1
<1>3. PICK flit : flit = Head(incoming[d])
  OBVIOUS
<1>4. /\ EngineTook(d, flit) /\ flit.flitType = "BODY"
      /\ engine[d].state = "Handling" /\ Len(outgoing[d]) < FifoDepth
  BY <1>3 DEF handleBodyFlit, EngineTook
<1>5. engine \in [Cores -> EngineType] /\ DOMAIN outgoing = Cores
  BY DEF Inner, TypeOK, EngineType, StreamsOK
<1>6. PICK req : req = [addr |-> engine[d].addr, word |-> flit.data]
  OBVIOUS
<1>7. outgoing' = [outgoing EXCEPT ![d] = Append(outgoing[d], req)]
  BY <1>3, <1>4, <1>6 DEF handleBodyFlit
<1>8. engine' = [engine EXCEPT ![d].burstCtrF = engine[d].burstCtr,
                               ![d].burstCtr = (@ + MaxBurst - 1) % MaxBurst,
                               ![d].addr = (@ + 1) % AddrSpace]
  BY <1>3, <1>4 DEF handleBodyFlit
<1>9. /\ engine'[d] = [state |-> engine[d].state, addr |-> (engine[d].addr + 1) % AddrSpace,
                       burstCtr |-> (engine[d].burstCtr + MaxBurst - 1) % MaxBurst,
                       burstCtrF |-> engine[d].burstCtr]
      /\ \A e \in Cores : e # d => engine'[e] = engine[e]
      /\ DOMAIN engine' = Cores /\ engine' = [e \in Cores |-> engine'[e]]
  BY <1>5, <1>8 DEF EngineType
<1>10. /\ FlitOK(calls, flit) /\ Before(calls, flit) = Handled(d, left)
       /\ EngineAt(engine[d], left)
  BY <1>2, <1>4, CoreTypes, StreamShorter DEF ReceiverAt, EngineTook
<1>11. left \in 0 .. MaxBurst
  BY <1>4, <1>10, Expected
<1>12. PICK word : word = flit.data
  OBVIOUS
<1>13. /\ word \in WordsOf(calls)
       /\ Before(calls, flit) = [left |-> Left(calls, word) + 1, addr |-> AddressOf(calls, word),
                                 to |-> CallOf(calls, word).to, front |-> FrontOf(word)]
       /\ After(calls, flit) = Within(Left(calls, word), (AddressOf(calls, word) + 1) % AddrSpace,
                                      CallOf(calls, word).to, word)
  BY <1>4, <1>10, <1>12, CoreTypes, Kinds
<1>14. Left(calls, word) \in 0 .. MaxBurst - 1 /\ AddressOf(calls, word) \in 0 .. AddrSpace - 1
  BY <1>13, CoreTypes, WordFacts
<1>15. left = Left(calls, word) + 1
  <2>1. Handled(d, left).left = left
    BY <1>10, Expected
  <2> QED
    BY <1>10, <1>13, <2>1
<1>16. left \in 1 .. MaxBurst
  BY <1>11, <1>14, <1>15
<1>17. Handled(d, left) = [left |-> left, addr |-> engine[d].addr, to |-> d,
                           front |-> Open(calls, Recent(d))]
  BY <1>16 DEF Handled, Within
<1>18. /\ engine[d].addr = AddressOf(calls, word) /\ CallOf(calls, word).to = d
       /\ FrontOf(word) = Open(calls, Recent(d))
  <2>1. PICK place : place = Handled(d, left)
    OBVIOUS
  <2>2. place.addr = engine[d].addr /\ place.to = d /\ place.front = Open(calls, Recent(d))
    BY <1>17, <2>1
  <2>3. /\ place.addr = AddressOf(calls, word) /\ place.to = CallOf(calls, word).to
        /\ place.front = FrontOf(word)
    <3>1. place = [left |-> Left(calls, word) + 1, addr |-> AddressOf(calls, word),
                   to |-> CallOf(calls, word).to, front |-> FrontOf(word)]
      BY <1>10, <1>13, <2>1, Zenon
    <3> QED
      BY <3>1
  <2> QED
    BY <2>2, <2>3
<1>19. PICK next \in -1 .. MaxBurst : next = left - 1 /\ next # -1
  BY <1>16, Widths
<1>20. EngineAt(engine'[d], next)
  <2>1. engine[d].burstCtr = (left + MaxBurst - 1) % MaxBurst
    BY <1>10, <1>16 DEF EngineAt
  <2>2. engine[d].burstCtr = next
    BY <1>16, <1>19, <2>1, EngineCounter
  <2>3. engine'[d].state = "Handling" /\ engine'[d].burstCtr = (next + MaxBurst - 1) % MaxBurst
        /\ engine'[d].burstCtrF = next
    BY <1>4, <1>9, <2>2
  <2> QED
    BY <1>19, <2>3 DEF EngineAt
<1> DEFINE Requests == [addr : 0 .. AddrSpace - 1, word : WordsOf(calls)]
<1>25. req \in Requests /\ outgoing[d] \in Seq(Requests)
  BY <1>6, <1>12, <1>13, <1>14, <1>18, CoreTypes
<1> HIDE DEF Requests
<1>26. /\ outgoing'[d] = Append(outgoing[d], req) /\ DOMAIN outgoing' = Cores
       /\ \A e \in Cores : e # d => outgoing'[e] = outgoing[e]
  BY <1>5, <1>7
<1>31. /\ outgoing'[d] \in Seq(Requests) /\ Len(outgoing'[d]) = Len(outgoing[d]) + 1
       /\ Len(outgoing[d]) \in Nat /\ outgoing'[d][Len(outgoing[d]) + 1] = req
       /\ \A k \in 1 .. Len(outgoing[d]) :
            outgoing'[d][k] = outgoing[d][k] /\ outgoing[d][k] \in Requests
  BY <1>25, <1>26, AppendProperties, ElementOfSeq
<1>23. UNCHANGED <<sending, bspQueue, bspRdPtr, calls, outgoingFlits, route, net, passing, bram,
                   latest>>
  BY <1>4 DEF EngineTook, sendVars, netVars, memVars
<1>32. Recent(d)' = word /\ \A e \in Cores : e # d => Recent(e)' = Recent(e)
  <2>1. outgoing'[d] # <<>> /\ outgoing'[d][Len(outgoing'[d])].word = word
    BY <1>6, <1>12, <1>31
  <2> QED
    BY <1>23, <1>26, <2>1 DEF Recent
<1>33. word # NoWord /\ next = Left(calls, word)
  <2>1. word \in Cores \X Nat \X Nat
    BY <1>13, CoreTypes, InWordsOf
  <2>2. PICK n \in Nat : n = Left(calls, word)
    BY <1>14
  <2>3. next = n
    BY <1>15, <1>19, <2>2
  <2> QED
    BY <2>1, <2>2, <2>3, IsAWord
<1>34. next <= 0 => Open(calls', Recent(d)') = NoWord
  BY <1>19, <1>23, <1>32, <1>33 DEF Open
<1>21. Handled(d, next)' = After(calls, flit)
  <2>1. engine'[d].addr = (AddressOf(calls, word) + 1) % AddrSpace
    BY <1>9, <1>18
  <2>3. Handled(d, next)' = Within(next, engine'[d].addr, d, Open(calls, word))
    BY <1>19, <1>23, <1>32 DEF Handled
  <2>4. CASE next = 0
    BY <1>13, <1>33, <2>3, <2>4 DEF Within
  <2>5. CASE next # 0
    <3>1. Open(calls, word) = word
      BY <1>33, <2>5 DEF Open
    <3> QED
      BY <1>13, <1>18, <1>33, <2>1, <2>3, <3>1
  <2> QED
    BY <2>4, <2>5
<1>22. /\ SendersInOrder' /\ ReceiversInOrder' /\ HeadsArrive'
       /\ \A e \in Cores : Len(incoming'[e]) <= FifoDepth
       /\ \A e \in Cores : IsStream(calls', incoming'[e])
       /\ DOMAIN incoming' = Cores
  BY <1>2, <1>4, <1>9, <1>20, <1>21, <1>32, <1>34, EngineStep
<1>24. engine' \in [Cores -> EngineType]
  <2>1. PICK e \in EngineType : e = engine[d]
    BY <1>5
  <2>2. (e.addr + 1) % AddrSpace \in 0 .. AddrSpace - 1
    <3>1. PICK A \in Nat \ {0} : A = AddrSpace
      BY Widths
    <3>2. PICK x \in Nat : x = e.addr + 1
      BY <3>1 DEF EngineType
    <3> QED
      BY <3>1, <3>2
  <2>3. (e.burstCtr + MaxBurst - 1) % MaxBurst \in 0 .. MaxBurst - 1
    <3>1. PICK M \in Nat \ {0} : M = MaxBurst
      BY Widths
    <3>2. PICK x \in Nat : x = e.burstCtr + M - 1
      BY <3>1 DEF EngineType
    <3> QED
      BY <3>1, <3>2
  <2>4. engine'[d] \in EngineType
    BY <1>9, <2>1, <2>2, <2>3 DEF EngineType
  <2> QED
    BY <1>5, <1>9, <2>4
<1>27. ASSUME NEW e \in Cores
       PROVE  /\ outgoing'[e] \in Seq(Requests) /\ Len(outgoing'[e]) <= FifoDepth
              /\ \A k \in 1 .. Len(outgoing'[e]) :
                   /\ outgoing'[e][k] \in Requests
                   /\ IsFor(calls, outgoing'[e][k].word, e, outgoing'[e][k].addr)
  <2>1. CASE e = d
    <3>1. IsFor(calls, req.word, d, req.addr)
      BY <1>6, <1>12, <1>18 DEF IsFor
    <3>2. \A k \in 1 .. Len(outgoing[d]) :
             IsFor(calls, outgoing[d][k].word, d, outgoing[d][k].addr)
      BY DEF Inner, WordsInPlace
    <3>4. Len(outgoing'[d]) <= FifoDepth
      BY <1>4, <1>31, RemotePutAssumption
    <3>5. ASSUME NEW k \in 1 .. Len(outgoing'[d])
          PROVE  /\ outgoing'[d][k] \in Requests
                 /\ IsFor(calls, outgoing'[d][k].word, d, outgoing'[d][k].addr)
      <4>1. CASE k = Len(outgoing[d]) + 1
        BY <1>25, <1>31, <3>1, <4>1
      <4>2. CASE k # Len(outgoing[d]) + 1
        <5>1. k \in 1 .. Len(outgoing[d])
          BY <1>31, <4>2
        <5> QED
          BY <1>31, <3>2, <5>1
      <4> QED
        BY <4>1, <4>2
    <3> QED
      BY <1>31, <2>1, <3>4, <3>5
  <2>2. CASE e # d
    <3>1. outgoing[e] \in Seq(Requests)
      BY CoreTypes DEF Requests
    <3>2. \A k \in 1 .. Len(outgoing[e]) : outgoing[e][k] \in Requests
      BY <3>1, ElementOfSeq
    <3>3. /\ Len(outgoing[e]) <= FifoDepth
          /\ \A k \in 1 .. Len(outgoing[e]) :
               IsFor(calls, outgoing[e][k].word, e, outgoing[e][k].addr)
      BY DEF Inner, TypeOK, WordsInPlace
    <3> QED
      BY <1>26, <2>2, <3>1, <3>2, <3>3
  <2> QED
    BY <2>1, <2>2
<1>28. TypeOK'
  <2>1. \A e \in Cores : \A k \in 1 .. Len(outgoing'[e]) : outgoing'[e][k].addr \in 0 .. AddrSpace - 1
    BY <1>27 DEF Requests
  <2>2. \A e \in Cores : Len(outgoing'[e]) <= FifoDepth
    BY <1>27
  <2> QED
    BY <1>22, <1>23, <1>24, <2>1, <2>2 DEF Inner, TypeOK, EngineType
<1>29. StreamsOK'
  BY <1>22, <1>23, <1>26, <1>27 DEF Inner, StreamsOK, Requests
<1>30. WordsInPlace'
  BY <1>23, <1>27 DEF Inner, WordsInPlace
<1>35. WordsJoined'
  <2> SUFFICES ASSUME NEW e \in Cores, NEW k \in 1 .. Len(outgoing'[e])
               PROVE  FrontOf(outgoing'[e][k].word) =
                        Open(calls, IF k = 1 THEN latest[e] ELSE outgoing'[e][k - 1].word)
    BY <1>23 DEF WordsJoined
  <2>1. CASE e # d
    BY <1>26, <2>1 DEF Inner, WordsJoined
  <2>2. CASE e = d /\ k \in 1 .. Len(outgoing[d])
    <3>1. outgoing'[d][k] = outgoing[d][k]
      BY <1>31, <2>2
    <3>2. k # 1 => outgoing'[d][k - 1] = outgoing[d][k - 1]
      BY <1>31, <2>2
    <3>3. FrontOf(outgoing[d][k].word) =
            Open(calls, IF k = 1 THEN latest[d] ELSE outgoing[d][k - 1].word)
      BY <2>2 DEF Inner, WordsJoined
    <3> QED
      BY <2>2, <3>1, <3>2, <3>3
  <2>3. CASE e = d /\ k \notin 1 .. Len(outgoing[d])
    <3>1. k = Len(outgoing[d]) + 1 /\ outgoing'[d][k].word = word
      BY <1>6, <1>12, <1>31, <2>3
    <3>2. CASE outgoing[d] = <<>>
      BY <1>18, <2>3, <3>1, <3>2 DEF Recent
    <3>3. CASE outgoing[d] # <<>>
      <4>1. /\ k # 1 /\ k - 1 = Len(outgoing[d])
            /\ outgoing'[d][k - 1] = outgoing[d][Len(outgoing[d])]
        BY <1>25, <1>31, <3>1, <3>3
      <4> QED
        BY <1>18, <2>3, <3>1, <3>3, <4>1 DEF Recent
    <3> QED
      BY <3>2, <3>3
  <2> QED
    BY <2>1, <2>2, <2>3
<1> QED
  BY <1>22, <1>28, <1>29, <1>30, <1>35 DEF Inner

\* A TAIL makes the engine idle; no HEAD comes while it handles a message.
LEMMA handleBodyFlitStep ==
  ASSUME Inner, NEW d \in Cores, handleBodyFlit(d)
  PROVE  Inner'
<1>1. PICK left \in -1 .. MaxBurst : \E end : ReceiverAt(d, left, end)
  BY ReceiverNow DEF Inner
<1>2. PICK end : ReceiverAt(d, left, end)
  BY <1>1
<1>3. PICK flit : flit = Head(incoming[d])
  OBVIOUS
<1>4. CASE flit.flitType = "BODY"
  BY <1>3, <1>4, handleWordStep
<1>5. CASE flit.flitType # "BODY"
  <2>1. EngineTook(d, flit) /\ engine[d].state = "Handling" /\ outgoing' = outgoing
    BY <1>3, <1>5 DEF handleBodyFlit, EngineTook
  <2>2. /\ FlitOK(calls, flit) /\ Before(calls, flit) = Handled(d, left)
        /\ EngineAt(engine[d], left)
    BY <1>2, <2>1, CoreTypes, StreamShorter DEF ReceiverAt, EngineTook
  <2>3. flit.flitType # "HEAD"
    <3>1. Handled(d, left) # NoMessage
      BY <2>1, <2>2, Expected
    <3> QED
      BY <2>2, <3>1, CoreTypes, Ends
  <2>4. flit.flitType = "TAIL" /\ After(calls, flit) = NoMessage
    BY <1>5, <2>2, <2>3, CoreTypes, Kinds
  <2>5. engine' = [engine EXCEPT ![d].burstCtrF = engine[d].burstCtr, ![d].state = "Idle"]
    BY <1>3, <2>4 DEF handleBodyFlit
  <2>6. engine \in [Cores -> EngineType]
    BY DEF Inner, TypeOK, EngineType
  <2>7. /\ engine'[d] = [state |-> "Idle", addr |-> engine[d].addr,
                         burstCtr |-> engine[d].burstCtr, burstCtrF |-> engine[d].burstCtr]
        /\ \A e \in Cores : e # d => engine'[e] = engine[e]
        /\ DOMAIN engine' = Cores /\ engine' = [e \in Cores |-> engine'[e]]
    BY <2>5, <2>6 DEF EngineType
  <2>8. engine' \in [Cores -> EngineType]
    BY <2>6, <2>7 DEF EngineType
  <2>9. PICK next \in -1 .. MaxBurst : next = -1
    BY Widths
  <2>10. EngineAt(engine'[d], next) /\ Handled(d, next)' = After(calls, flit)
    BY <2>4, <2>7, <2>9 DEF EngineAt, Handled
  <2>12. UNCHANGED <<sending, bspQueue, bspRdPtr, calls, outgoingFlits, route, net, passing, bram,
                     latest>>
    BY <2>1 DEF EngineTook, sendVars, netVars, memVars
  <2>16. \A e \in Cores : Recent(e)' = Recent(e)
    BY <2>1, <2>12, RecentKept
  <2>17. Open(calls', Recent(d)') = NoWord
    <3>1. left = 0
      <4>1. Handled(d, left).left = left
        BY <2>2, Expected
      <4>2. Before(calls, flit) = OnlyTail /\ OnlyTail.left = 0
        BY <2>2, <2>4, CoreTypes, Kinds DEF OnlyTail
      <4> QED
        BY <2>2, <4>1, <4>2
    <3>2. Open(calls, Recent(d)) = NoWord
      BY <1>2, <3>1 DEF ReceiverAt
    <3> QED
      BY <2>12, <2>16, <3>2
  <2>11. /\ SendersInOrder' /\ ReceiversInOrder' /\ HeadsArrive'
         /\ \A e \in Cores : Len(incoming'[e]) <= FifoDepth
         /\ \A e \in Cores : IsStream(calls', incoming'[e])
         /\ DOMAIN incoming' = Cores
    BY <1>2, <2>1, <2>7, <2>10, <2>16, <2>17, EngineStep
  <2>13. TypeOK'
    BY <2>1, <2>8, <2>11, <2>12 DEF Inner, TypeOK, EngineType
  <2>14. StreamsOK'
    BY <2>1, <2>11, <2>12 DEF Inner, StreamsOK
  <2>15. WordsInPlace' /\ WordsJoined'
    BY <2>1, <2>12 DEF Inner, WordsInPlace, WordsJoined
  <2> QED
    BY <2>11, <2>13, <2>14, <2>15 DEF Inner
<1> QED
  BY <1>4, <1>5

LEMMA OneLess ==
  ASSUME NEW n \in Nat, n >= 1, n # 1
  PROVE  \E m \in Nat : m + 1 = n /\ m >= 1 /\ m = n - 1
<1>1. n - 1 \in Nat /\ (n - 1) + 1 = n /\ n - 1 >= 1
  OBVIOUS
<1> QED
  BY <1>1

\* Port A writes the word at the head of outgoing.
LEMMA requestFEStep ==
  ASSUME Inner, NEW d \in Cores, requestFE(d)
  PROVE  Inner'
<1> DEFINE Requests == [addr : 0 .. AddrSpace - 1, word : WordsOf(calls)]
<1>1. PICK req : req = Head(outgoing[d])
  OBVIOUS
<1>2. /\ outgoing[d] # <<>> /\ outgoing' = [outgoing EXCEPT ![d] = Tail(outgoing[d])]
      /\ bram' = [bram EXCEPT ![d] = [a \in DOMAIN bram[d] \cup {req.addr} |->
                                        IF a = req.addr THEN req.word ELSE bram[d][a]]]
      /\ latest' = [latest EXCEPT ![d] = req.word]
      /\ UNCHANGED <<sendVars, outgoingFlits, netVars, incoming, engine>>
  BY <1>1 DEF requestFE
<1>3. /\ outgoing[d] \in Seq(Requests) /\ DOMAIN outgoing = Cores /\ DOMAIN bram = Cores
      /\ latest \in [Cores -> {NoWord} \cup WordsOf(calls)]
  BY CoreTypes DEF Inner, StreamsOK
<1> HIDE DEF Requests
<1>4. /\ outgoing'[d] = Tail(outgoing[d]) /\ DOMAIN outgoing' = Cores /\ DOMAIN bram' = Cores
      /\ bram'[d] = [a \in DOMAIN bram[d] \cup {req.addr} |->
                       IF a = req.addr THEN req.word ELSE bram[d][a]]
      /\ \A e \in Cores : e # d => outgoing'[e] = outgoing[e] /\ bram'[e] = bram[e]
      /\ latest'[d] = req.word /\ \A e \in Cores : e # d => latest'[e] = latest[e]
  BY <1>2, <1>3
<1>5. /\ Len(outgoing[d]) \in Nat /\ Len(outgoing[d]) >= 1 /\ req = outgoing[d][1]
      /\ Tail(outgoing[d]) \in Seq(Requests) /\ Len(Tail(outgoing[d])) = Len(outgoing[d]) - 1
      /\ \A k \in 1 .. Len(outgoing[d]) - 1 : Tail(outgoing[d])[k] = outgoing[d][k + 1]
  BY <1>1, <1>2, <1>3, HeadTailProperties
<1>6. req \in Requests /\ IsFor(calls, req.word, d, req.addr)
  <2>1. 1 \in 1 .. Len(outgoing[d])
    BY <1>5
  <2> QED
    BY <1>3, <1>5, <2>1, ElementOfSeq DEF Inner, WordsInPlace
<1>7. \A a \in DOMAIN bram[d] : /\ a \in 0 .. AddrSpace - 1 /\ bram[d][a] \in WordsOf(calls)
                                /\ IsFor(calls, bram[d][a], d, a)
  BY DEF Inner, TypeOK, StreamsOK, WordsInPlace
<1>8. \A a \in DOMAIN bram'[d] : /\ a \in 0 .. AddrSpace - 1 /\ bram'[d][a] \in WordsOf(calls)
                                 /\ IsFor(calls, bram'[d][a], d, a)
  <2> SUFFICES ASSUME NEW a \in DOMAIN bram'[d]
               PROVE  /\ a \in 0 .. AddrSpace - 1 /\ bram'[d][a] \in WordsOf(calls)
                      /\ IsFor(calls, bram'[d][a], d, a)
    OBVIOUS
  <2>1. CASE a = req.addr
    BY <1>4, <1>6, <2>1 DEF Requests
  <2>2. CASE a # req.addr
    BY <1>4, <1>7, <2>2
  <2> QED
    BY <2>1, <2>2
<1>9. ASSUME NEW k \in 1 .. Len(Tail(outgoing[d]))
      PROVE  /\ Tail(outgoing[d])[k] \in Requests
             /\ IsFor(calls, Tail(outgoing[d])[k].word, d, Tail(outgoing[d])[k].addr)
  <2>1. k + 1 \in 1 .. Len(outgoing[d]) /\ Tail(outgoing[d])[k] = outgoing[d][k + 1]
    BY <1>5
  <2>2. IsFor(calls, outgoing[d][k + 1].word, d, outgoing[d][k + 1].addr)
    BY <2>1 DEF Inner, WordsInPlace
  <2> QED
    BY <1>5, <2>1, <2>2, ElementOfSeq
<1>10. /\ \A b \in Cores : Queued(b)' = Queued(b) /\ Upcoming(b)' = Upcoming(b)
       /\ UNCHANGED <<sending, bspQueue, bspRdPtr, calls, outgoingFlits, route, net, passing,
                      incoming, engine>>
  BY <1>2 DEF sendVars, netVars, Queued, Upcoming
<1>11. TypeOK'
  <2>1. Len(outgoing'[d]) <= FifoDepth
    <3>1. Len(outgoing[d]) <= FifoDepth /\ FifoDepth \in Nat
      BY RemotePutAssumption DEF Inner, TypeOK
    <3> QED
      BY <1>4, <1>5, <3>1
  <2>2. \A k \in 1 .. Len(outgoing'[d]) : outgoing'[d][k].addr \in 0 .. AddrSpace - 1
    BY <1>4, <1>9 DEF Requests
  <2>3. DOMAIN bram'[d] \subseteq 0 .. AddrSpace - 1
    BY <1>8
  <2> QED
    BY <1>4, <1>10, <2>1, <2>2, <2>3 DEF Inner, TypeOK
<1>12. StreamsOK'
  <2>1. outgoing'[d] \in Seq(Requests)
    BY <1>4, <1>5
  <2>2. \A e \in Cores : outgoing'[e] \in Seq([addr : 0 .. AddrSpace - 1, word : WordsOf(calls)])
    BY <1>4, <2>1, CoreTypes DEF Requests
  <2>3. \A e \in Cores : \A a \in DOMAIN bram'[e] : bram'[e][a] \in WordsOf(calls)
    BY <1>4, <1>8 DEF Inner, StreamsOK
  <2>4. latest' \in [Cores -> {NoWord} \cup WordsOf(calls)]
    <3>1. req.word \in WordsOf(calls)
      BY <1>6 DEF Requests
    <3> QED
      BY <1>2, <1>3, <3>1
  <2> QED
    BY <1>4, <1>10, <2>2, <2>3, <2>4 DEF Inner, StreamsOK
<1>13. WordsInPlace'
  <2>1. \A k \in 1 .. Len(outgoing'[d]) : IsFor(calls, outgoing'[d][k].word, d, outgoing'[d][k].addr)
    BY <1>4, <1>9
  <2> QED
    BY <1>4, <1>8, <1>10, <2>1 DEF Inner, WordsInPlace
<1>14. SendersInOrder'
  BY <1>10 DEF Inner, SendersInOrder
<1>16. \A e \in Cores : Recent(e)' = Recent(e)
  <2>1. CASE Len(outgoing[d]) = 1
    <3>1. outgoing'[d] = <<>>
      BY <1>4, <1>5, <2>1
    <3>2. Recent(d)' = req.word /\ Recent(d) = req.word
      BY <1>2, <1>4, <1>5, <2>1, <3>1 DEF Recent
    <3> QED
      BY <1>4, <3>2 DEF Recent
  <2>2. CASE Len(outgoing[d]) # 1
    <3>1. PICK L \in Nat : L + 1 = Len(outgoing[d]) /\ L >= 1 /\ L = Len(outgoing[d]) - 1
      <4>1. Len(outgoing[d]) \in Nat /\ Len(outgoing[d]) >= 1
        BY <1>5
      <4> QED
        BY <2>2, <4>1, OneLess
    <3>2. L \in 1 .. Len(outgoing[d]) - 1
      <4>1. L \in 1 .. L
        BY <3>1
      <4> QED
        BY <3>1, <4>1
    <3>4. outgoing'[d][L] = outgoing[d][L + 1]
      BY <1>4, <1>5, <3>2
    <3>5. Len(outgoing'[d]) = L
      BY <1>4, <1>5, <3>1
    <3>6. outgoing'[d] # <<>>
      BY <3>1, <3>5
    <3>3. outgoing'[d] # <<>> /\ outgoing'[d][Len(outgoing'[d])] = outgoing[d][Len(outgoing[d])]
      BY <3>1, <3>4, <3>5, <3>6
    <3> QED
      BY <1>2, <1>4, <3>3 DEF Recent
  <2> QED
    BY <2>1, <2>2
<1>15. ReceiversInOrder' /\ HeadsArrive'
  BY <1>10, <1>16, ReceiversUntouched DEF Inner
<1>17. WordsJoined'
  <2> SUFFICES ASSUME NEW e \in Cores, NEW k \in 1 .. Len(outgoing'[e])
               PROVE  FrontOf(outgoing'[e][k].word) =
                        Open(calls, IF k = 1 THEN latest'[e] ELSE outgoing'[e][k - 1].word)
    BY <1>10 DEF WordsJoined
  <2>1. CASE e # d
    BY <1>4, <2>1 DEF Inner, WordsJoined
  <2>2. CASE e = d
    <3>1. /\ k \in 1 .. Len(outgoing[d]) - 1 /\ k + 1 \in 1 .. Len(outgoing[d]) /\ k + 1 # 1
          /\ (k + 1) - 1 = k
      BY <1>4, <1>5, <2>2
    <3>2. FrontOf(outgoing[d][k + 1].word) = Open(calls, outgoing[d][k].word)
      BY <3>1 DEF Inner, WordsJoined
    <3>3. outgoing'[d][k] = outgoing[d][k + 1]
      BY <1>4, <1>5, <3>1
    <3>4. (IF k = 1 THEN latest'[d] ELSE outgoing'[d][k - 1].word) = outgoing[d][k].word
      <4>1. CASE k = 1
        BY <1>4, <1>5, <4>1
      <4>2. CASE k # 1
        <5>1. k - 1 \in 1 .. Len(outgoing[d]) - 1 /\ (k - 1) + 1 = k
          BY <1>5, <3>1, <4>2
        <5>2. outgoing'[d][k - 1] = outgoing[d][(k - 1) + 1]
          BY <1>4, <1>5, <5>1
        <5> QED
          BY <4>2, <5>1, <5>2
      <4> QED
        BY <4>1, <4>2
    <3> QED
      BY <2>2, <3>2, <3>3, <3>4
  <2> QED
    BY <2>1, <2>2
<1> QED
  BY <1>11, <1>12, <1>13, <1>14, <1>15, <1>17 DEF Inner

LEMMA StutterStep ==
  Inner /\ UNCHANGED vars => Inner'
<1> SUFFICES ASSUME Inner, UNCHANGED vars
             PROVE  Inner'
  OBVIOUS
<1>1. /\ UNCHANGED <<sending, bspQueue, bspRdPtr, calls, outgoingFlits, route, net, passing,
                     incoming, outgoing, engine, bram, latest>>
  BY DEF vars, sendVars, netVars, feVars, memVars
<1>2. \A b \in Cores : Queued(b)' = Queued(b) /\ Upcoming(b)' = Upcoming(b)
  BY <1>1 DEF Queued, Upcoming
<1>3. TypeOK'
  BY <1>1 DEF Inner, TypeOK
<1>4. StreamsOK' /\ WordsInPlace' /\ WordsJoined'
  BY <1>1 DEF Inner, StreamsOK, WordsInPlace, WordsJoined
<1>5. SendersInOrder'
  BY <1>1, <1>2 DEF Inner, SendersInOrder
<1>7. \A e \in Cores : Recent(e)' = Recent(e)
  BY <1>1, RecentKept
<1>6. ReceiversInOrder' /\ HeadsArrive'
  BY <1>1, <1>2, <1>7, ReceiversUntouched DEF Inner
<1> QED
  BY <1>3, <1>4, <1>5, <1>6 DEF Inner

LEMMA InnerInit ==
  Init => Inner
<1> SUFFICES ASSUME Init
             PROVE  Inner
  OBVIOUS
<1>1. \A made : IsStream(made, <<>>) /\ Chain(made, <<>>, NoMessage, NoMessage)
  BY EmptyStream, ChainEmpty
<1>2. Len(<<>>) = 0 /\ \A S : <<>> \in Seq(S)
  OBVIOUS
<1>3. \A c \in Cores : /\ Queued(c) = NoMessage /\ Upcoming(c) = NoMessage
                       /\ Handled(c, -1) = NoMessage /\ Open(calls, Recent(c)) = NoWord
  BY DEF Init, Queued, Upcoming, Handled, Open, Recent
<1>4. TypeOK
  <2>1. 0 \in 0 .. AddrSpace - 1 /\ 0 \in 0 .. MaxBurst - 1
    BY Widths
  <2>2. FifoDepth \in Nat
    BY RemotePutAssumption
  <2> QED
    BY <2>1, <2>2 DEF Init, TypeOK
<1>5. StreamsOK
  <2>1. calls \in [Cores -> Seq(Calls)] /\ bspRdPtr \in [Cores -> Nat]
    BY <1>2 DEF Init
  <2>2. ASSUME NEW c \in Cores
        PROVE  /\ IsStream(calls, bspQueue[c]) /\ IsStream(calls, outgoingFlits[c])
               /\ \A d \in Cores : IsStream(calls, net[<<c, d>>])
               /\ IsStream(calls, incoming[c])
    BY <1>1 DEF Init
  <2>3. ASSUME NEW c \in Cores
        PROVE  /\ outgoing[c] \in Seq([addr : 0 .. AddrSpace - 1, word : WordsOf(calls)])
               /\ \A a \in DOMAIN bram[c] : bram[c][a] \in WordsOf(calls)
    BY <1>2 DEF Init
  <2>4. /\ DOMAIN bspQueue = Cores /\ DOMAIN outgoingFlits = Cores /\ DOMAIN net = Cores \X Cores
        /\ DOMAIN incoming = Cores /\ DOMAIN outgoing = Cores /\ DOMAIN bram = Cores
        /\ latest \in [Cores -> {NoWord} \cup WordsOf(calls)]
    BY DEF Init
  <2> QED
    BY <2>1, <2>2, <2>3, <2>4 DEF StreamsOK
<1>6. WordsInPlace /\ WordsJoined
  BY <1>2 DEF Init, WordsInPlace, WordsJoined
<1>7. SendersInOrder
  BY <1>1, <1>3 DEF Init, SendersInOrder
<1>8. ReceiversInOrder
  <2> SUFFICES ASSUME NEW d \in Cores
               PROVE  \E left \in -1 .. MaxBurst :
                        LET end == EndOf(calls, incoming[d], Handled(d, left))
                        IN  /\ EngineAt(engine[d], left)
                            /\ left <= 0 => Open(calls, Recent(d)) = NoWord
                            /\ Chain(calls, incoming[d], Handled(d, left), end)
                            /\ passing[d] = None <=> end = NoMessage
                            /\ \A c \in Cores : Chain(calls, net[<<c, d>>],
                                 IF passing[d] = c THEN end ELSE NoMessage,
                                 IF route[c] = d THEN Upcoming(c) ELSE NoMessage)
    BY DEF ReceiversInOrder
  <2>1. incoming[d] = <<>> /\ passing[d] = None /\ EngineAt(engine[d], -1)
    BY DEF Init, EngineAt
  <2>2. EndOf(calls, incoming[d], Handled(d, -1)) = NoMessage
    BY <1>3, <2>1 DEF EndOf
  <2>3. \A c \in Cores : net[<<c, d>>] = <<>>
    BY DEF Init
  <2>4. -1 \in -1 .. MaxBurst
    BY Widths
  <2> QED
    BY <1>1, <1>3, <2>1, <2>2, <2>3, <2>4
<1>9. HeadsArrive
  BY <1>2 DEF Init, HeadsArrive, NamesCore
<1> QED
  BY <1>4, <1>5, <1>6, <1>7, <1>8, <1>9 DEF Inner

-----------------------------------------------------------------------------
\* Trails.  How one of the five places changes.

Same(a, b)      == Len(b) = Len(a) /\ \A i \in 1 .. Len(a) : b[i] = a[i]
Lost(a, b)      == /\ Len(a) >= 1 /\ Len(b) = Len(a) - 1
                   /\ \A i \in 1 .. Len(b) : b[i] = a[i + 1]
Gained(a, b, w) == /\ Len(b) = Len(a) + 1 /\ b[Len(a) + 1] = w
                   /\ \A i \in 1 .. Len(a) : b[i] = a[i]

Earlier(p, i, q, j) == p < q \/ (p = q /\ i < j)

IsTrail(made, t) == \A p \in 1 .. 5 : /\ Len(t[p]) \in Nat
                                      /\ \A i \in 1 .. Len(t[p]) : t[p][i] \in {NoWord} \cup WordsOf(made)

LEMMA Order ==
  ASSUME NEW made, NEW c, NEW d, NEW last, NEW t, InOrder(made, t, c, d, last),
         NEW p \in 1 .. 5, NEW q \in 1 .. 5, NEW i \in 1 .. Len(t[p]), NEW j \in 1 .. Len(t[q]),
         Earlier(p, i, q, j), FromTo(made, t[p][i], c, d), FromTo(made, t[q][j], c, d)
  PROVE  Ahead(t[p][i], t[q][j])
<1>1. q \in p .. 5 /\ (p < q \/ i < j)
  BY DEF Earlier
<1> QED
  BY <1>1 DEF InOrder

\* Where each word of a trail u was on a trail t: that this loses no word of c
\* for d, and is in order.
ComesFrom(made, c, d, t, u, place, at) ==
  \A p \in 1 .. 5 : \A i \in 1 .. Len(u[p]) : FromTo(made, u[p][i], c, d) =>
    /\ place[p][i] \in 1 .. 5 /\ at[p][i] \in 1 .. Len(t[place[p][i]])
    /\ u[p][i] = t[place[p][i]][at[p][i]]

KeepsOrder(u, place, at) ==
  \A p \in 1 .. 5 : \A q \in 1 .. 5 : \A i \in 1 .. Len(u[p]) : \A j \in 1 .. Len(u[q]) :
    Earlier(p, i, q, j) => Earlier(place[p][i], at[p][i], place[q][j], at[q][j])

NoneLost(made, c, d, t, u) ==
  \A p \in 1 .. 5 : \A i \in 1 .. Len(t[p]) : FromTo(made, t[p][i], c, d) =>
    \E q \in 1 .. 5 : \E j \in 1 .. Len(u[q]) : u[q][j] = t[p][i]

LEMMA OrderKept ==
  ASSUME NEW made, NEW c, NEW d, NEW last, NEW t, InOrder(made, t, c, d, last), NEW u,
         NEW place, NEW at,
         ComesFrom(made, c, d, t, u, place, at), KeepsOrder(u, place, at),
         NoneLost(made, c, d, t, u)
  PROVE  InOrder(made, u, c, d, last)
<1>1. ASSUME NEW p \in 1 .. 5, NEW i \in 1 .. Len(u[p]), FromTo(made, u[p][i], c, d)
      PROVE  Behind(u[p][i], last)
  <2>1. PICK P, I : P = place[p][i] /\ I = at[p][i]
    OBVIOUS
  <2>2. P \in 1 .. 5 /\ I \in 1 .. Len(t[P]) /\ u[p][i] = t[P][I]
    BY <1>1, <2>1 DEF ComesFrom
  <2>3. Behind(t[P][I], last)
    BY <1>1, <2>2 DEF InOrder
  <2> QED
    BY <2>2, <2>3
<1>2. ASSUME NEW p \in 1 .. 5, NEW i \in 1 .. Len(u[p]), FromTo(made, u[p][i], c, d),
             NEW q \in p .. 5, NEW j \in 1 .. Len(u[q]), p < q \/ i < j,
             FromTo(made, u[q][j], c, d)
      PROVE  Ahead(u[p][i], u[q][j])
  <2>1. q \in 1 .. 5 /\ Earlier(p, i, q, j)
    BY <1>2 DEF Earlier
  <2>2. PICK P, I : P = place[p][i] /\ I = at[p][i]
    OBVIOUS
  <2>3. PICK Q, J : Q = place[q][j] /\ J = at[q][j]
    OBVIOUS
  <2>4. P \in 1 .. 5 /\ I \in 1 .. Len(t[P]) /\ u[p][i] = t[P][I]
    BY <1>2, <2>2 DEF ComesFrom
  <2>5. Q \in 1 .. 5 /\ J \in 1 .. Len(t[Q]) /\ u[q][j] = t[Q][J]
    BY <1>2, <2>1, <2>3 DEF ComesFrom
  <2>6. Earlier(P, I, Q, J)
    BY <2>1, <2>2, <2>3 DEF KeepsOrder
  <2>7. FromTo(made, t[P][I], c, d) /\ FromTo(made, t[Q][J], c, d)
    BY <1>2, <2>4, <2>5
  <2>8. Ahead(t[P][I], t[Q][J])
    BY <2>4, <2>5, <2>6, <2>7, Order
  <2> QED
    BY <2>4, <2>5, <2>8
<1>3. ASSUME NEW word \in Due(made, c, d, last)
      PROVE  \E p \in 1 .. 5 : \E i \in 1 .. Len(u[p]) : u[p][i] = word
  <2>1. PICK p \in 1 .. 5 : \E i \in 1 .. Len(t[p]) : t[p][i] = word
    BY DEF InOrder
  <2>2. PICK i \in 1 .. Len(t[p]) : t[p][i] = word
    BY <2>1
  <2>3. FromTo(made, t[p][i], c, d)
    BY <2>2 DEF Due
  <2> QED
    BY <2>2, <2>3 DEF NoneLost
<1> QED
  BY <1>1, <1>2, <1>3 DEF InOrder

\* The first word of one place goes to the end of the next.
LEMMA TrailMoved ==
  ASSUME NEW made, NEW c, NEW d, NEW last, NEW t, InOrder(made, t, c, d, last), NEW u,
         \A p \in 1 .. 5 : Len(t[p]) \in Nat,
         NEW s \in 2 .. 5, Lost(t[s], u[s]), Gained(t[s - 1], u[s - 1], t[s][1]),
         \A p \in 1 .. 5 : p # s /\ p # s - 1 => Same(t[p], u[p])
  PROVE  InOrder(made, u, c, d, last)
<1> DEFINE new(p, i) == p = s - 1 /\ i = Len(t[s - 1]) + 1
           place == [p \in 1 .. 5 |-> [i \in 1 .. Len(u[p]) |-> IF new(p, i) THEN s ELSE p]]
           at    == [p \in 1 .. 5 |-> [i \in 1 .. Len(u[p]) |->
                       IF new(p, i) THEN 1 ELSE IF p = s THEN i + 1 ELSE i]]
<1>1. ASSUME NEW p \in 1 .. 5, NEW i \in 1 .. Len(u[p])
      PROVE  /\ i \in Nat /\ place[p][i] = (IF new(p, i) THEN s ELSE p)
             /\ at[p][i] = (IF new(p, i) THEN 1 ELSE IF p = s THEN i + 1 ELSE i)
  OBVIOUS
<1> HIDE DEF place, at
<1>2. s - 1 \in 1 .. 5 /\ s \in 1 .. 5 /\ s - 1 # s
  OBVIOUS
<1>3. ASSUME NEW p \in 1 .. 5, NEW i \in 1 .. Len(u[p])
      PROVE  /\ place[p][i] \in 1 .. 5 /\ at[p][i] \in 1 .. Len(t[place[p][i]])
             /\ u[p][i] = t[place[p][i]][at[p][i]]
  <2>1. CASE new(p, i)
    <3>1. place[p][i] = s /\ at[p][i] = 1
      BY <1>1, <2>1
    <3>2. u[p][i] = t[s][1] /\ 1 \in 1 .. Len(t[s])
      BY <1>2, <2>1 DEF Gained, Lost
    <3> QED
      BY <1>2, <3>1, <3>2
  <2>2. CASE p = s
    <3>1. place[p][i] = s /\ at[p][i] = i + 1
      BY <1>1, <1>2, <2>2
    <3>2. u[s][i] = t[s][i + 1] /\ i + 1 \in 1 .. Len(t[s])
      BY <1>2, <2>2 DEF Lost
    <3> QED
      BY <1>2, <2>2, <3>1, <3>2
  <2>3. CASE p # s /\ ~new(p, i)
    <3>1. place[p][i] = p /\ at[p][i] = i
      BY <1>1, <2>3
    <3>2. i \in 1 .. Len(t[p]) /\ u[p][i] = t[p][i]
      <4>1. CASE p = s - 1
        <5>1. Len(u[p]) = Len(t[p]) + 1 /\ Len(t[p]) \in Nat /\ i # Len(t[p]) + 1
          BY <1>2, <2>3, <4>1 DEF Gained
        <5>2. i \in 1 .. Len(t[p])
          BY <5>1
        <5> QED
          BY <4>1, <5>2 DEF Gained
      <4>2. CASE p # s - 1
        BY <2>3, <4>2 DEF Same
      <4> QED
        BY <4>1, <4>2
    <3> QED
      BY <3>1, <3>2
  <2> QED
    BY <2>1, <2>2, <2>3
<1>4. ASSUME NEW p \in 1 .. 5, NEW q \in 1 .. 5, NEW i \in 1 .. Len(u[p]), NEW j \in 1 .. Len(u[q]),
             Earlier(p, i, q, j)
      PROVE  Earlier(place[p][i], at[p][i], place[q][j], at[q][j])
  <2>1. /\ i \in Nat /\ place[p][i] = (IF new(p, i) THEN s ELSE p)
        /\ at[p][i] = (IF new(p, i) THEN 1 ELSE IF p = s THEN i + 1 ELSE i)
    BY <1>1
  <2>2. /\ j \in Nat /\ place[q][j] = (IF new(q, j) THEN s ELSE q)
        /\ at[q][j] = (IF new(q, j) THEN 1 ELSE IF q = s THEN j + 1 ELSE j)
    BY <1>1
  <2>3. j >= 1 /\ i >= 1 /\ Len(t[s - 1]) \in Nat
    BY <1>2
  <2>4. q = s - 1 => j <= Len(t[s - 1]) + 1
    BY <1>2 DEF Gained
  <2> QED
    BY <1>2, <1>4, <2>1, <2>2, <2>3, <2>4 DEF Earlier
<1>5. ASSUME NEW p \in 1 .. 5, NEW i \in 1 .. Len(t[p])
      PROVE  \E q \in 1 .. 5 : \E j \in 1 .. Len(u[q]) : u[q][j] = t[p][i]
  <2>1. CASE p = s /\ i = 1
    <3>1. Len(t[s - 1]) + 1 \in 1 .. Len(u[s - 1]) /\ u[s - 1][Len(t[s - 1]) + 1] = t[p][i]
      BY <1>2, <2>1 DEF Gained
    <3> QED
      BY <1>2, <3>1
  <2>2. CASE p = s /\ i # 1
    <3>1. i - 1 \in 1 .. Len(u[s]) /\ (i - 1) + 1 = i
      BY <1>2, <2>2 DEF Lost
    <3>2. u[s][i - 1] = t[s][(i - 1) + 1]
      BY <3>1 DEF Lost
    <3> QED
      BY <1>2, <2>2, <3>1, <3>2
  <2>3. CASE p = s - 1
    <3>1. i \in 1 .. Len(u[p]) /\ u[p][i] = t[p][i]
      BY <1>2, <2>3 DEF Gained
    <3> QED
      BY <3>1
  <2>4. CASE p # s /\ p # s - 1
    <3>1. i \in 1 .. Len(u[p]) /\ u[p][i] = t[p][i]
      BY <2>4 DEF Same
    <3> QED
      BY <3>1
  <2> QED
    BY <2>1, <2>2, <2>3, <2>4
<1> HIDE DEF new
<1>6. /\ ComesFrom(made, c, d, t, u, place, at) /\ KeepsOrder(u, place, at)
      /\ NoneLost(made, c, d, t, u)
  BY <1>3, <1>4, <1>5 DEF ComesFrom, KeepsOrder, NoneLost
<1> QED
  BY <1>6, OrderKept

\* The first word of a place, of other cores, leaves the trail.
LEMMA TrailDropped ==
  ASSUME NEW made, NEW c, NEW d, NEW last, NEW t, InOrder(made, t, c, d, last), NEW u,
         \A p \in 1 .. 5 : Len(t[p]) \in Nat,
         NEW s \in 1 .. 5, Lost(t[s], u[s]), ~FromTo(made, t[s][1], c, d),
         \A p \in 1 .. 5 : p # s => Same(t[p], u[p])
  PROVE  InOrder(made, u, c, d, last)
<1> DEFINE place == [p \in 1 .. 5 |-> [i \in 1 .. Len(u[p]) |-> p]]
           at    == [p \in 1 .. 5 |-> [i \in 1 .. Len(u[p]) |-> IF p = s THEN i + 1 ELSE i]]
<1>1. ASSUME NEW p \in 1 .. 5, NEW i \in 1 .. Len(u[p])
      PROVE  place[p][i] = p /\ at[p][i] = IF p = s THEN i + 1 ELSE i
  OBVIOUS
<1> HIDE DEF place, at
<1>3. ASSUME NEW p \in 1 .. 5, NEW i \in 1 .. Len(u[p])
      PROVE  /\ place[p][i] \in 1 .. 5 /\ at[p][i] \in 1 .. Len(t[place[p][i]])
             /\ u[p][i] = t[place[p][i]][at[p][i]]
  <2>2. CASE p = s
    <3>1. place[p][i] = s /\ at[p][i] = i + 1
      BY <1>1, <2>2
    <3>3. Len(t[s]) \in Nat /\ i \in 1 .. Len(u[s])
      BY <2>2
    <3>4. Len(u[s]) = Len(t[s]) - 1 /\ \A k \in 1 .. Len(u[s]) : u[s][k] = t[s][k + 1]
      BY DEF Lost
    <3>2. u[s][i] = t[s][i + 1] /\ i + 1 \in 1 .. Len(t[s])
      BY <3>3, <3>4
    <3> QED
      BY <2>2, <3>1, <3>2
  <2>3. CASE p # s
    <3>1. place[p][i] = p /\ at[p][i] = i
      BY <1>1, <2>3
    <3>2. i \in 1 .. Len(t[p]) /\ u[p][i] = t[p][i]
      BY <2>3 DEF Same
    <3> QED
      BY <3>1, <3>2
  <2> QED
    BY <2>2, <2>3
<1>4. ASSUME NEW p \in 1 .. 5, NEW q \in 1 .. 5, NEW i \in 1 .. Len(u[p]), NEW j \in 1 .. Len(u[q]),
             Earlier(p, i, q, j)
      PROVE  Earlier(place[p][i], at[p][i], place[q][j], at[q][j])
  <2>1. place[p][i] = p /\ place[q][j] = q
    BY <1>1
  <2>2. at[p][i] = (IF p = s THEN i + 1 ELSE i) /\ at[q][j] = (IF q = s THEN j + 1 ELSE j)
    BY <1>1
  <2>3. i \in Nat /\ j \in Nat
    OBVIOUS
  <2> QED
    BY <1>4, <2>1, <2>2, <2>3 DEF Earlier
<1>5. ASSUME NEW p \in 1 .. 5, NEW i \in 1 .. Len(t[p]), FromTo(made, t[p][i], c, d)
      PROVE  \E q \in 1 .. 5 : \E j \in 1 .. Len(u[q]) : u[q][j] = t[p][i]
  <2>2. CASE p = s
    <3>1. i # 1
      BY <1>5, <2>2
    <3>2. i - 1 \in 1 .. Len(u[s]) /\ (i - 1) + 1 = i
      BY <2>2, <3>1 DEF Lost
    <3>3. u[s][i - 1] = t[s][(i - 1) + 1]
      BY <3>2 DEF Lost
    <3> QED
      BY <2>2, <3>2, <3>3
  <2>4. CASE p # s
    <3>1. i \in 1 .. Len(u[p]) /\ u[p][i] = t[p][i]
      BY <2>4 DEF Same
    <3> QED
      BY <3>1
  <2> QED
    BY <2>2, <2>4
<1>6. /\ ComesFrom(made, c, d, t, u, place, at) /\ KeepsOrder(u, place, at)
      /\ NoneLost(made, c, d, t, u)
  BY <1>3, <1>4, <1>5 DEF ComesFrom, KeepsOrder, NoneLost
<1> QED
  BY <1>6, OrderKept

\* A word of other cores comes to the end of a place.
LEMMA TrailGained ==
  ASSUME NEW made, NEW c, NEW d, NEW last, NEW t, InOrder(made, t, c, d, last), NEW u,
         \A p \in 1 .. 5 : Len(t[p]) \in Nat,
         NEW s \in 1 .. 5, NEW w, Gained(t[s], u[s], w), ~FromTo(made, w, c, d),
         \A p \in 1 .. 5 : p # s => Same(t[p], u[p])
  PROVE  InOrder(made, u, c, d, last)
<1> DEFINE place == [p \in 1 .. 5 |-> [i \in 1 .. Len(u[p]) |-> p]]
           at    == [p \in 1 .. 5 |-> [i \in 1 .. Len(u[p]) |-> i]]
<1>1. ASSUME NEW p \in 1 .. 5, NEW i \in 1 .. Len(u[p])
      PROVE  place[p][i] = p /\ at[p][i] = i
  OBVIOUS
<1> HIDE DEF place, at
<1>3. ASSUME NEW p \in 1 .. 5, NEW i \in 1 .. Len(u[p]), FromTo(made, u[p][i], c, d)
      PROVE  /\ place[p][i] \in 1 .. 5 /\ at[p][i] \in 1 .. Len(t[place[p][i]])
             /\ u[p][i] = t[place[p][i]][at[p][i]]
  <2>2. i \in 1 .. Len(t[p]) /\ u[p][i] = t[p][i]
    <3>1. CASE p = s
      <4>1. i # Len(t[s]) + 1
        BY <1>3, <3>1 DEF Gained
      <4>2. i \in 1 .. Len(t[s])
        BY <3>1, <4>1 DEF Gained
      <4> QED
        BY <3>1, <4>2 DEF Gained
    <3>2. CASE p # s
      BY <3>2 DEF Same
    <3> QED
      BY <3>1, <3>2
  <2> QED
    BY <1>1, <2>2
<1>4. ASSUME NEW p \in 1 .. 5, NEW q \in 1 .. 5, NEW i \in 1 .. Len(u[p]), NEW j \in 1 .. Len(u[q]),
             Earlier(p, i, q, j)
      PROVE  Earlier(place[p][i], at[p][i], place[q][j], at[q][j])
  <2>1. place[p][i] = p /\ place[q][j] = q
    BY <1>1
  <2>2. at[p][i] = i /\ at[q][j] = j
    BY <1>1
  <2>3. i \in Nat /\ j \in Nat
    OBVIOUS
  <2> QED
    BY <1>4, <2>1, <2>2, <2>3 DEF Earlier
<1>5. ASSUME NEW p \in 1 .. 5, NEW i \in 1 .. Len(t[p])
      PROVE  \E q \in 1 .. 5 : \E j \in 1 .. Len(u[q]) : u[q][j] = t[p][i]
  <2>1. i \in 1 .. Len(u[p]) /\ u[p][i] = t[p][i]
    <3>1. CASE p = s
      BY <3>1, SMTT(30) DEF Gained
    <3>2. CASE p # s
      BY <3>2 DEF Same
    <3> QED
      BY <3>1, <3>2
  <2> QED
    BY <2>1
<1>6. /\ ComesFrom(made, c, d, t, u, place, at) /\ KeepsOrder(u, place, at)
      /\ NoneLost(made, c, d, t, u)
  BY <1>3, <1>4, <1>5 DEF ComesFrom, KeepsOrder, NoneLost
<1> QED
  BY <1>6, OrderKept

LEMMA CarriedFacts ==
  ASSUME NEW s, Len(s) \in Nat, NEW first \in 0 .. Len(s)
  PROVE  /\ Len(Carried(s, first)) = Len(s) - first
         /\ \A i \in 1 .. Len(s) - first : Carried(s, first)[i] = WordIn(s[first + i])
<1>1. PICK n \in Nat : n = Len(s) - first
  OBVIOUS
<1> DEFINE T == {WordIn(s[first + i]) : i \in 1 .. n}
           x == [i \in 1 .. n |-> WordIn(s[first + i])]
<1>2. Carried(s, first) = x
  BY <1>1 DEF Carried
<1>3. x \in [1 .. n -> T] /\ \A i \in 1 .. n : x[i] = WordIn(s[first + i])
  OBVIOUS
<1> HIDE DEF T, x
<1>4. x \in Seq(T)
  BY <1>3, SeqDef
<1>5. Len(x) = n
  BY <1>3, <1>4, LenProperties
<1> QED
  BY <1>1, <1>2, <1>3, <1>5

LEMMA CarriedAll ==
  ASSUME NEW s, Len(s) \in Nat
  PROVE  Len(Carried(s, 0)) = Len(s) /\ \A i \in 1 .. Len(s) : Carried(s, 0)[i] = WordIn(s[i])
<1>1. 0 \in 0 .. Len(s) /\ Len(s) - 0 = Len(s)
  OBVIOUS
<1>2. /\ Len(Carried(s, 0)) = Len(s) - 0
      /\ \A i \in 1 .. Len(s) - 0 : Carried(s, 0)[i] = WordIn(s[0 + i])
  BY <1>1, CarriedFacts
<1>3. \A i \in 1 .. Len(s) : 0 + i = i
  OBVIOUS
<1> QED
  BY <1>1, <1>2, <1>3

LEMMA CarriedTail ==
  ASSUME NEW S, NEW s \in Seq(S), s # <<>>
  PROVE  /\ Lost(Carried(s, 0), Carried(Tail(s), 0))
         /\ Carried(s, 0)[1] = WordIn(Head(s))
<1>1. /\ Len(s) \in Nat /\ Len(s) >= 1 /\ Len(Tail(s)) = Len(s) - 1 /\ Len(Tail(s)) \in Nat
      /\ Head(s) = s[1] /\ \A i \in 1 .. Len(s) - 1 : Tail(s)[i] = s[i + 1]
  BY HeadTailProperties
<1>2. /\ Len(Carried(s, 0)) = Len(s) /\ \A i \in 1 .. Len(s) : Carried(s, 0)[i] = WordIn(s[i])
  BY <1>1, CarriedAll
<1>3. /\ Len(Carried(Tail(s), 0)) = Len(Tail(s))
      /\ \A i \in 1 .. Len(Tail(s)) : Carried(Tail(s), 0)[i] = WordIn(Tail(s)[i])
  BY <1>1, CarriedAll
<1>4. ASSUME NEW i \in 1 .. Len(s) - 1
      PROVE  Carried(Tail(s), 0)[i] = Carried(s, 0)[i + 1]
  <2>1. i + 1 \in 1 .. Len(s)
    BY <1>1
  <2> QED
    BY <1>1, <1>2, <1>3, <2>1
<1>5. 1 \in 1 .. Len(s)
  BY <1>1
<1> QED
  BY <1>1, <1>2, <1>3, <1>4, <1>5 DEF Lost

LEMMA CarriedAppend ==
  ASSUME NEW S, NEW s \in Seq(S), NEW flit
  PROVE  Gained(Carried(s, 0), Carried(Append(s, flit), 0), WordIn(flit))
<1> DEFINE T == S \cup {flit}
<1>1. s \in Seq(T) /\ flit \in T
  OBVIOUS
<1> HIDE DEF T
<1>2. /\ Len(s) \in Nat /\ Len(Append(s, flit)) = Len(s) + 1
      /\ Append(s, flit)[Len(s) + 1] = flit /\ \A i \in 1 .. Len(s) : Append(s, flit)[i] = s[i]
  BY <1>1, AppendProperties
<1>3. Len(Carried(s, 0)) = Len(s) /\ \A i \in 1 .. Len(s) : Carried(s, 0)[i] = WordIn(s[i])
  BY <1>2, CarriedAll
<1>4. Len(Append(s, flit)) \in Nat
  BY <1>2
<1>5. /\ Len(Carried(Append(s, flit), 0)) = Len(Append(s, flit))
      /\ \A i \in 1 .. Len(Append(s, flit)) :
           Carried(Append(s, flit), 0)[i] = WordIn(Append(s, flit)[i])
  BY <1>4, CarriedAll
<1> QED
  BY <1>2, <1>3, <1>5 DEF Gained

\* A queue from which one flit more has been sent.
LEMMA CarriedNext ==
  ASSUME NEW s, Len(s) \in Nat, NEW n \in Nat, n < Len(s)
  PROVE  /\ Lost(Carried(s, n), Carried(s, n + 1))
         /\ Carried(s, n)[1] = WordIn(s[n + 1])
<1>1. n \in 0 .. Len(s) /\ n + 1 \in 0 .. Len(s) /\ Len(s) - (n + 1) = (Len(s) - n) - 1
  OBVIOUS
<1>2. /\ Len(Carried(s, n)) = Len(s) - n
      /\ \A i \in 1 .. Len(s) - n : Carried(s, n)[i] = WordIn(s[n + i])
  BY <1>1, CarriedFacts
<1>3. /\ Len(Carried(s, n + 1)) = Len(s) - (n + 1)
      /\ \A i \in 1 .. Len(s) - (n + 1) : Carried(s, n + 1)[i] = WordIn(s[(n + 1) + i])
  BY <1>1, CarriedFacts
<1>4. ASSUME NEW i \in 1 .. Len(s) - (n + 1)
      PROVE  Carried(s, n + 1)[i] = Carried(s, n)[i + 1]
  <2>1. i + 1 \in 1 .. Len(s) - n /\ n + (i + 1) = (n + 1) + i
    OBVIOUS
  <2> QED
    BY <1>2, <1>3, <2>1
<1>5. 1 \in 1 .. Len(s) - n
  OBVIOUS
<1>6. Carried(s, n)[1] = WordIn(s[n + 1])
  BY <1>2, <1>5
<1>7. Len(Carried(s, n)) >= 1 /\ Len(Carried(s, n + 1)) = Len(Carried(s, n)) - 1
  <2>1. PICK L \in Nat : L = Len(s)
    OBVIOUS
  <2>2. Len(Carried(s, n)) = L - n /\ Len(Carried(s, n + 1)) = L - (n + 1) /\ n < L
    BY <1>2, <1>3, <2>1
  <2> QED
    BY <2>1, <2>2
<1> QED
  BY <1>3, <1>4, <1>6, <1>7 DEF Lost

\* What is known of a further call's words.
LEMMA NewWords ==
  ASSUME NEW made \in Histories, NEW a \in Cores, NEW k \in Calls, NEW new,
         new = WithCall(made, a, k), NEW n, n = Len(made[a]) + 1
  PROVE  /\ n \in Nat /\ new \in Histories
         /\ \A word \in WordsOf(made) : /\ word \in WordsOf(new)
                                        /\ \A c, d : FromTo(new, word, c, d) <=> FromTo(made, word, c, d)
                                        /\ word[1] = a => word[2] \in Nat /\ word[2] < n
         /\ \A word \in WordsOf(new) : word \in WordsOf(made) \/
              (k.len \in 1 .. MaxBurst /\ \E j \in 1 .. k.len : word = <<a, n, j>>)
         /\ \A j \in 1 .. k.len : /\ CallOf(new, <<a, n, j>>) = k
                                  /\ k.len \in 1 .. MaxBurst => <<a, n, j>> \in WordsOf(new)
                                  /\ <<a, n, j>> \notin WordsOf(made)
                                  /\ \A c, d : FromTo(new, <<a, n, j>>, c, d) <=> c = a /\ d = k.to
<1>1. made[a] \in Seq(Calls) /\ Len(made[a]) \in Nat /\ n \in Nat
  BY DEF Histories
<1>2. new \in Histories /\ new[a] = Append(made[a], k) /\ \A b \in Cores : b # a => new[b] = made[b]
  BY DEF Histories, WithCall
<1>3. Len(new[a]) = n /\ new[a][n] = k
  BY <1>1, <1>2, AppendProperties
<1>4. PICK len \in Nat : len = k.len
  BY CallFacts
<1>5. ASSUME NEW word \in WordsOf(made)
      PROVE  /\ word \in WordsOf(new)
             /\ \A c, d : FromTo(new, word, c, d) <=> FromTo(made, word, c, d)
             /\ word[1] = a => word[2] \in Nat /\ word[2] < n
  <2>1. CallOf(new, word) = CallOf(made, word) /\ word \in WordsOf(new)
    BY WordsKept
  <2>2. word[2] \in 1 .. Len(made[word[1]])
    BY InWordsOf
  <2>3. word[1] = a => word[2] \in Nat /\ word[2] < n
    BY <1>1, <2>2
  <2> QED
    BY <2>1, <2>3 DEF FromTo
<1>6. ASSUME NEW word \in WordsOf(new)
      PROVE  word \in WordsOf(made) \/
               (k.len \in 1 .. MaxBurst /\ \E j \in 1 .. k.len : word = <<a, n, j>>)
  <2>1. /\ word \in Cores \X Nat \X Nat /\ word[2] \in 1 .. Len(new[word[1]])
        /\ word[3] \in 1 .. CallOf(new, word).len /\ CallOf(new, word).len <= MaxBurst
    BY <1>2, InWordsOf
  <2>2. PICK b \in Cores, m \in Nat, j \in Nat : word = <<b, m, j>>
    BY <2>1
  <2>3. word[1] = b /\ word[2] = m /\ word[3] = j
    BY <2>2
  <2>4. CASE b = a /\ m = n
    <3>1. CallOf(new, word) = k
      BY <1>3, <2>3, <2>4 DEF CallOf
    <3>2. j \in 1 .. len /\ len <= MaxBurst
      BY <1>4, <2>1, <2>3, <3>1
    <3>3. len \in 1 .. MaxBurst
      BY <3>2, Widths
    <3> QED
      BY <1>4, <2>2, <2>4, <3>2, <3>3
  <2>5. CASE ~(b = a /\ m = n)
    <3>1. m \in 1 .. Len(made[b]) /\ new[b][m] = made[b][m]
      <4>1. CASE b = a
        <5>1. m \in 1 .. Len(made[a])
          BY <1>1, <1>3, <2>1, <2>3, <2>5, <4>1
        <5> QED
          BY <1>1, <1>2, <4>1, <5>1, AppendProperties
      <4>2. CASE b # a
        BY <1>2, <2>1, <2>3, <4>2
      <4> QED
        BY <4>1, <4>2
    <3>2. CallOf(made, word) = CallOf(new, word)
      BY <2>3, <3>1 DEF CallOf
    <3>3. word \in WordsOf(made)
      BY <2>1, <2>3, <3>1, <3>2, InWordsOf
    <3> QED
      BY <3>3
  <2> QED
    BY <2>4, <2>5
<1>7. ASSUME NEW j \in 1 .. k.len
      PROVE  /\ CallOf(new, <<a, n, j>>) = k
             /\ k.len \in 1 .. MaxBurst => <<a, n, j>> \in WordsOf(new)
             /\ <<a, n, j>> \notin WordsOf(made)
             /\ \A c, d : FromTo(new, <<a, n, j>>, c, d) <=> c = a /\ d = k.to
  <2>1. PICK word : word = <<a, n, j>>
    OBVIOUS
  <2>2. word[1] = a /\ word[2] = n /\ word[3] = j /\ word # NoWord /\ j \in Nat
    BY <1>4, <2>1 DEF NoWord
  <2>3. CallOf(new, word) = k
    BY <1>3, <2>2 DEF CallOf
  <2>4. ASSUME k.len \in 1 .. MaxBurst PROVE word \in WordsOf(new)
    <3>1. word \in Cores \X Nat \X Nat
      BY <1>1, <2>1, <2>2
    <3>2. /\ word[2] \in 1 .. Len(new[word[1]])
          /\ word[3] \in 1 .. CallOf(new, word).len /\ CallOf(new, word).len <= MaxBurst
      BY <1>1, <1>3, <1>4, <2>2, <2>3, <2>4, Widths
    <3> QED
      BY <1>2, <3>1, <3>2, InWordsOf
  <2>5. word \notin WordsOf(made)
    <3> SUFFICES ASSUME word \in WordsOf(made) PROVE FALSE
      OBVIOUS
    <3>1. word[2] < n
      BY <1>5, <2>2
    <3> QED
      BY <1>1, <2>2, <3>1
  <2>6. \A c, d : FromTo(new, word, c, d) <=> c = a /\ d = k.to
    BY <2>2, <2>3 DEF FromTo
  <2> QED
    BY <2>1, <2>3, <2>4, <2>5, <2>6
<1> QED
  BY <1>1, <1>2, <1>5, <1>6, <1>7

\* The place of a trail that a packet comes to.
Packed(x, y, c, n, k) ==
  /\ Len(y) = Len(x) + k.len + 2 /\ \A i \in 1 .. Len(x) : y[i] = x[i]
  /\ y[Len(x) + 1] = NoWord /\ y[Len(x) + k.len + 2] = NoWord
  /\ \A j \in 1 .. k.len : y[Len(x) + 1 + j] = <<c, n, j>>

LEMMA TrailCalled ==
  ASSUME NEW made \in Histories, NEW a \in Cores, NEW k \in Calls, NEW new,
         new = WithCall(made, a, k), NEW n, n = Len(made[a]) + 1,
         NEW c \in Cores, NEW d, NEW last \in {NoWord} \cup WordsOf(made),
         last # NoWord => last[1] = c,
         NEW t, IsTrail(made, t), InOrder(made, t, c, d, last), NEW u,
         \A p \in 1 .. 4 : Same(t[p], u[p]),
         IF c = a /\ k.len \in 1 .. MaxBurst THEN Packed(t[5], u[5], c, n, k) ELSE Same(t[5], u[5])
  PROVE  InOrder(new, u, c, d, last)
<1>1. PICK len \in Nat : len = k.len
  BY CallFacts
<1>2. /\ n \in Nat /\ new \in Histories
      /\ \A word \in WordsOf(made) : /\ word \in WordsOf(new)
                                     /\ FromTo(new, word, c, d) <=> FromTo(made, word, c, d)
                                     /\ word[1] = a => word[2] \in Nat /\ word[2] < n
      /\ \A word \in WordsOf(new) : word \in WordsOf(made) \/
           (k.len \in 1 .. MaxBurst /\ \E j \in 1 .. k.len : word = <<a, n, j>>)
      /\ \A j \in 1 .. k.len : FromTo(new, <<a, n, j>>, c, d) <=> c = a /\ d = k.to
  BY NewWords
<1>3. ~FromTo(new, NoWord, c, d)
  BY DEF FromTo
<1> DEFINE Old(p, i) == /\ i \in 1 .. Len(t[p]) /\ u[p][i] = t[p][i] /\ t[p][i] \in WordsOf(made)
                        /\ FromTo(made, t[p][i], c, d)
           New(p, i, j) == c = a /\ p = 5 /\ j \in 1 .. len /\ i = Len(t[5]) + 1 + j /\ u[p][i] = <<c, n, j>>
<1>4. ASSUME NEW p \in 1 .. 5, NEW i \in 1 .. Len(u[p]), FromTo(new, u[p][i], c, d)
      PROVE  Old(p, i) \/ \E j : New(p, i, j)
  <2>1. Len(t[p]) \in Nat /\ \A x \in 1 .. Len(t[p]) : t[p][x] \in {NoWord} \cup WordsOf(made)
    BY DEF IsTrail
  <2>2. ASSUME i \in 1 .. Len(t[p]), u[p][i] = t[p][i]
        PROVE  Old(p, i)
    BY <1>2, <1>3, <1>4, <2>1, <2>2
  <2>3. CASE p = 5 /\ c = a /\ k.len \in 1 .. MaxBurst
    <3>1. Packed(t[p], u[p], c, n, k)
      BY <2>3
    <3>2. Len(u[p]) = Len(t[p]) + len + 2
      BY <1>1, <3>1 DEF Packed
    <3>3. CASE i \in 1 .. Len(t[p])
      BY <2>2, <3>1, <3>3 DEF Packed
    <3>4. CASE i = Len(t[p]) + 1 \/ i = Len(t[p]) + len + 2
      BY <1>1, <1>3, <1>4, <3>1, <3>4 DEF Packed
    <3>5. CASE i - (Len(t[p]) + 1) \in 1 .. len
      <4>1. PICK j \in 1 .. len : j = i - (Len(t[p]) + 1)
        BY <3>5
      <4>2. i = Len(t[p]) + 1 + j
        <5>1. PICK x \in Nat : x = Len(t[p]) + 1
          BY <2>1
        <5>2. PICK y \in Int : y = i
          OBVIOUS
        <5>3. j = y - x /\ j \in Int
          BY <4>1, <5>1, <5>2
        <5>4. y = x + j
          BY <5>3
        <5> QED
          BY <5>1, <5>2, <5>4
      <4>3. New(p, i, j)
        BY <1>1, <2>3, <3>1, <4>2 DEF Packed
      <4> QED
        BY <4>3
    <3>6. i \in 1 .. Len(t[p]) \/ i = Len(t[p]) + 1 \/ i = Len(t[p]) + len + 2
          \/ i - (Len(t[p]) + 1) \in 1 .. len
      BY <2>1, <3>2, SMTT(30)
    <3> QED
      BY <3>3, <3>4, <3>5, <3>6
  <2>4. CASE ~(p = 5 /\ c = a /\ k.len \in 1 .. MaxBurst)
    <3>1. Same(t[p], u[p])
      <4>1. CASE p = 5
        BY <2>4, <4>1
      <4>2. CASE p # 5
        <5>1. p \in 1 .. 4
          BY <4>2
        <5> QED
          BY <5>1
      <4> QED
        BY <4>1, <4>2
    <3> QED
      BY <2>2, <3>1 DEF Same
  <2> QED
    BY <2>3, <2>4
<1>5. ASSUME NEW p \in 1 .. 5, NEW i \in 1 .. Len(t[p])
      PROVE  i \in 1 .. Len(u[p]) /\ u[p][i] = t[p][i]
  <2>1. Len(t[p]) \in Nat
    BY DEF IsTrail
  <2>2. CASE p = 5 /\ c = a /\ k.len \in 1 .. MaxBurst
    <3>1. Packed(t[p], u[p], c, n, k)
      BY <2>2
    <3> QED
      BY <1>1, <2>1, <3>1, SMTT(30) DEF Packed
  <2>3. CASE ~(p = 5 /\ c = a /\ k.len \in 1 .. MaxBurst)
    <3>1. Same(t[p], u[p])
      <4>1. CASE p = 5
        BY <2>3, <4>1
      <4>2. CASE p # 5
        <5>1. p \in 1 .. 4
          BY <4>2
        <5> QED
          BY <5>1
      <4> QED
        BY <4>1, <4>2
    <3> QED
      BY <3>1 DEF Same
  <2> QED
    BY <2>2, <2>3
<1>6. last # NoWord /\ c = a => last[2] \in Nat /\ last[2] < n
  BY <1>2
<1>7. ASSUME NEW p \in 1 .. 5, NEW i \in 1 .. Len(u[p]), FromTo(new, u[p][i], c, d)
      PROVE  Behind(u[p][i], last)
  <2>1. CASE Old(p, i)
    BY <2>1 DEF InOrder
  <2>2. CASE \E j : New(p, i, j)
    <3>1. PICK j : New(p, i, j)
      BY <2>2
    <3>2. u[p][i][2] = n /\ c = a
      BY <3>1
    <3> QED
      BY <1>6, <3>2 DEF Behind, Ahead
  <2> QED
    BY <1>4, <1>7, <2>1, <2>2
<1>8. ASSUME NEW p \in 1 .. 5, NEW i \in 1 .. Len(u[p]), FromTo(new, u[p][i], c, d),
             NEW q \in p .. 5, NEW j \in 1 .. Len(u[q]), p < q \/ i < j,
             FromTo(new, u[q][j], c, d)
      PROVE  Ahead(u[p][i], u[q][j])
  <2>0. q \in 1 .. 5
    OBVIOUS
  <2>1. Old(p, i) \/ \E x : New(p, i, x)
    BY <1>4, <1>8
  <2>2. Old(q, j) \/ \E x : New(q, j, x)
    BY <1>4, <1>8, <2>0
  <2>3. CASE Old(p, i) /\ Old(q, j)
    <3>1. Earlier(p, i, q, j)
      BY <1>8 DEF Earlier
    <3>2. Ahead(t[p][i], t[q][j])
      BY <2>0, <2>3, <3>1, Order
    <3> QED
      BY <2>3, <3>2
  <2>4. CASE Old(p, i) /\ \E x : New(q, j, x)
    <3>1. u[q][j][2] = n /\ c = a
      BY <2>4
    <3>2. u[p][i] \in WordsOf(made) /\ u[p][i][1] = a
      BY <2>4, <3>1 DEF FromTo
    <3>3. u[p][i][2] < n
      BY <1>2, <3>2
    <3> QED
      BY <3>1, <3>3 DEF Ahead
  <2>5. CASE (\E x : New(p, i, x)) /\ \E x : New(q, j, x)
    <3>1. PICK x \in 1 .. len : New(p, i, x)
      BY <2>5
    <3>2. PICK y \in 1 .. len : New(q, j, y)
      BY <2>5
    <3>3. Len(t[5]) \in Nat
      BY DEF IsTrail
    <3>4. x < y
      BY <1>8, <3>1, <3>2, <3>3
    <3>5. u[p][i][2] = n /\ u[p][i][3] = x /\ u[q][j][2] = n /\ u[q][j][3] = y
      BY <3>1, <3>2
    <3> QED
      BY <3>4, <3>5 DEF Ahead
  <2>6. CASE (\E x : New(p, i, x)) /\ Old(q, j)
    <3>1. PICK x \in 1 .. len : New(p, i, x)
      BY <2>6
    <3>2. q = 5 /\ Len(t[5]) \in Nat
      BY <3>1 DEF IsTrail
    <3>3. j <= Len(t[5]) /\ i > Len(t[5]) /\ i < j
      BY <1>8, <2>6, <3>1, <3>2
    <3> QED
      BY <3>2, <3>3
  <2> QED
    BY <2>1, <2>2, <2>3, <2>4, <2>5, <2>6
<1>9. ASSUME NEW word \in Due(new, c, d, last)
      PROVE  \E p \in 1 .. 5 : \E i \in 1 .. Len(u[p]) : u[p][i] = word
  <2>1. word \in WordsOf(new) /\ FromTo(new, word, c, d) /\ Behind(word, last)
    BY DEF Due
  <2>2. CASE word \in WordsOf(made)
    <3>1. word \in Due(made, c, d, last)
      BY <1>2, <2>1, <2>2 DEF Due
    <3>2. PICK p \in 1 .. 5 : \E i \in 1 .. Len(t[p]) : t[p][i] = word
      BY <3>1 DEF InOrder
    <3>3. PICK i \in 1 .. Len(t[p]) : t[p][i] = word
      BY <3>2
    <3> QED
      BY <1>5, <3>3
  <2>3. CASE word \notin WordsOf(made)
    <3>1. PICK j \in 1 .. k.len : word = <<a, n, j>> /\ k.len \in 1 .. MaxBurst
      BY <1>2, <2>1, <2>3
    <3>2. c = a
      BY <1>2, <2>1, <3>1
    <3>3. Packed(t[5], u[5], c, n, k) /\ Len(t[5]) \in Nat
      BY <3>1, <3>2 DEF IsTrail
    <3>4. u[5][Len(t[5]) + 1 + j] = word /\ Len(u[5]) = Len(t[5]) + len + 2
      BY <1>1, <3>1, <3>2, <3>3 DEF Packed
    <3>5. j \in 1 .. len
      BY <1>1, <3>1
    <3>6. Len(t[5]) + 1 + j \in 1 .. Len(u[5])
      BY <3>3, <3>4, <3>5
    <3> QED
      BY <3>4, <3>6
  <2> QED
    BY <2>2, <2>3
<1> HIDE DEF Old, New
<1> QED
  BY <1>7, <1>8, <1>9 DEF InOrder

\* w is the first of the words that are still to be written.
IsFirst(made, c, d, last, w) ==
  /\ w \in Due(made, c, d, last)
  /\ Due(made, c, d, w) = Due(made, c, d, last) \ {w}
  /\ \A word \in Due(made, c, d, w) : Ahead(w, word)

RestSame(t, u) == \A p \in 2 .. 5 : Same(t[p], u[p])

\* The first word of the trail is written.
LEMMA TrailLanded ==
  ASSUME NEW made \in Histories, NEW c, NEW d, NEW last \in {NoWord} \cup WordsOf(made),
         NEW t, IsTrail(made, t), InOrder(made, t, c, d, last), NEW u,
         NEW w, w = t[1][1], Lost(t[1], u[1]), FromTo(made, w, c, d), RestSame(t, u)
  PROVE  InOrder(made, u, c, d, w) /\ IsFirst(made, c, d, last, w)
<1>1. w = t[1][1]
  OBVIOUS
<1>2. 1 \in 1 .. 5 /\ 1 \in 1 .. Len(t[1]) /\ Len(t[1]) \in Nat
  BY DEF Lost, IsTrail
<1>3. w \in WordsOf(made) /\ w # NoWord /\ FromTo(made, w, c, d) /\ Behind(w, last)
  <2>1. w \in {NoWord} \cup WordsOf(made) /\ w # NoWord
    BY <1>1, <1>2 DEF IsTrail, FromTo
  <2>2. Behind(w, last)
    BY <1>1, <1>2 DEF InOrder
  <2> QED
    BY <1>1, <2>1, <2>2
<1>4. ASSUME NEW word \in WordsOf(made)
      PROVE  word[2] \in Nat /\ word[3] \in Nat
  BY InWordsOf
<1>5. ~Ahead(w, w)
  BY <1>3, <1>4 DEF Ahead
<1>6. ASSUME NEW p \in 1 .. 5, NEW i \in 1 .. Len(t[p]), p # 1 \/ i # 1,
             FromTo(made, t[p][i], c, d)
      PROVE  Ahead(w, t[p][i])
  <2>1. Earlier(1, 1, p, i)
    BY <1>6 DEF Earlier
  <2> QED
    BY <1>1, <1>2, <1>3, <1>6, <2>1, Order
<1>7. ASSUME NEW word \in Due(made, c, d, last), word # w
      PROVE  /\ Ahead(w, word)
             /\ \E p \in 1 .. 5 : \E i \in 1 .. Len(u[p]) : u[p][i] = word
  <2>1. PICK p \in 1 .. 5 : \E i \in 1 .. Len(t[p]) : t[p][i] = word
    BY DEF InOrder
  <2>2. PICK i \in 1 .. Len(t[p]) : t[p][i] = word
    BY <2>1
  <2>3. FromTo(made, t[p][i], c, d) /\ (p # 1 \/ i # 1)
    BY <1>1, <1>7, <2>2 DEF Due
  <2>4. Ahead(w, word)
    BY <1>6, <2>2, <2>3
  <2>5. CASE p = 1
    <3>1. i - 1 \in 1 .. Len(u[1]) /\ (i - 1) + 1 = i
      BY <1>2, <2>3, <2>5 DEF Lost
    <3>2. u[1][i - 1] = t[1][(i - 1) + 1]
      BY <3>1 DEF Lost
    <3> QED
      BY <2>2, <2>4, <2>5, <3>1, <3>2
  <2>6. CASE p # 1
    <3>1. p \in 2 .. 5
      BY <2>6
    <3>2. i \in 1 .. Len(u[p]) /\ u[p][i] = t[p][i]
      BY <3>1 DEF Same, RestSame
    <3> QED
      BY <2>2, <2>4, <3>2
  <2> QED
    BY <2>5, <2>6
<1>8. ASSUME NEW word \in WordsOf(made), Ahead(w, word)
      PROVE  Behind(word, last)
  <2>1. CASE last = NoWord
    BY <2>1 DEF Behind
  <2>2. CASE last # NoWord
    <3>1. Ahead(last, w) /\ last \in WordsOf(made)
      BY <1>3, <2>2 DEF Behind
    <3>2. /\ last[2] \in Nat /\ last[3] \in Nat /\ w[2] \in Nat /\ w[3] \in Nat
          /\ word[2] \in Nat /\ word[3] \in Nat
      BY <1>3, <1>4, <3>1
    <3>3. Ahead(last, word)
      BY <1>8, <3>1, <3>2 DEF Ahead
    <3> QED
      BY <3>3 DEF Behind
  <2> QED
    BY <2>1, <2>2
<1>9. ASSUME NEW word
      PROVE  Behind(word, w) <=> Ahead(w, word)
  BY <1>3 DEF Behind
<1>10. Due(made, c, d, w) = Due(made, c, d, last) \ {w}
  <2>1. ASSUME NEW word \in Due(made, c, d, w)
        PROVE  word \in Due(made, c, d, last) /\ word # w
    <3>1. word \in WordsOf(made) /\ FromTo(made, word, c, d) /\ Ahead(w, word)
      BY <1>9 DEF Due
    <3> QED
      BY <1>5, <1>8, <3>1 DEF Due
  <2>2. ASSUME NEW word \in Due(made, c, d, last), word # w
        PROVE  word \in Due(made, c, d, w)
    BY <1>7, <1>9, <2>2 DEF Due
  <2> QED
    BY <2>1, <2>2
<1>11. ASSUME NEW p \in 1 .. 5, NEW i \in 1 .. Len(u[p])
       PROVE  \E j \in 1 .. Len(t[p]) : /\ u[p][i] = t[p][j] /\ (p # 1 \/ j # 1)
                                        /\ j = IF p = 1 THEN i + 1 ELSE i
  <2>1. CASE p = 1
    <3>1. i + 1 \in 1 .. Len(t[1]) /\ u[1][i] = t[1][i + 1] /\ i + 1 # 1
      BY <1>2, <2>1 DEF Lost
    <3> QED
      BY <2>1, <3>1
  <2>2. CASE p # 1
    <3>1. p \in 2 .. 5
      BY <2>2
    <3>2. i \in 1 .. Len(t[p]) /\ u[p][i] = t[p][i]
      BY <3>1 DEF Same, RestSame
    <3> QED
      BY <2>2, <3>2
  <2> QED
    BY <2>1, <2>2
<1>12. ASSUME NEW p \in 1 .. 5, NEW i \in 1 .. Len(u[p]), FromTo(made, u[p][i], c, d)
       PROVE  Behind(u[p][i], w)
  <2>1. PICK x \in 1 .. Len(t[p]) : /\ u[p][i] = t[p][x] /\ (p # 1 \/ x # 1)
                                    /\ x = IF p = 1 THEN i + 1 ELSE i
    BY <1>11, Zenon
  <2>2. FromTo(made, t[p][x], c, d)
    BY <1>12, <2>1
  <2>3. Ahead(w, t[p][x])
    BY <1>6, <2>1, <2>2
  <2> QED
    BY <1>9, <2>1, <2>3
<1>13. ASSUME NEW p \in 1 .. 5, NEW i \in 1 .. Len(u[p]), FromTo(made, u[p][i], c, d),
              NEW q \in p .. 5, NEW j \in 1 .. Len(u[q]), p < q \/ i < j,
              FromTo(made, u[q][j], c, d)
       PROVE  Ahead(u[p][i], u[q][j])
  <2>1. q \in 1 .. 5 /\ i \in Nat /\ j \in Nat
    OBVIOUS
  <2>2. PICK x \in 1 .. Len(t[p]) : u[p][i] = t[p][x] /\ x = IF p = 1 THEN i + 1 ELSE i
    BY <1>11
  <2>3. PICK y \in 1 .. Len(t[q]) : u[q][j] = t[q][y] /\ y = IF q = 1 THEN j + 1 ELSE j
    BY <1>11, <2>1
  <2>4. Earlier(p, x, q, y)
    BY <1>13, <2>1, <2>2, <2>3 DEF Earlier
  <2>5. FromTo(made, t[p][x], c, d) /\ FromTo(made, t[q][y], c, d)
    BY <1>13, <2>2, <2>3
  <2>6. Ahead(t[p][x], t[q][y])
    BY <2>1, <2>4, <2>5, Order
  <2> QED
    BY <2>2, <2>3, <2>6
<1>14. ASSUME NEW word \in Due(made, c, d, w)
       PROVE  \E p \in 1 .. 5 : \E i \in 1 .. Len(u[p]) : u[p][i] = word
  BY <1>7, <1>10
<1>15. InOrder(made, u, c, d, w)
  BY <1>12, <1>13, <1>14 DEF InOrder
<1>16. w \in Due(made, c, d, last)
  BY <1>3 DEF Due
<1>17. \A word \in Due(made, c, d, w) : Ahead(w, word)
  BY <1>9 DEF Due
<1> QED
  BY <1>1, <1>10, <1>15, <1>16, <1>17 DEF IsFirst

-----------------------------------------------------------------------------
\* The trail of each pair of cores.

LEMMA CarriedType ==
  ASSUME NEW made, NEW s, IsStream(made, s), NEW n \in 0 .. Len(s)
  PROVE  /\ Len(Carried(s, n)) \in Nat
         /\ \A i \in 1 .. Len(Carried(s, n)) : Carried(s, n)[i] \in {NoWord} \cup WordsOf(made)
<1>1. Len(s) \in Nat /\ \A k \in 1 .. Len(s) : FlitOK(made, s[k])
  BY DEF IsStream
<1>2. /\ Len(Carried(s, n)) = Len(s) - n
      /\ \A i \in 1 .. Len(s) - n : Carried(s, n)[i] = WordIn(s[n + i])
  BY <1>1, CarriedFacts
<1>3. ASSUME NEW i \in 1 .. Len(s) - n
      PROVE  WordIn(s[n + i]) \in {NoWord} \cup WordsOf(made)
  <2>1. n + i \in 1 .. Len(s)
    BY <1>1
  <2>2. FlitOK(made, s[n + i])
    BY <1>1, <2>1
  <2> QED
    BY <2>2 DEF WordIn, FlitOK
<1>4. Len(s) - n \in Nat
  BY <1>1
<1> QED
  BY <1>2, <1>3, <1>4

LEMMA AskedFacts ==
  ASSUME NEW q, Len(q) \in Nat
  PROVE  Len(Asked(q)) = Len(q) /\ \A i \in 1 .. Len(q) : Asked(q)[i] = q[i].word
<1>1. PICK n \in Nat : n = Len(q)
  OBVIOUS
<1> DEFINE T == {q[i].word : i \in 1 .. n}
           x == [i \in 1 .. n |-> q[i].word]
<1>2. Asked(q) = x
  BY <1>1 DEF Asked
<1>3. x \in [1 .. n -> T] /\ \A i \in 1 .. n : x[i] = q[i].word
  OBVIOUS
<1> HIDE DEF T, x
<1>4. x \in Seq(T)
  BY <1>3, SeqDef
<1>5. Len(x) = n
  BY <1>3, <1>4, LenProperties
<1> QED
  BY <1>1, <1>2, <1>3, <1>5

LEMMA SentFacts ==
  ASSUME Inner, NEW c \in Cores
  PROVE  Len(bspQueue[c]) \in Nat /\ Sent(c) \in 0 .. Len(bspQueue[c])
  BY CoreTypes DEF Sent

LEMMA TrailType ==
  ASSUME Inner, NEW c \in Cores, NEW d \in Cores
  PROVE  IsTrail(calls, Trail(c, d))
<1>1. PICK t : t = Trail(c, d)
  OBVIOUS
<1>2. /\ t[1] = Asked(outgoing[d]) /\ t[2] = Carried(incoming[d], 0)
      /\ t[3] = Carried(net[<<c, d>>], 0) /\ t[4] = Carried(outgoingFlits[c], 0)
      /\ t[5] = Carried(bspQueue[c], Sent(c))
  BY <1>1 DEF Trail
<1> DEFINE Good(x) == Len(x) \in Nat /\ \A i \in 1 .. Len(x) : x[i] \in {NoWord} \cup WordsOf(calls)
<1>3. ASSUME NEW s, IsStream(calls, s), NEW n \in 0 .. Len(s) PROVE Good(Carried(s, n))
  BY <1>3, CarriedType
<1>4. ASSUME NEW s, IsStream(calls, s) PROVE Good(Carried(s, 0))
  <2>1. 0 \in 0 .. Len(s)
    BY <1>4 DEF IsStream
  <2> QED
    BY <1>3, <1>4, <2>1
<1>5. Good(Asked(outgoing[d]))
  <2> DEFINE Requests == [addr : 0 .. AddrSpace - 1, word : WordsOf(calls)]
  <2>1. outgoing[d] \in Seq(Requests)
    BY CoreTypes
  <2>2. \A r \in Requests : r.word \in WordsOf(calls)
    OBVIOUS
  <2> HIDE DEF Requests
  <2>3. Len(outgoing[d]) \in Nat /\ \A i \in 1 .. Len(outgoing[d]) : outgoing[d][i] \in Requests
    BY <2>1, ElementOfSeq
  <2>4. /\ Len(Asked(outgoing[d])) = Len(outgoing[d])
        /\ \A i \in 1 .. Len(outgoing[d]) : Asked(outgoing[d])[i] = outgoing[d][i].word
    BY <2>3, AskedFacts
  <2> QED
    BY <2>2, <2>3, <2>4
<1>6. /\ Good(Carried(incoming[d], 0)) /\ Good(Carried(net[<<c, d>>], 0))
      /\ Good(Carried(outgoingFlits[c], 0))
  BY <1>4, CoreTypes
<1>7. Good(Carried(bspQueue[c], Sent(c)))
  BY <1>3, CoreTypes, SentFacts
<1> HIDE DEF Good
<1>8. ASSUME NEW p \in 1 .. 5 PROVE Good(t[p])
  BY <1>2, <1>5, <1>6, <1>7
<1> QED
  BY <1>1, <1>8 DEF IsTrail, Good

LEMMA SameSelf == \A a : Same(a, a)
  BY DEF Same

\* What the invariant says of the words from c to d.
PairOK(c, d) ==
  /\ landed[<<c, d>>] # NoWord => /\ landed[<<c, d>>] \in WordsOf(calls)
                                  /\ FromTo(calls, landed[<<c, d>>], c, d)
  /\ landed[<<c, d>>] = latest[d] \/ Open(calls, landed[<<c, d>>]) = NoWord
  /\ InOrder(calls, Trail(c, d), c, d, landed[<<c, d>>])

InLine == RightWay /\ DOMAIN landed = Cores \X Cores /\ LandedInOrder

LEMMA PairsOK == LandedInOrder <=> \A c, d \in Cores : PairOK(c, d)
  BY DEF LandedInOrder, PairOK

\* A step before a word is written keeps what is on each trail in order.
LEMMA InLineNext ==
  ASSUME InLine, UNCHANGED <<calls, landed, latest>>, RightWay',
         \A c \in Cores : \A d \in Cores :
           InOrder(calls, Trail(c, d)', c, d, landed[<<c, d>>])
  PROVE  InLine'
<1>1. ASSUME NEW c \in Cores, NEW d \in Cores
      PROVE  PairOK(c, d)'
  BY PairsOK DEF InLine, PairOK
<1>2. LandedInOrder'
  BY <1>1 DEF LandedInOrder, PairOK
<1> QED
  BY <1>2 DEF InLine

LEMMA RightWayKept ==
  ASSUME RightWay, UNCHANGED <<calls, bspQueue, outgoingFlits, route, net>>,
         \A c \in Cores : Upcoming(c)' = Upcoming(c)
  PROVE  RightWay'
  BY DEF RightWay

LEMMA TrailNow ==
  ASSUME InLine, Inner, NEW c \in Cores, NEW d \in Cores
  PROVE  \E t : /\ t = Trail(c, d)
                /\ t[1] = Asked(outgoing[d]) /\ t[2] = Carried(incoming[d], 0)
                /\ t[3] = Carried(net[<<c, d>>], 0) /\ t[4] = Carried(outgoingFlits[c], 0)
                /\ t[5] = Carried(bspQueue[c], Sent(c))
                /\ IsTrail(calls, t) /\ InOrder(calls, t, c, d, landed[<<c, d>>])
                /\ \A p \in 1 .. 5 : Len(t[p]) \in Nat
<1>1. PICK t : t = Trail(c, d)
  OBVIOUS
<1>2. /\ t[1] = Asked(outgoing[d]) /\ t[2] = Carried(incoming[d], 0)
      /\ t[3] = Carried(net[<<c, d>>], 0) /\ t[4] = Carried(outgoingFlits[c], 0)
      /\ t[5] = Carried(bspQueue[c], Sent(c))
  BY <1>1 DEF Trail
<1>3. IsTrail(calls, t) /\ \A p \in 1 .. 5 : Len(t[p]) \in Nat
  BY <1>1, TrailType DEF IsTrail
<1>4. InOrder(calls, t, c, d, landed[<<c, d>>])
  BY <1>1 DEF InLine, LandedInOrder
<1> QED
  BY <1>1, <1>2, <1>3, <1>4

LEMMA TrailNext ==
  \A c, d : \E u : /\ u = Trail(c, d)'
                   /\ u[1] = Asked(outgoing'[d]) /\ u[2] = Carried(incoming'[d], 0)
                   /\ u[3] = Carried(net'[<<c, d>>], 0) /\ u[4] = Carried(outgoingFlits'[c], 0)
                   /\ u[5] = Carried(bspQueue'[c], Sent(c)')
<1> SUFFICES ASSUME NEW c, NEW d
             PROVE  \E u : /\ u = Trail(c, d)'
                   /\ u[1] = Asked(outgoing'[d]) /\ u[2] = Carried(incoming'[d], 0)
                   /\ u[3] = Carried(net'[<<c, d>>], 0) /\ u[4] = Carried(outgoingFlits'[c], 0)
                   /\ u[5] = Carried(bspQueue'[c], Sent(c)')
  OBVIOUS
<1>1. PICK u : u = Trail(c, d)'
  OBVIOUS
<1> QED
  BY <1>1 DEF Trail

LEMMA AllTail ==
  ASSUME NEW S, NEW s \in Seq(S), s # <<>>, NEW made, NEW c, NEW d
  PROVE  /\ AllFrom(s, c) => /\ AllFrom(Tail(s), c)
                             /\ Head(s).flitType = "BODY" => Head(s).data[1] = c
         /\ AllFromTo(made, s, c, d) =>
              /\ AllFromTo(made, Tail(s), c, d)
              /\ Head(s).flitType = "BODY" => FromTo(made, Head(s).data, c, d)
<1>1. /\ Len(s) \in Nat /\ Len(s) >= 1 /\ Len(Tail(s)) = Len(s) - 1
      /\ Head(s) = s[1] /\ \A i \in 1 .. Len(s) - 1 : Tail(s)[i] = s[i + 1]
  BY HeadTailProperties
<1>2. 1 \in 1 .. Len(s) /\ \A i \in 1 .. Len(s) - 1 : i + 1 \in 1 .. Len(s)
  BY <1>1
<1>3. AllFrom(s, c) => /\ AllFrom(Tail(s), c)
                       /\ Head(s).flitType = "BODY" => Head(s).data[1] = c
  BY <1>1, <1>2 DEF AllFrom
<1>4. AllFromTo(made, s, c, d) =>
        /\ AllFromTo(made, Tail(s), c, d)
        /\ Head(s).flitType = "BODY" => FromTo(made, Head(s).data, c, d)
  BY <1>1, <1>2 DEF AllFromTo
<1> QED
  BY <1>3, <1>4

LEMMA AppendFacts ==
  ASSUME NEW S, NEW s \in Seq(S), NEW flit
  PROVE  /\ Len(s) \in Nat /\ Len(Append(s, flit)) = Len(s) + 1
         /\ Append(s, flit)[Len(s) + 1] = flit
         /\ \A i \in 1 .. Len(s) : Append(s, flit)[i] = s[i]
<1> DEFINE T == S \cup {flit}
<1>1. s \in Seq(T) /\ flit \in T
  OBVIOUS
<1> HIDE DEF T
<1> QED
  BY <1>1, AppendProperties

LEMMA AllFromAppend ==
  ASSUME NEW S, NEW s \in Seq(S), NEW flit, NEW c,
         AllFrom(s, c), flit.flitType = "BODY" => flit.data[1] = c
  PROVE  AllFrom(Append(s, flit), c)
<1>1. /\ Len(s) \in Nat /\ Len(Append(s, flit)) = Len(s) + 1
      /\ Append(s, flit)[Len(s) + 1] = flit /\ \A i \in 1 .. Len(s) : Append(s, flit)[i] = s[i]
  BY AppendFacts
<1>2. \A i \in 1 .. Len(s) + 1 : i \in 1 .. Len(s) \/ i = Len(s) + 1
  BY <1>1
<1> QED
  BY <1>1, <1>2 DEF AllFrom

LEMMA AllFromToAppend ==
  ASSUME NEW S, NEW s \in Seq(S), NEW flit, NEW made, NEW c, NEW d,
         AllFromTo(made, s, c, d), flit.flitType = "BODY" => FromTo(made, flit.data, c, d)
  PROVE  AllFromTo(made, Append(s, flit), c, d)
<1>1. /\ Len(s) \in Nat /\ Len(Append(s, flit)) = Len(s) + 1
      /\ Append(s, flit)[Len(s) + 1] = flit /\ \A i \in 1 .. Len(s) : Append(s, flit)[i] = s[i]
  BY AppendFacts
<1>2. \A i \in 1 .. Len(s) + 1 : i \in 1 .. Len(s) \/ i = Len(s) + 1
  BY <1>1
<1> QED
  BY <1>1, <1>2 DEF AllFromTo

LEMMA AskedTail ==
  ASSUME NEW S, NEW q \in Seq(S), q # <<>>
  PROVE  Lost(Asked(q), Asked(Tail(q))) /\ Asked(q)[1] = Head(q).word
<1>1. /\ Len(q) \in Nat /\ Len(q) >= 1 /\ Len(Tail(q)) = Len(q) - 1 /\ Len(Tail(q)) \in Nat
      /\ Head(q) = q[1] /\ \A i \in 1 .. Len(q) - 1 : Tail(q)[i] = q[i + 1]
  BY HeadTailProperties
<1>2. Len(Asked(q)) = Len(q) /\ \A i \in 1 .. Len(q) : Asked(q)[i] = q[i].word
  BY <1>1, AskedFacts
<1>3. /\ Len(Asked(Tail(q))) = Len(Tail(q))
      /\ \A i \in 1 .. Len(Tail(q)) : Asked(Tail(q))[i] = Tail(q)[i].word
  BY <1>1, AskedFacts
<1>4. 1 \in 1 .. Len(q) /\ \A i \in 1 .. Len(q) - 1 : i + 1 \in 1 .. Len(q)
  BY <1>1
<1> QED
  BY <1>1, <1>2, <1>3, <1>4 DEF Lost

LEMMA AskedAppend ==
  ASSUME NEW S, NEW q \in Seq(S), NEW req
  PROVE  Gained(Asked(q), Asked(Append(q, req)), req.word)
<1> DEFINE T == S \cup {req}
<1>1. q \in Seq(T) /\ req \in T
  OBVIOUS
<1> HIDE DEF T
<1>2. /\ Len(q) \in Nat /\ Len(Append(q, req)) = Len(q) + 1 /\ Len(Append(q, req)) \in Nat
      /\ Append(q, req)[Len(q) + 1] = req /\ \A i \in 1 .. Len(q) : Append(q, req)[i] = q[i]
  BY <1>1, AppendProperties
<1>3. Len(Asked(q)) = Len(q) /\ \A i \in 1 .. Len(q) : Asked(q)[i] = q[i].word
  BY <1>2, AskedFacts
<1>4. /\ Len(Asked(Append(q, req))) = Len(Append(q, req))
      /\ \A i \in 1 .. Len(Append(q, req)) : Asked(Append(q, req))[i] = Append(q, req)[i].word
  BY <1>2, AskedFacts
<1> QED
  BY <1>2, <1>3, <1>4 DEF Gained

LEMMA BeginSendInLine ==
  ASSUME Inner, InLine, NEW a \in Cores, BeginSend(a)
  PROVE  InLine'
<1>1. UNCHANGED <<bspQueue, calls, outgoingFlits, route, net, incoming, outgoing, landed, latest>>
  BY DEF BeginSend, netVars, feVars, memVars
<1>2. \A b \in Cores : Sent(b)' = Sent(b)
  <2>1. sending \in [Cores -> BOOLEAN] /\ DOMAIN bspRdPtr = Cores
    BY DEF Inner, TypeOK, StreamsOK
  <2>2. ~sending[a] /\ sending' = [sending EXCEPT ![a] = TRUE]
        /\ bspRdPtr' = [bspRdPtr EXCEPT ![a] = 0]
    BY DEF BeginSend
  <2>3. Sent(a)' = 0 /\ Sent(a) = 0
    BY <2>1, <2>2 DEF Sent
  <2>4. \A b \in Cores : b # a => sending'[b] = sending[b] /\ bspRdPtr'[b] = bspRdPtr[b]
    BY <2>1, <2>2
  <2> QED
    BY <2>3, <2>4 DEF Sent
<1>3. RightWay'
  BY <1>1, BeginSendStep, RightWayKept DEF InLine
<1>4. \A c, d \in Cores : Trail(c, d)' = Trail(c, d)
  BY <1>1, <1>2 DEF Trail
<1>5. \A c \in Cores : \A d \in Cores : InOrder(calls, Trail(c, d)', c, d, landed[<<c, d>>])
  BY <1>4 DEF InLine, LandedInOrder
<1> QED
  BY <1>1, <1>3, <1>5, InLineNext

LEMMA EndSendInLine ==
  ASSUME Inner, InLine, NEW a \in Cores, EndSend(a)
  PROVE  InLine'
<1>1. /\ UNCHANGED <<bspRdPtr, calls, outgoingFlits, route, net, incoming, outgoing, landed, latest>>
      /\ sending[a] /\ bspRdPtr[a] = Len(bspQueue[a])
      /\ sending' = [sending EXCEPT ![a] = FALSE] /\ bspQueue' = [bspQueue EXCEPT ![a] = <<>>]
  BY DEF EndSend, netVars, feVars, memVars
<1>2. /\ sending \in [Cores -> BOOLEAN] /\ DOMAIN bspQueue = Cores
  BY DEF Inner, TypeOK, StreamsOK
<1>3. \A b \in Cores : b # a => Sent(b)' = Sent(b) /\ bspQueue'[b] = bspQueue[b]
  BY <1>1, <1>2 DEF Sent
<1>4. Carried(bspQueue[a], Sent(a)) = Carried(bspQueue'[a], Sent(a)')
  <2>1. /\ Sent(a) = Len(bspQueue[a]) /\ Len(bspQueue[a]) \in Nat
        /\ Sent(a)' = 0 /\ bspQueue'[a] = <<>> /\ Len(<<>>) = 0
    BY <1>1, <1>2, CoreTypes DEF Sent
  <2>2. 1 .. Len(bspQueue[a]) - Sent(a) = {} /\ 1 .. Len(bspQueue'[a]) - Sent(a)' = {}
    BY <2>1
  <2> QED
    BY <2>2 DEF Carried
<1>5. RightWay'
  <2>1. /\ \A c \in Cores : AllFrom(bspQueue'[c], c)
    <3>1. AllFrom(<<>>, a)
      BY DEF AllFrom
    <3> QED
      BY <1>1, <1>2, <3>1 DEF InLine, RightWay
  <2>2. \A c \in Cores : Upcoming(c)' = Upcoming(c)
    BY EndSendStep
  <2> QED
    BY <1>1, <2>1, <2>2 DEF InLine, RightWay
<1>6. \A c, d \in Cores : Trail(c, d)' = Trail(c, d)
  BY <1>1, <1>3, <1>4 DEF Trail
<1>7. \A c \in Cores : \A d \in Cores : InOrder(calls, Trail(c, d)', c, d, landed[<<c, d>>])
  BY <1>6 DEF InLine, LandedInOrder
<1> QED
  BY <1>1, <1>5, <1>7, InLineNext

LEMMA SendFlitInLine ==
  ASSUME Inner, InLine, NEW a \in Cores, SendFlit(a)
  PROVE  InLine'
<1>1. PICK flit, n : n = bspRdPtr[a] /\ flit = bspQueue[a][n + 1]
  OBVIOUS
<1>2. /\ UNCHANGED <<sending, bspQueue, calls, route, net, incoming, outgoing, landed, latest>>
      /\ sending[a] /\ n \in Nat /\ n < Len(bspQueue[a]) /\ Len(bspQueue[a]) \in Nat
      /\ Sent(a) = n /\ n + 1 \in 1 .. Len(bspQueue[a])
  BY <1>1, CoreTypes DEF SendFlit, netVars, feVars, memVars, Sent
<1>3. /\ outgoingFlits'[a] = Append(outgoingFlits[a], flit) /\ bspRdPtr'[a] = n + 1
      /\ \A b \in Cores : b # a => outgoingFlits'[b] = outgoingFlits[b] /\ bspRdPtr'[b] = bspRdPtr[b]
  BY <1>1 DEF SendFlit, Inner, StreamsOK
<1>4. PICK S : outgoingFlits[a] \in Seq(S)
  BY CoreTypes, StreamElements
<1>5. RightWay'
  <2>1. flit.flitType = "BODY" => flit.data[1] = a
    BY <1>1, <1>2 DEF InLine, RightWay, AllFrom
  <2>2. AllFrom(outgoingFlits[a], a)
    BY DEF InLine, RightWay
  <2>3. AllFrom(outgoingFlits'[a], a)
    BY <1>3, <1>4, <2>1, <2>2, AllFromAppend
  <2>4. \A c \in Cores : Upcoming(c)' = Upcoming(c)
    BY SendFlitStep
  <2>5. \A c \in Cores : AllFrom(outgoingFlits'[c], c)
    BY <1>3, <2>3 DEF InLine, RightWay
  <2> QED
    BY <1>2, <2>4, <2>5 DEF InLine, RightWay
<1>6. ASSUME NEW c \in Cores, NEW d \in Cores
      PROVE  InOrder(calls, Trail(c, d)', c, d, landed[<<c, d>>])
  <2>1. CASE c # a
    <3>1. Sent(c)' = Sent(c)
      BY <1>2, <1>3, <2>1 DEF Sent
    <3>2. Trail(c, d)' = Trail(c, d)
      BY <1>2, <1>3, <2>1, <3>1 DEF Trail
    <3> QED
      BY <3>2 DEF InLine, LandedInOrder
  <2>2. CASE c = a
    <3>1. PICK t : /\ t = Trail(a, d)
                   /\ t[1] = Asked(outgoing[d]) /\ t[2] = Carried(incoming[d], 0)
                   /\ t[3] = Carried(net[<<a, d>>], 0) /\ t[4] = Carried(outgoingFlits[a], 0)
                   /\ t[5] = Carried(bspQueue[a], Sent(a))
                   /\ IsTrail(calls, t) /\ InOrder(calls, t, a, d, landed[<<a, d>>])
                   /\ \A p \in 1 .. 5 : Len(t[p]) \in Nat
      BY TrailNow
    <3>2. PICK u : /\ u = Trail(a, d)'
                   /\ u[1] = Asked(outgoing'[d]) /\ u[2] = Carried(incoming'[d], 0)
                   /\ u[3] = Carried(net'[<<a, d>>], 0) /\ u[4] = Carried(outgoingFlits'[a], 0)
                   /\ u[5] = Carried(bspQueue'[a], Sent(a)')
      BY TrailNext
    <3>3. Sent(a)' = n + 1
      BY <1>2, <1>3 DEF Sent
    <3>4. Lost(t[5], u[5]) /\ t[5][1] = WordIn(flit)
      BY <1>1, <1>2, <3>1, <3>2, <3>3, CarriedNext
    <3>5. Gained(t[4], u[4], WordIn(flit))
      BY <1>3, <1>4, <3>1, <3>2, CarriedAppend
    <3>6. u[1] = t[1] /\ u[2] = t[2] /\ u[3] = t[3]
      BY <1>2, <3>1, <3>2
    <3>7. \A p \in 1 .. 5 : p # 5 /\ p # 5 - 1 => Same(t[p], u[p])
      BY <3>6, SameSelf
    <3>8. 5 \in 2 .. 5 /\ 5 - 1 = 4
      OBVIOUS
    <3>9. InOrder(calls, u, a, d, landed[<<a, d>>])
      BY <3>1, <3>4, <3>5, <3>7, <3>8, TrailMoved
    <3> QED
      BY <2>2, <3>2, <3>9
  <2> QED
    BY <2>1, <2>2
<1> QED
  BY <1>2, <1>5, <1>6, InLineNext

LEMMA corePutInLine ==
  ASSUME Inner, InLine, NEW a \in Cores, corePut(a)
  PROVE  InLine'
<1>1. PICK flit : flit = Head(outgoingFlits[a])
  OBVIOUS
<1>2. PICK e : e = IF flit.flitType = "HEAD" THEN CoreField(flit.data) ELSE route[a]
  OBVIOUS
<1>3. /\ outgoingFlits[a] # <<>>
      /\ net' = [net EXCEPT ![<<a, e>>] = Append(net[<<a, e>>], flit)]
      /\ route' = [route EXCEPT ![a] = IF flit.flitType = "TAIL" THEN None ELSE e]
      /\ outgoingFlits' = [outgoingFlits EXCEPT ![a] = Tail(outgoingFlits[a])]
      /\ UNCHANGED <<sending, bspQueue, bspRdPtr, calls, incoming, outgoing, landed, latest>>
  BY <1>1, <1>2 DEF corePut, sendVars, feVars, memVars
<1>4. /\ Inner' /\ Before(calls, flit) = Upcoming(a)
      /\ Upcoming(a)' = After(calls, flit)
      /\ \A b \in Cores : b # a => Upcoming(b)' = Upcoming(b)
  BY <1>1, corePutStep
<1>5. PICK S : outgoingFlits[a] \in Seq(S)
  BY CoreTypes, StreamElements
<1>6. FlitOK(calls, flit)
  BY <1>1, <1>3, CoreTypes, StreamShorter
<1>7. ASSUME flit.flitType = "BODY"
      PROVE  FromTo(calls, flit.data, a, e) /\ e \in Cores
  <2>1. /\ flit.data \in WordsOf(calls)
        /\ Before(calls, flit) = [left |-> Left(calls, flit.data) + 1,
                                  addr |-> AddressOf(calls, flit.data),
                                  to |-> CallOf(calls, flit.data).to,
                                  front |-> FrontOf(flit.data)]
    BY <1>6, <1>7, CoreTypes, Kinds
  <2>2. Left(calls, flit.data) \in 0 .. MaxBurst - 1 /\ flit.data \in Cores \X Nat \X Nat
    BY <2>1, CoreTypes, WordFacts, InWordsOf
  <2>3. flit.data[1] = a
    <3>1. AllFrom(outgoingFlits[a], a)
      BY DEF InLine, RightWay
    <3> QED
      BY <1>1, <1>3, <1>5, <1>7, <3>1, AllTail
  <2>4. Upcoming(a).left > 0 /\ Upcoming(a).to = CallOf(calls, flit.data).to
    <3>1. Before(calls, flit).left = Left(calls, flit.data) + 1
      BY <2>1
    <3>2. Left(calls, flit.data) + 1 > 0
      BY <2>2
    <3>3. Before(calls, flit).to = CallOf(calls, flit.data).to
      BY <2>1
    <3> QED
      BY <1>4, <3>1, <3>2, <3>3
  <2>5. route[a] # None /\ route[a] = e
    <3>1. Before(calls, flit) # NoMessage
      BY <1>6, <1>7, CoreTypes, Ends
    <3> QED
      BY <1>2, <1>4, <1>7, <3>1, CoreTypes
  <2>6. CallOf(calls, flit.data).to = e
    BY <2>4, <2>5 DEF InLine, RightWay
  <2>7. flit.data # NoWord
    BY <2>2, IsAWord
  <2>8. e \in Cores
    BY <2>1, <2>6, CoreTypes, WordFacts
  <2> QED
    BY <2>3, <2>6, <2>7, <2>8 DEF FromTo
<1>8. e \in Cores
  <2>1. CASE flit.flitType = "HEAD"
    BY <1>2, <1>6, <2>1, CoreTypes, Kinds
  <2>2. CASE flit.flitType # "HEAD"
    <3>1. route[a] # None /\ route[a] \in Cores \cup {None}
      BY <1>4, <1>6, <2>2, CoreTypes, Ends DEF Inner, TypeOK
    <3> QED
      BY <1>2, <2>2, <3>1
  <2> QED
    BY <2>1, <2>2
<1>9. /\ DOMAIN outgoingFlits = Cores /\ DOMAIN net = Cores \X Cores /\ DOMAIN route = Cores
  BY DEF Inner, TypeOK, StreamsOK
<1>10. /\ outgoingFlits'[a] = Tail(outgoingFlits[a])
       /\ route'[a] = IF flit.flitType = "TAIL" THEN None ELSE e
       /\ \A b \in Cores : b # a => outgoingFlits'[b] = outgoingFlits[b] /\ route'[b] = route[b]
  BY <1>3, <1>9
<1>11. /\ net'[<<a, e>>] = Append(net[<<a, e>>], flit)
       /\ \A b, d \in Cores : <<b, d>> # <<a, e>> => net'[<<b, d>>] = net[<<b, d>>]
  BY <1>3, <1>8, <1>9
<1>12. PICK R : net[<<a, e>>] \in Seq(R)
  BY <1>8, CoreTypes, StreamElements
<1>13. RightWay'
  <2>1. AllFrom(outgoingFlits'[a], a)
    <3>1. AllFrom(outgoingFlits[a], a)
      BY DEF InLine, RightWay
    <3> QED
      BY <1>3, <1>5, <1>10, <3>1, AllTail, ZenonT(30)
  <2>2. AllFromTo(calls, net'[<<a, e>>], a, e)
    <3>1. AllFromTo(calls, net[<<a, e>>], a, e)
      BY <1>8 DEF InLine, RightWay
    <3> QED
      BY <1>7, <1>11, <1>12, <3>1, AllFromToAppend
  <2>3. ASSUME route'[a] # None, Upcoming(a)'.left > 0
        PROVE  Upcoming(a)'.to = route'[a]
    <3>1. route'[a] = e /\ flit.flitType # "TAIL"
      BY <1>10, <2>3
    <3>2. CASE flit.flitType = "HEAD"
      <4>1. After(calls, flit) = [left |-> BurstField(flit.data) + 1,
                                  addr |-> AddrField(flit.data), to |-> CoreField(flit.data),
                                  front |-> NoWord]
        BY <1>6, <3>2, CoreTypes, Kinds
      <4>2. After(calls, flit).to = CoreField(flit.data)
        BY <4>1
      <4> QED
        BY <1>2, <1>4, <3>1, <3>2, <4>2
    <3>3. CASE flit.flitType = "BODY"
      <4>1. After(calls, flit) = Within(Left(calls, flit.data),
                                        (AddressOf(calls, flit.data) + 1) % AddrSpace,
                                        CallOf(calls, flit.data).to, flit.data)
        BY <1>6, <3>3, CoreTypes, Kinds
      <4>2. After(calls, flit).left > 0
        BY <1>4, <2>3
      <4>3. After(calls, flit) # OnlyTail
        BY <4>2 DEF OnlyTail
      <4>4. After(calls, flit).to = CallOf(calls, flit.data).to
        BY <4>1, <4>3 DEF Within
      <4>5. CallOf(calls, flit.data).to = e
        BY <1>7, <3>3 DEF FromTo
      <4> QED
        BY <1>4, <3>1, <4>4, <4>5
    <3> QED
      BY <1>6, <3>1, <3>2, <3>3, CoreTypes, Kinds
  <2>4. \A c \in Cores : /\ AllFrom(bspQueue'[c], c) /\ AllFrom(outgoingFlits'[c], c)
                         /\ route'[c] # None /\ Upcoming(c)'.left > 0 => Upcoming(c)'.to = route'[c]
    BY <1>3, <1>4, <1>10, <2>1, <2>3 DEF InLine, RightWay
  <2>5. \A c, d \in Cores : AllFromTo(calls', net'[<<c, d>>], c, d)
    BY <1>3, <1>11, <2>2 DEF InLine, RightWay
  <2> QED
    BY <2>4, <2>5 DEF RightWay
<1>14. ASSUME NEW c \in Cores, NEW d \in Cores
       PROVE  InOrder(calls, Trail(c, d)', c, d, landed[<<c, d>>])
  <2>1. Sent(c)' = Sent(c)
    BY <1>3 DEF Sent
  <2>2. CASE c # a
    <3>1. net'[<<c, d>>] = net[<<c, d>>]
      BY <1>11, <2>2
    <3>2. Trail(c, d)' = Trail(c, d)
      BY <1>3, <1>10, <2>1, <2>2, <3>1 DEF Trail
    <3> QED
      BY <3>2 DEF InLine, LandedInOrder
  <2>3. CASE c = a
    <3>1. PICK t : /\ t = Trail(a, d)
                   /\ t[1] = Asked(outgoing[d]) /\ t[2] = Carried(incoming[d], 0)
                   /\ t[3] = Carried(net[<<a, d>>], 0) /\ t[4] = Carried(outgoingFlits[a], 0)
                   /\ t[5] = Carried(bspQueue[a], Sent(a))
                   /\ IsTrail(calls, t) /\ InOrder(calls, t, a, d, landed[<<a, d>>])
                   /\ \A p \in 1 .. 5 : Len(t[p]) \in Nat
      BY TrailNow
    <3>2. PICK u : /\ u = Trail(a, d)'
                   /\ u[1] = Asked(outgoing'[d]) /\ u[2] = Carried(incoming'[d], 0)
                   /\ u[3] = Carried(net'[<<a, d>>], 0) /\ u[4] = Carried(outgoingFlits'[a], 0)
                   /\ u[5] = Carried(bspQueue'[a], Sent(a)')
      BY TrailNext
    <3>3. Lost(t[4], u[4]) /\ t[4][1] = WordIn(flit)
      BY <1>1, <1>3, <1>5, <1>10, <3>1, <3>2, CarriedTail
    <3>4. u[1] = t[1] /\ u[2] = t[2] /\ u[5] = t[5]
      BY <1>3, <2>1, <2>3, <3>1, <3>2
    <3>5. CASE d = e
      <4>1. Gained(t[3], u[3], WordIn(flit))
        <5>1. t[3] = Carried(net[<<a, e>>], 0) /\ u[3] = Carried(net'[<<a, e>>], 0)
          BY <3>1, <3>2, <3>5
        <5>2. Gained(Carried(net[<<a, e>>], 0), Carried(Append(net[<<a, e>>], flit), 0), WordIn(flit))
          BY <1>12, CarriedAppend
        <5> QED
          BY <1>11, <5>1, <5>2
      <4>2. \A p \in 1 .. 5 : p # 4 /\ p # 4 - 1 => Same(t[p], u[p])
        BY <3>4, SameSelf
      <4>3. 4 \in 2 .. 5 /\ 4 - 1 = 3
        OBVIOUS
      <4>4. InOrder(calls, u, a, d, landed[<<a, d>>])
        BY <3>1, <3>3, <4>1, <4>2, <4>3, TrailMoved
      <4> QED
        BY <2>3, <3>2, <4>4
    <3>6. CASE d # e
      <4>1. u[3] = t[3]
        BY <1>11, <3>1, <3>2, <3>6
      <4>2. \A p \in 1 .. 5 : p # 4 => Same(t[p], u[p])
        BY <3>4, <4>1, SameSelf
      <4>3. ~FromTo(calls, t[4][1], a, d)
        BY <1>7, <3>3, <3>6 DEF FromTo, WordIn
      <4>4. 4 \in 1 .. 5
        OBVIOUS
      <4>5. InOrder(calls, u, a, d, landed[<<a, d>>])
        BY <3>1, <3>3, <4>2, <4>3, <4>4, TrailDropped
      <4> QED
        BY <2>3, <3>2, <4>5
    <3> QED
      BY <3>5, <3>6
  <2> QED
    BY <2>2, <2>3
<1> QED
  BY <1>3, <1>13, <1>14, InLineNext

LEMMA UpcomingKept ==
  ASSUME UNCHANGED <<sendVars, outgoingFlits>>
  PROVE  \A c : Upcoming(c)' = Upcoming(c) /\ Sent(c)' = Sent(c)
  BY DEF sendVars, Upcoming, Queued, Sent

LEMMA NotAWord == \A made, c, d : ~FromTo(made, NoWord, c, d)
  BY DEF FromTo

LEMMA coreGetInLine ==
  ASSUME Inner, InLine, NEW a \in Cores, NEW e \in Cores, coreGet(a, e)
  PROVE  InLine'
<1>1. PICK flit : flit = Head(net[<<a, e>>])
  OBVIOUS
<1>2. /\ net[<<a, e>>] # <<>>
      /\ net' = [net EXCEPT ![<<a, e>>] = Tail(net[<<a, e>>])]
      /\ UNCHANGED <<sendVars, outgoingFlits, route, outgoing, engine, memVars>>
  BY <1>1 DEF coreGet
<1>3. PICK S : net[<<a, e>>] \in Seq(S)
  BY CoreTypes, StreamElements
<1>4. incoming' = [incoming EXCEPT ![e] = Append(incoming[e], flit)]
  <2>1. NamesCore(net[<<a, e>>], e)
    BY DEF Inner, HeadsArrive
  <2>2. flit.flitType = "HEAD" => CoreField(flit.data) = e
    BY <1>1, <1>2, <1>3, <2>1, NamesTail
  <2> QED
    BY <1>1, <2>2 DEF coreGet
<1>5. DOMAIN incoming = Cores /\ DOMAIN net = Cores \X Cores
  BY DEF Inner, StreamsOK
<1>6. /\ incoming'[e] = Append(incoming[e], flit)
      /\ \A d \in Cores : d # e => incoming'[d] = incoming[d]
      /\ net'[<<a, e>>] = Tail(net[<<a, e>>])
      /\ \A c, d \in Cores : <<c, d>> # <<a, e>> => net'[<<c, d>>] = net[<<c, d>>]
  BY <1>2, <1>4, <1>5
<1>7. /\ UNCHANGED <<sending, bspQueue, bspRdPtr, calls, outgoingFlits, route, outgoing, landed, latest>>
      /\ \A c : Upcoming(c)' = Upcoming(c) /\ Sent(c)' = Sent(c)
  BY <1>2, UpcomingKept DEF sendVars, memVars
<1>8. /\ AllFromTo(calls, Tail(net[<<a, e>>]), a, e)
      /\ flit.flitType = "BODY" => FromTo(calls, flit.data, a, e)
  <2>1. AllFromTo(calls, net[<<a, e>>], a, e)
    BY DEF InLine, RightWay
  <2> QED
    BY <1>1, <1>2, <1>3, <2>1, AllTail
<1>9. RightWay'
  <2>1. \A c, d \in Cores : AllFromTo(calls', net'[<<c, d>>], c, d)
    BY <1>6, <1>7, <1>8 DEF InLine, RightWay
  <2> QED
    BY <1>7, <2>1 DEF InLine, RightWay
<1>10. PICK R : incoming[e] \in Seq(R)
  BY CoreTypes, StreamElements
<1>11. Gained(Carried(incoming[e], 0), Carried(incoming'[e], 0), WordIn(flit))
  BY <1>6, <1>10, CarriedAppend
<1>12. /\ Lost(Carried(net[<<a, e>>], 0), Carried(net'[<<a, e>>], 0))
       /\ Carried(net[<<a, e>>], 0)[1] = WordIn(flit)
  BY <1>1, <1>2, <1>3, <1>6, CarriedTail
<1>13. ASSUME NEW c \in Cores, NEW d \in Cores
       PROVE  InOrder(calls, Trail(c, d)', c, d, landed[<<c, d>>])
  <2>1. CASE d # e
    <3>1. net'[<<c, d>>] = net[<<c, d>>] /\ incoming'[d] = incoming[d]
      BY <1>6, <2>1
    <3>2. Trail(c, d)' = Trail(c, d)
      BY <1>7, <3>1 DEF Trail
    <3> QED
      BY <3>2 DEF InLine, LandedInOrder
  <2>2. CASE d = e
    <3>1. PICK t : /\ t = Trail(c, e)
                   /\ t[1] = Asked(outgoing[e]) /\ t[2] = Carried(incoming[e], 0)
                   /\ t[3] = Carried(net[<<c, e>>], 0) /\ t[4] = Carried(outgoingFlits[c], 0)
                   /\ t[5] = Carried(bspQueue[c], Sent(c))
                   /\ IsTrail(calls, t) /\ InOrder(calls, t, c, e, landed[<<c, e>>])
                   /\ \A p \in 1 .. 5 : Len(t[p]) \in Nat
      BY TrailNow
    <3>2. PICK u : /\ u = Trail(c, e)'
                   /\ u[1] = Asked(outgoing'[e]) /\ u[2] = Carried(incoming'[e], 0)
                   /\ u[3] = Carried(net'[<<c, e>>], 0) /\ u[4] = Carried(outgoingFlits'[c], 0)
                   /\ u[5] = Carried(bspQueue'[c], Sent(c)')
      BY TrailNext
    <3>3. u[1] = t[1] /\ u[4] = t[4] /\ u[5] = t[5]
      BY <1>7, <3>1, <3>2
    <3>4. Gained(t[2], u[2], WordIn(flit))
      BY <1>11, <3>1, <3>2
    <3>5. CASE c = a
      <4>1. Lost(t[3], u[3]) /\ t[3][1] = WordIn(flit)
        BY <1>12, <3>1, <3>2, <3>5
      <4>2. \A p \in 1 .. 5 : p # 3 /\ p # 3 - 1 => Same(t[p], u[p])
        BY <3>3, SameSelf
      <4>3. 3 \in 2 .. 5 /\ 3 - 1 = 2
        OBVIOUS
      <4>4. InOrder(calls, u, c, e, landed[<<c, e>>])
        BY <3>1, <3>4, <4>1, <4>2, <4>3, TrailMoved
      <4> QED
        BY <2>2, <3>2, <4>4
    <3>6. CASE c # a
      <4>1. u[3] = t[3]
        BY <1>6, <3>1, <3>2, <3>6
      <4>2. \A p \in 1 .. 5 : p # 2 => Same(t[p], u[p])
        BY <3>3, <4>1, SameSelf
      <4>3. ~FromTo(calls, WordIn(flit), c, e)
        BY <1>8, <3>6 DEF FromTo, WordIn
      <4>4. 2 \in 1 .. 5
        OBVIOUS
      <4>5. InOrder(calls, u, c, e, landed[<<c, e>>])
        BY <3>1, <3>4, <4>2, <4>3, <4>4, TrailGained
      <4> QED
        BY <2>2, <3>2, <4>5
    <3> QED
      BY <3>5, <3>6
  <2> QED
    BY <2>1, <2>2
<1> QED
  BY <1>7, <1>9, <1>13, InLineNext

\* The engine asks for the word of a BODY to be written; no other flit has one.
LEMMA EngineInLine ==
  ASSUME Inner, InLine, NEW e \in Cores, NEW flit, EngineTook(e, flit),
         \A d \in Cores : d # e => outgoing'[d] = outgoing[d],
         \/ flit.flitType # "BODY" /\ outgoing'[e] = outgoing[e]
         \/ flit.flitType = "BODY" /\ Gained(Asked(outgoing[e]), Asked(outgoing'[e]), flit.data)
  PROVE  InLine'
<1>1. /\ flit = Head(incoming[e]) /\ incoming[e] # <<>>
      /\ incoming' = [incoming EXCEPT ![e] = Tail(incoming[e])] /\ DOMAIN incoming = Cores
      /\ UNCHANGED <<sendVars, outgoingFlits, net, route, landed, latest>>
  BY DEF EngineTook, netVars, memVars, Inner, StreamsOK
<1>2. /\ UNCHANGED <<sending, bspQueue, bspRdPtr, calls, outgoingFlits, net, route, landed, latest>>
      /\ \A c : Upcoming(c)' = Upcoming(c) /\ Sent(c)' = Sent(c)
  BY <1>1, UpcomingKept DEF sendVars
<1>3. /\ incoming'[e] = Tail(incoming[e])
      /\ \A d \in Cores : d # e => incoming'[d] = incoming[d]
  BY <1>1
<1>4. RightWay'
  BY <1>2, RightWayKept DEF InLine
<1>5. PICK S : incoming[e] \in Seq(S)
  BY CoreTypes, StreamElements
<1>6. /\ Lost(Carried(incoming[e], 0), Carried(incoming'[e], 0))
      /\ Carried(incoming[e], 0)[1] = WordIn(flit)
  BY <1>1, <1>3, <1>5, CarriedTail
<1>7. ASSUME NEW c \in Cores, NEW d \in Cores
      PROVE  InOrder(calls, Trail(c, d)', c, d, landed[<<c, d>>])
  <2>1. CASE d # e
    <3>1. Trail(c, d)' = Trail(c, d)
      BY <1>2, <1>3, <2>1 DEF Trail
    <3> QED
      BY <3>1 DEF InLine, LandedInOrder
  <2>2. CASE d = e
    <3>1. PICK t : /\ t = Trail(c, e)
                   /\ t[1] = Asked(outgoing[e]) /\ t[2] = Carried(incoming[e], 0)
                   /\ t[3] = Carried(net[<<c, e>>], 0) /\ t[4] = Carried(outgoingFlits[c], 0)
                   /\ t[5] = Carried(bspQueue[c], Sent(c))
                   /\ IsTrail(calls, t) /\ InOrder(calls, t, c, e, landed[<<c, e>>])
                   /\ \A p \in 1 .. 5 : Len(t[p]) \in Nat
      BY TrailNow
    <3>2. PICK u : /\ u = Trail(c, e)'
                   /\ u[1] = Asked(outgoing'[e]) /\ u[2] = Carried(incoming'[e], 0)
                   /\ u[3] = Carried(net'[<<c, e>>], 0) /\ u[4] = Carried(outgoingFlits'[c], 0)
                   /\ u[5] = Carried(bspQueue'[c], Sent(c)')
      BY TrailNext
    <3>3. u[3] = t[3] /\ u[4] = t[4] /\ u[5] = t[5]
      BY <1>2, <3>1, <3>2
    <3>4. Lost(t[2], u[2]) /\ t[2][1] = WordIn(flit)
      BY <1>6, <3>1, <3>2
    <3>5. CASE flit.flitType = "BODY"
      <4>1. Gained(t[1], u[1], WordIn(flit))
        BY <3>1, <3>2, <3>5 DEF WordIn
      <4>2. \A p \in 1 .. 5 : p # 2 /\ p # 2 - 1 => Same(t[p], u[p])
        BY <3>3, SameSelf
      <4>3. 2 \in 2 .. 5 /\ 2 - 1 = 1
        OBVIOUS
      <4>4. InOrder(calls, u, c, e, landed[<<c, e>>])
        BY <3>1, <3>4, <4>1, <4>2, <4>3, TrailMoved
      <4> QED
        BY <2>2, <3>2, <4>4
    <3>6. CASE flit.flitType # "BODY"
      <4>1. u[1] = t[1]
        BY <3>1, <3>2, <3>6
      <4>2. \A p \in 1 .. 5 : p # 2 => Same(t[p], u[p])
        BY <3>3, <4>1, SameSelf
      <4>3. ~FromTo(calls, t[2][1], c, e)
        BY <3>4, <3>6, NotAWord DEF WordIn
      <4>4. 2 \in 1 .. 5
        OBVIOUS
      <4>5. InOrder(calls, u, c, e, landed[<<c, e>>])
        BY <3>1, <3>4, <4>2, <4>3, <4>4, TrailDropped
      <4> QED
        BY <2>2, <3>2, <4>5
    <3> QED
      BY <3>5, <3>6
  <2> QED
    BY <2>1, <2>2
<1> QED
  BY <1>2, <1>4, <1>7, InLineNext

LEMMA handleHeadInLine ==
  ASSUME Inner, InLine, NEW e \in Cores, handleHeadFlit(e)
  PROVE  InLine'
<1>1. PICK flit : flit = Head(incoming[e])
  OBVIOUS
<1>2. EngineTook(e, flit) /\ outgoing' = outgoing /\ engine[e].state = "Idle"
  BY <1>1 DEF handleHeadFlit, EngineTook
<1>3. flit.flitType = "HEAD"
  BY <1>1, <1>2, EngineNeverComplainsNow DEF EngineNeverComplains, EngineTook
<1> QED
  BY <1>2, <1>3, EngineInLine

LEMMA handleBodyInLine ==
  ASSUME Inner, InLine, NEW e \in Cores, handleBodyFlit(e)
  PROVE  InLine'
<1>1. PICK flit : flit = Head(incoming[e])
  OBVIOUS
<1>2. EngineTook(e, flit)
  BY <1>1 DEF handleBodyFlit, EngineTook
<1>3. DOMAIN outgoing = Cores
  BY DEF Inner, StreamsOK
<1>4. CASE flit.flitType = "BODY"
  <2>1. PICK req : req = [addr |-> engine[e].addr, word |-> flit.data]
    OBVIOUS
  <2>2. outgoing' = [outgoing EXCEPT ![e] = Append(outgoing[e], req)] /\ req.word = flit.data
    BY <1>1, <1>4, <2>1 DEF handleBodyFlit
  <2>3. /\ outgoing'[e] = Append(outgoing[e], req)
        /\ \A d \in Cores : d # e => outgoing'[d] = outgoing[d]
    BY <1>3, <2>2
  <2>4. PICK S : outgoing[e] \in Seq(S)
    BY CoreTypes
  <2>5. Gained(Asked(outgoing[e]), Asked(Append(outgoing[e], req)), req.word)
    BY <2>4, AskedAppend
  <2> QED
    BY <1>2, <1>4, <2>2, <2>3, <2>5, EngineInLine
<1>5. CASE flit.flitType # "BODY"
  <2>1. outgoing' = outgoing
    BY <1>1, <1>5 DEF handleBodyFlit
  <2> QED
    BY <1>2, <1>5, <2>1, EngineInLine
<1> QED
  BY <1>4, <1>5

\* The word that port A is to write.
LEMMA FirstRequest ==
  ASSUME Inner, NEW e \in Cores, outgoing[e] # <<>>
  PROVE  \E w \in WordsOf(calls) :
           /\ w = Head(outgoing[e]).word /\ w[1] \in Cores /\ w \in Cores \X Nat \X Nat
           /\ FromTo(calls, w, w[1], e) /\ AddressOf(calls, w) = Head(outgoing[e]).addr
           /\ FrontOf(w) = Open(calls, latest[e])
           /\ Lost(Asked(outgoing[e]), Asked(Tail(outgoing[e])))
           /\ Asked(outgoing[e])[1] = w
<1> DEFINE Requests == [addr : 0 .. AddrSpace - 1, word : WordsOf(calls)]
<1>1. outgoing[e] \in Seq(Requests) /\ calls \in Histories
  BY CoreTypes
<1>2. PICK w : w = Head(outgoing[e]).word
  OBVIOUS
<1>3. \A r \in Requests : r.word \in WordsOf(calls)
  OBVIOUS
<1> HIDE DEF Requests
<1>4. Head(outgoing[e]) = outgoing[e][1] /\ 1 \in 1 .. Len(outgoing[e]) /\ Head(outgoing[e]) \in Requests
  BY <1>1, HeadTailProperties
<1>5. w \in WordsOf(calls)
  BY <1>2, <1>3, <1>4
<1>6. w[1] \in Cores /\ w \in Cores \X Nat \X Nat
  BY <1>1, <1>5, InWordsOf
<1>7. IsFor(calls, w, e, Head(outgoing[e]).addr)
  BY <1>2, <1>4 DEF Inner, WordsInPlace
<1>8. FrontOf(w) = Open(calls, latest[e])
  BY <1>2, <1>4 DEF Inner, WordsJoined
<1>9. Lost(Asked(outgoing[e]), Asked(Tail(outgoing[e]))) /\ Asked(outgoing[e])[1] = w
  BY <1>1, <1>2, AskedTail
<1>10. FromTo(calls, w, w[1], e)
  BY <1>6, <1>7, IsAWord DEF FromTo, IsFor
<1> QED
  BY <1>2, <1>5, <1>6, <1>7, <1>8, <1>9, <1>10 DEF IsFor

\* A message of another core that is not written to its end is not in the way.
LEMMA OthersClosed ==
  ASSUME Inner, InLine, NEW c \in Cores, NEW e \in Cores,
         NEW w, w[1] # c, FrontOf(w) = Open(calls, latest[e])
  PROVE  Open(calls, landed[<<c, e>>]) = NoWord
<1> SUFFICES ASSUME Open(calls, landed[<<c, e>>]) # NoWord PROVE FALSE
  OBVIOUS
<1>1. landed[<<c, e>>] = latest[e] /\ landed[<<c, e>>] # NoWord
  BY DEF InLine, LandedInOrder, Open
<1>2. landed[<<c, e>>][1] = c
  BY <1>1 DEF InLine, LandedInOrder, FromTo
<1>3. FrontOf(w) = landed[<<c, e>>] /\ FrontOf(w) # NoWord
  BY <1>1 DEF Open
<1>4. FrontOf(w) = <<w[1], w[2], w[3] - 1>>
  BY <1>3 DEF FrontOf
<1>5. FrontOf(w)[1] = w[1]
  BY <1>4
<1> QED
  BY <1>2, <1>3, <1>5

\* What is on the trail, and of the calls, when port A writes a word.
LEMMA WordLands ==
  ASSUME Inner, InLine, NEW e \in Cores, outgoing[e] # <<>>,
         NEW w, w = Head(outgoing[e]).word, NEW c, c = w[1],
         NEW u, Lost(Trail(c, e)[1], u[1]), RestSame(Trail(c, e), u)
  PROVE  InOrder(calls, u, c, e, w) /\ IsFirst(calls, c, e, landed[<<c, e>>], w)
<1>1. /\ w \in WordsOf(calls) /\ c \in Cores /\ FromTo(calls, w, c, e)
      /\ Asked(outgoing[e])[1] = w
  BY FirstRequest
<1>2. PICK t : /\ t = Trail(c, e)
               /\ t[1] = Asked(outgoing[e]) /\ t[2] = Carried(incoming[e], 0)
               /\ t[3] = Carried(net[<<c, e>>], 0) /\ t[4] = Carried(outgoingFlits[c], 0)
               /\ t[5] = Carried(bspQueue[c], Sent(c))
               /\ IsTrail(calls, t) /\ InOrder(calls, t, c, e, landed[<<c, e>>])
               /\ \A p \in 1 .. 5 : Len(t[p]) \in Nat
  BY <1>1, TrailNow
<1>3. t[1][1] = w /\ Lost(t[1], u[1]) /\ RestSame(t, u)
  BY <1>1, <1>2
<1>4. PICK last \in {NoWord} \cup WordsOf(calls) : last = landed[<<c, e>>]
  BY <1>1, CoreTypes DEF InLine, LandedInOrder
<1>5. calls \in Histories /\ IsTrail(calls, t) /\ InOrder(calls, t, c, e, last)
  BY <1>2, <1>4, CoreTypes
<1>6. FromTo(calls, w, c, e) /\ w = t[1][1] /\ Lost(t[1], u[1]) /\ RestSame(t, u)
  BY <1>1, <1>3
<1>7. InOrder(calls, u, c, e, w) /\ IsFirst(calls, c, e, last, w)
  BY <1>5, <1>6, TrailLanded
<1> QED
  BY <1>4, <1>7

LEMMA requestFEInLine ==
  ASSUME Inner, InLine, NEW e \in Cores, requestFE(e)
  PROVE  InLine'
<1>1. outgoing[e] # <<>>
  BY DEF requestFE
<1>2. PICK w \in WordsOf(calls) :
           /\ w = Head(outgoing[e]).word /\ w[1] \in Cores
           /\ FromTo(calls, w, w[1], e)
           /\ FrontOf(w) = Open(calls, latest[e])
           /\ Lost(Asked(outgoing[e]), Asked(Tail(outgoing[e])))
           /\ Asked(outgoing[e])[1] = w
  BY <1>1, FirstRequest
<1>3. /\ landed' = [landed EXCEPT ![<<w[1], e>>] = w] /\ latest' = [latest EXCEPT ![e] = w]
      /\ outgoing' = [outgoing EXCEPT ![e] = Tail(outgoing[e])]
      /\ UNCHANGED <<sendVars, outgoingFlits, netVars, incoming, engine>>
  BY <1>2 DEF requestFE
<1>4. /\ UNCHANGED <<sending, bspQueue, bspRdPtr, calls, outgoingFlits, net, route, incoming>>
      /\ \A c : Upcoming(c)' = Upcoming(c) /\ Sent(c)' = Sent(c)
  BY <1>3, UpcomingKept DEF sendVars, netVars
<1>5. DOMAIN outgoing = Cores /\ DOMAIN latest = Cores /\ DOMAIN landed = Cores \X Cores
  BY DEF Inner, StreamsOK, InLine
<1>6. /\ outgoing'[e] = Tail(outgoing[e]) /\ latest'[e] = w /\ landed'[<<w[1], e>>] = w
      /\ DOMAIN landed' = Cores \X Cores
      /\ \A d \in Cores : d # e => outgoing'[d] = outgoing[d] /\ latest'[d] = latest[d]
      /\ \A c, d \in Cores : <<c, d>> # <<w[1], e>> => landed'[<<c, d>>] = landed[<<c, d>>]
  BY <1>2, <1>3, <1>5
<1>7. RightWay'
  BY <1>4, RightWayKept DEF InLine
<1>8. ASSUME NEW c \in Cores, NEW d \in Cores
      PROVE  PairOK(c, d)'
  <2>0. PairOK(c, d)
    BY PairsOK DEF InLine
  <2>1. CASE d # e
    <3>1. landed'[<<c, d>>] = landed[<<c, d>>] /\ latest'[d] = latest[d] /\ outgoing'[d] = outgoing[d]
      BY <1>6, <2>1
    <3>2. Trail(c, d)' = Trail(c, d)
      BY <1>4, <3>1 DEF Trail
    <3> QED
      BY <1>4, <2>0, <3>1, <3>2 DEF PairOK
  <2>2. CASE d = e
    <3>1. PICK t : /\ t = Trail(c, e)
                   /\ t[1] = Asked(outgoing[e]) /\ t[2] = Carried(incoming[e], 0)
                   /\ t[3] = Carried(net[<<c, e>>], 0) /\ t[4] = Carried(outgoingFlits[c], 0)
                   /\ t[5] = Carried(bspQueue[c], Sent(c))
                   /\ IsTrail(calls, t) /\ InOrder(calls, t, c, e, landed[<<c, e>>])
                   /\ \A p \in 1 .. 5 : Len(t[p]) \in Nat
      BY TrailNow
    <3>2. PICK u : /\ u = Trail(c, e)'
                   /\ u[1] = Asked(outgoing'[e]) /\ u[2] = Carried(incoming'[e], 0)
                   /\ u[3] = Carried(net'[<<c, e>>], 0) /\ u[4] = Carried(outgoingFlits'[c], 0)
                   /\ u[5] = Carried(bspQueue'[c], Sent(c)')
      BY TrailNext
    <3>3. u[2] = t[2] /\ u[3] = t[3] /\ u[4] = t[4] /\ u[5] = t[5]
      BY <1>4, <3>1, <3>2
    <3>4. Lost(t[1], u[1]) /\ t[1][1] = w
      BY <1>2, <1>6, <3>1, <3>2
    <3>5. CASE c = w[1]
      <4>1. RestSame(t, u)
        BY <3>3, SameSelf DEF RestSame
      <4>2. InOrder(calls, u, c, e, w)
        BY <1>1, <1>2, <3>1, <3>4, <3>5, <4>1, WordLands
      <4>3. landed'[<<c, e>>] = w /\ latest'[e] = w /\ calls' = calls
        BY <1>4, <1>6, <3>5
      <4> QED
        BY <1>2, <2>2, <3>2, <3>5, <4>2, <4>3 DEF PairOK
    <3>6. CASE c # w[1]
      <4>1. \A p \in 1 .. 5 : p # 1 => Same(t[p], u[p])
        BY <3>3, SameSelf
      <4>2. ~FromTo(calls, t[1][1], c, e)
        BY <3>4, <3>6 DEF FromTo
      <4>3. 1 \in 1 .. 5
        OBVIOUS
      <4>4. InOrder(calls, u, c, e, landed[<<c, e>>])
        BY <3>1, <3>4, <4>1, <4>2, <4>3, TrailDropped
      <4>5. landed'[<<c, e>>] = landed[<<c, e>>] /\ calls' = calls
        <5>1. <<c, e>> # <<w[1], e>>
          BY <3>6
        <5> QED
          BY <1>4, <1>6, <5>1
      <4>6. Open(calls, landed[<<c, e>>]) = NoWord
        BY <1>2, <3>6, OthersClosed
      <4> QED
        BY <2>0, <2>2, <3>2, <4>4, <4>5, <4>6 DEF PairOK
    <3> QED
      BY <3>5, <3>6
  <2> QED
    BY <2>1, <2>2
<1>9. LandedInOrder'
  BY <1>8 DEF LandedInOrder, PairOK
<1> QED
  BY <1>6, <1>7, <1>9 DEF InLine

LEMMA ConcatFacts ==
  ASSUME NEW S, NEW s \in Seq(S), NEW T, NEW t \in Seq(T)
  PROVE  /\ s \o t \in Seq(S \cup T) /\ Len(s \o t) = Len(s) + Len(t)
         /\ Len(s) \in Nat /\ Len(t) \in Nat
         /\ \A i \in 1 .. Len(s) : (s \o t)[i] = s[i]
         /\ \A i \in 1 .. Len(t) : (s \o t)[Len(s) + i] = t[i]
<1> DEFINE U == S \cup T
<1>1. s \in Seq(U) /\ t \in Seq(U)
  OBVIOUS
<1> HIDE DEF U
<1>2. /\ s \o t \in Seq(U) /\ Len(s \o t) = Len(s) + Len(t) /\ Len(s) \in Nat /\ Len(t) \in Nat
      /\ \A i \in 1 .. Len(s) + Len(t) : (s \o t)[i] = IF i <= Len(s) THEN s[i] ELSE t[i - Len(s)]
  BY <1>1, ConcatProperties
<1>3. PICK m \in Nat, n \in Nat : m = Len(s) /\ n = Len(t)
  BY <1>2
<1>4. ASSUME NEW i \in 1 .. m PROVE i \in 1 .. m + n /\ i <= m
  BY <1>3
<1>5. ASSUME NEW i \in 1 .. n PROVE m + i \in 1 .. m + n /\ ~(m + i <= m) /\ (m + i) - m = i
  BY <1>3
<1>6. \A i \in 1 .. m : (s \o t)[i] = s[i]
  BY <1>2, <1>3, <1>4
<1>7. \A i \in 1 .. n : (s \o t)[m + i] = t[i]
  BY <1>2, <1>3, <1>5
<1> QED
  BY <1>2, <1>3, <1>6, <1>7 DEF U

\* What is at each place of the packet of a call.
IsPacket(s, c, n, k) ==
  /\ s = PacketOf(c, n, k) /\ Len(s) = k.len + 2
  /\ s[1].flitType = "HEAD" /\ s[k.len + 2].flitType = "TAIL"
  /\ \A j \in 1 .. k.len : s[1 + j].flitType = "BODY" /\ s[1 + j].data = <<c, n, j>>

LEMMA PacketPlaces ==
  ASSUME NEW c, NEW n, NEW k \in Calls
  PROVE  \E S : \E s \in Seq(S) : IsPacket(s, c, n, k)
<1> DEFINE head   == [flitType |-> "HEAD", data |-> PackHead(k)]
           bodies == [i \in 1 .. k.len |-> [flitType |-> "BODY", data |-> <<c, n, i>>]]
           tail   == [flitType |-> "TAIL", data |-> 0]
<1>1. PacketOf(c, n, k) = (<<head>> \o bodies) \o <<tail>>
  BY DEF PacketOf
<1>2. PICK len \in Nat : len = k.len
  BY CallFacts
<1>3. /\ head.flitType = "HEAD" /\ tail.flitType = "TAIL"
      /\ \A j \in 1 .. len : bodies[j].flitType = "BODY" /\ bodies[j].data = <<c, n, j>>
  BY <1>2
<1> DEFINE T == {bodies[i] : i \in 1 .. len}
<1>4. bodies \in [1 .. len -> T]
  BY <1>2
<1> HIDE DEF head, tail, bodies, T
<1>5. bodies \in Seq(T) /\ Len(bodies) = len
  <2>1. bodies \in Seq(T)
    BY <1>4, SeqDef
  <2> QED
    BY <1>4, <2>1, LenProperties
<1>6. /\ <<head>> \in Seq({head}) /\ Len(<<head>>) = 1 /\ <<head>>[1] = head
      /\ <<tail>> \in Seq({tail}) /\ Len(<<tail>>) = 1 /\ <<tail>>[1] = tail
  OBVIOUS
<1>7. PICK a : a = <<head>> \o bodies
  OBVIOUS
<1>8. /\ a \in Seq({head} \cup T) /\ Len(a) = 1 + len
      /\ \A i \in 1 .. 1 : a[i] = <<head>>[i]
      /\ \A i \in 1 .. len : a[1 + i] = bodies[i]
  BY <1>5, <1>6, <1>7, ConcatFacts
<1> DEFINE U == {head} \cup T
<1>9. a \in Seq(U)
  BY <1>8
<1> HIDE DEF U
<1>10. PICK s : s = a \o <<tail>>
  OBVIOUS
<1>11. /\ s \in Seq(U \cup {tail}) /\ Len(s) = Len(a) + 1
       /\ \A i \in 1 .. Len(a) : s[i] = a[i]
       /\ \A i \in 1 .. 1 : s[Len(a) + i] = <<tail>>[i]
  BY <1>6, <1>9, <1>10, ConcatFacts
<1>12. Len(s) = len + 2 /\ Len(a) + 1 = len + 2
  BY <1>8, <1>11
<1>13. 1 \in 1 .. 1 /\ 1 \in 1 .. Len(a) /\ \A i \in 1 .. len : 1 + i \in 1 .. Len(a)
  BY <1>8
<1>14. s[1] = head /\ s[len + 2] = tail
  BY <1>6, <1>8, <1>11, <1>12, <1>13
<1>15. \A j \in 1 .. len : s[1 + j] = bodies[j]
  BY <1>8, <1>11, <1>13
<1>16. PICK S : s \in Seq(S)
  BY <1>11
<1>17. s = PacketOf(c, n, k) /\ Len(s) = k.len + 2
  BY <1>1, <1>2, <1>7, <1>10, <1>12
<1>18. s[1].flitType = "HEAD" /\ s[k.len + 2].flitType = "TAIL"
  BY <1>2, <1>3, <1>14
<1>19. \A j \in 1 .. k.len : s[1 + j].flitType = "BODY" /\ s[1 + j].data = <<c, n, j>>
  BY <1>2, <1>3, <1>15
<1>20. IsPacket(s, c, n, k)
  BY <1>17, <1>18, <1>19, Zenon DEF IsPacket
<1> QED
  BY <1>16, <1>20, Zenon

\* A packet behind what is queued.
LEMMA QueueLonger ==
  ASSUME NEW S, NEW q \in Seq(S), NEW c, NEW n, NEW k \in Calls
  PROVE  /\ Packed(Carried(q, 0), Carried(q \o PacketOf(c, n, k), 0), c, n, k)
         /\ AllFrom(q, c) => AllFrom(q \o PacketOf(c, n, k), c)
<1>1. PICK T : \E s \in Seq(T) : IsPacket(s, c, n, k)
  BY PacketPlaces, Zenon
<1>2. PICK s \in Seq(T) :
           /\ s = PacketOf(c, n, k) /\ Len(s) = k.len + 2
           /\ s[1].flitType = "HEAD" /\ s[k.len + 2].flitType = "TAIL"
           /\ \A j \in 1 .. k.len : s[1 + j].flitType = "BODY" /\ s[1 + j].data = <<c, n, j>>
  BY <1>1, Zenon DEF IsPacket
<1>3. PICK r : r = q \o s
  OBVIOUS
<1>4. /\ Len(r) = Len(q) + Len(s) /\ Len(q) \in Nat /\ Len(s) \in Nat
      /\ \A i \in 1 .. Len(q) : r[i] = q[i]
      /\ \A i \in 1 .. Len(s) : r[Len(q) + i] = s[i]
  BY <1>3, ConcatFacts
<1>5. PICK len \in Nat, m \in Nat : len = k.len /\ m = Len(q)
  BY <1>4, CallFacts
<1>6. Len(r) = m + len + 2 /\ Len(r) \in Nat
  BY <1>2, <1>4, <1>5
<1>7. /\ 1 \in 1 .. Len(s) /\ len + 2 \in 1 .. Len(s) /\ \A j \in 1 .. len : 1 + j \in 1 .. Len(s)
  BY <1>2, <1>5
<1>8. /\ r[m + 1].flitType = "HEAD" /\ r[m + (len + 2)].flitType = "TAIL"
      /\ \A j \in 1 .. len : r[m + (1 + j)].flitType = "BODY" /\ r[m + (1 + j)].data = <<c, n, j>>
  <2>1. \A i \in 1 .. Len(s) : r[m + i] = s[i]
    BY <1>4, <1>5
  <2>2. r[m + 1] = s[1] /\ r[m + (len + 2)] = s[len + 2]
    BY <1>7, <2>1
  <2>3. \A j \in 1 .. len : r[m + (1 + j)] = s[1 + j]
    BY <1>7, <2>1
  <2> QED
    BY <1>2, <1>5, <2>2, <2>3, ZenonT(30)
<1>9. Len(Carried(q, 0)) = m /\ \A i \in 1 .. m : Carried(q, 0)[i] = WordIn(q[i])
  BY <1>4, <1>5, CarriedAll
<1>10. Len(Carried(r, 0)) = Len(r) /\ \A i \in 1 .. Len(r) : Carried(r, 0)[i] = WordIn(r[i])
  BY <1>6, CarriedAll
<1>11. /\ \A i \in 1 .. m : i \in 1 .. Len(r)
       /\ m + 1 \in 1 .. Len(r) /\ m + len + 2 \in 1 .. Len(r) /\ m + len + 2 = m + (len + 2)
       /\ \A j \in 1 .. len : m + 1 + j \in 1 .. Len(r) /\ m + 1 + j = m + (1 + j)
  BY <1>6
<1>12. Packed(Carried(q, 0), Carried(r, 0), c, n, k)
  <2>1. Len(Carried(r, 0)) = m + len + 2
    BY <1>6, <1>10
  <2>2. \A i \in 1 .. m : Carried(r, 0)[i] = Carried(q, 0)[i]
    BY <1>4, <1>5, <1>9, <1>10, <1>11
  <2>3. Carried(r, 0)[m + 1] = NoWord /\ Carried(r, 0)[m + len + 2] = NoWord
    BY <1>8, <1>10, <1>11 DEF WordIn
  <2>4. \A j \in 1 .. len : Carried(r, 0)[m + 1 + j] = <<c, n, j>>
    BY <1>8, <1>10, <1>11 DEF WordIn
  <2> QED
    BY <1>5, <1>9, <2>1, <2>2, <2>3, <2>4 DEF Packed
<1>13. AllFrom(q, c) => AllFrom(r, c)
  <2> SUFFICES ASSUME AllFrom(q, c), NEW i \in 1 .. Len(r), r[i].flitType = "BODY"
               PROVE  r[i].data[1] = c
    BY DEF AllFrom
  <2>1. i \in 1 .. m \/ i = m + 1 \/ i = m + (len + 2) \/ i - (m + 1) \in 1 .. len
    BY <1>6
  <2>2. CASE i \in 1 .. m
    BY <1>4, <1>5, <2>2 DEF AllFrom
  <2>3. CASE i - (m + 1) \in 1 .. len
    <3>1. PICK j \in 1 .. len : j = i - (m + 1)
      BY <2>3
    <3>2. i = m + (1 + j)
      BY <3>1
    <3>3. r[i].data = <<c, n, j>>
      BY <1>8, <3>2
    <3> QED
      BY <3>3
  <2>4. CASE i = m + 1 \/ i = m + (len + 2)
    BY <1>8, <2>4
  <2> QED
    BY <2>1, <2>2, <2>3, <2>4
<1> QED
  BY <1>2, <1>3, <1>12, <1>13

LEMMA PutInLine ==
  ASSUME Inner, InLine, NEW a \in Cores, NEW k \in Calls, bsp_put(a, k)
  PROVE  InLine'
<1>1. PICK n : n = Len(calls[a]) + 1
  OBVIOUS
<1>2. calls \in Histories /\ calls' = WithCall(calls, a, k)
  BY CoreTypes DEF bsp_put, WithCall
<1>3. /\ ~sending[a] /\ DOMAIN bspQueue = Cores
      /\ UNCHANGED <<sending, bspRdPtr, outgoingFlits, net, route, incoming, outgoing, landed, latest>>
      /\ bspQueue' = IF k.len \in 1 .. MaxBurst
                     THEN [bspQueue EXCEPT ![a] = bspQueue[a] \o PacketOf(a, n, k)]
                     ELSE bspQueue
  BY <1>1 DEF bsp_put, netVars, feVars, memVars, Inner, StreamsOK
<1>4. /\ \A b \in Cores : b # a => bspQueue'[b] = bspQueue[b]
      /\ bspQueue'[a] = IF k.len \in 1 .. MaxBurst THEN bspQueue[a] \o PacketOf(a, n, k) ELSE bspQueue[a]
  BY <1>3
<1>5. \A b \in Cores : Upcoming(b)' = Upcoming(b)
  BY PutStep
<1>6. \A b : Sent(b)' = Sent(b)
  BY <1>3 DEF Sent
<1>7. PICK S : bspQueue[a] \in Seq(S)
  BY CoreTypes, StreamElements
<1>8. /\ \A word \in WordsOf(calls) : /\ word \in WordsOf(calls')
                                      /\ \A c, d : FromTo(calls', word, c, d) <=> FromTo(calls, word, c, d)
  BY <1>1, <1>2, NewWords
<1>9. \A word \in {NoWord} \cup WordsOf(calls) : Open(calls', word) = Open(calls, word)
  <2>1. \A word \in WordsOf(calls) : Open(calls', word) = Open(calls, word)
    BY <1>2, WordsKept
  <2> QED
    BY <2>1 DEF Open
<1>10. RightWay'
  <2>1. AllFrom(bspQueue'[a], a)
    <3>1. AllFrom(bspQueue[a], a)
      BY DEF InLine, RightWay
    <3>2. AllFrom(bspQueue[a] \o PacketOf(a, n, k), a)
      BY <1>7, <3>1, QueueLonger
    <3> QED
      BY <1>4, <3>1, <3>2
  <2>2. \A c, d \in Cores : AllFromTo(calls', net'[<<c, d>>], c, d)
    <3> SUFFICES ASSUME NEW c \in Cores, NEW d \in Cores, NEW i \in 1 .. Len(net[<<c, d>>]),
                        net[<<c, d>>][i].flitType = "BODY"
                 PROVE  FromTo(calls', net[<<c, d>>][i].data, c, d)
      BY <1>3 DEF AllFromTo
    <3>1. FromTo(calls, net[<<c, d>>][i].data, c, d)
      BY DEF InLine, RightWay, AllFromTo
    <3>2. FlitOK(calls, net[<<c, d>>][i])
      BY CoreTypes DEF IsStream
    <3>3. net[<<c, d>>][i].data \in WordsOf(calls)
      BY <3>2 DEF FlitOK
    <3> QED
      BY <1>8, <3>1, <3>3
  <2>3. \A c \in Cores : AllFrom(bspQueue'[c], c)
    BY <1>4, <2>1 DEF InLine, RightWay
  <2> QED
    BY <1>3, <1>5, <2>2, <2>3 DEF InLine, RightWay
<1>11. ASSUME NEW c \in Cores, NEW d \in Cores
       PROVE  PairOK(c, d)'
  <2>1. PairOK(c, d)
    BY PairsOK DEF InLine
  <2>2. PICK last \in {NoWord} \cup WordsOf(calls) : last = landed[<<c, d>>]
    BY <2>1 DEF PairOK
  <2>3. last # NoWord => last[1] = c
    BY <2>1, <2>2 DEF PairOK, FromTo
  <2>4. PICK t : /\ t = Trail(c, d)
                 /\ t[1] = Asked(outgoing[d]) /\ t[2] = Carried(incoming[d], 0)
                 /\ t[3] = Carried(net[<<c, d>>], 0) /\ t[4] = Carried(outgoingFlits[c], 0)
                 /\ t[5] = Carried(bspQueue[c], Sent(c))
                 /\ IsTrail(calls, t) /\ InOrder(calls, t, c, d, landed[<<c, d>>])
                 /\ \A p \in 1 .. 5 : Len(t[p]) \in Nat
    BY TrailNow
  <2>5. PICK u : /\ u = Trail(c, d)'
                 /\ u[1] = Asked(outgoing'[d]) /\ u[2] = Carried(incoming'[d], 0)
                 /\ u[3] = Carried(net'[<<c, d>>], 0) /\ u[4] = Carried(outgoingFlits'[c], 0)
                 /\ u[5] = Carried(bspQueue'[c], Sent(c)')
    BY TrailNext
  <2>6. \A p \in 1 .. 4 : Same(t[p], u[p])
    <3>1. u[1] = t[1] /\ u[2] = t[2] /\ u[3] = t[3] /\ u[4] = t[4]
      BY <1>3, <2>4, <2>5
    <3> QED
      BY <3>1, SameSelf
  <2>7. IF c = a /\ k.len \in 1 .. MaxBurst THEN Packed(t[5], u[5], c, n, k) ELSE Same(t[5], u[5])
    <3>1. CASE c = a /\ k.len \in 1 .. MaxBurst
      <4>1. Sent(a) = 0 /\ Sent(a)' = 0
        BY <1>3, <1>6 DEF Sent
      <4>2. u[5] = Carried(bspQueue[a] \o PacketOf(a, n, k), 0) /\ t[5] = Carried(bspQueue[a], 0)
        BY <1>4, <2>4, <2>5, <3>1, <4>1
      <4> QED
        BY <1>7, <3>1, <4>2, QueueLonger
    <3>2. CASE ~(c = a /\ k.len \in 1 .. MaxBurst)
      <4>1. bspQueue'[c] = bspQueue[c]
        BY <1>4, <3>2
      <4>2. u[5] = t[5]
        BY <1>6, <2>4, <2>5, <4>1
      <4> QED
        BY <3>2, <4>2, SameSelf
    <3> QED
      BY <3>1, <3>2
  <2>8. InOrder(calls', u, c, d, last)
    BY <1>1, <1>2, <2>2, <2>3, <2>4, <2>6, <2>7, TrailCalled
  <2>9. landed'[<<c, d>>] = last /\ latest'[d] = latest[d]
    BY <1>3, <2>2
  <2>10. last # NoWord => last \in WordsOf(calls') /\ FromTo(calls', last, c, d)
    BY <1>8, <2>1, <2>2 DEF PairOK
  <2>11. last = latest[d] \/ Open(calls', last) = NoWord
    BY <1>9, <2>1, <2>2 DEF PairOK
  <2> QED
    BY <2>5, <2>8, <2>9, <2>10, <2>11 DEF PairOK
<1>12. LandedInOrder'
  BY <1>11 DEF LandedInOrder, PairOK
<1> QED
  BY <1>3, <1>10, <1>12 DEF InLine

LEMMA StutterInLine ==
  ASSUME InLine, UNCHANGED vars
  PROVE  InLine'
<1>1. UNCHANGED <<sending, bspQueue, bspRdPtr, calls, outgoingFlits, net, route, incoming, outgoing,
                  landed, latest>>
  BY DEF vars, sendVars, netVars, feVars, memVars
<1>2. \A c : Upcoming(c)' = Upcoming(c) /\ Sent(c)' = Sent(c)
  BY <1>1, UpcomingKept DEF sendVars
<1>3. RightWay'
  BY <1>1, <1>2, RightWayKept DEF InLine
<1>4. \A c, d : Trail(c, d)' = Trail(c, d)
  BY <1>1, <1>2 DEF Trail
<1>5. \A c \in Cores : \A d \in Cores : InOrder(calls, Trail(c, d)', c, d, landed[<<c, d>>])
  BY <1>4 DEF InLine, LandedInOrder
<1> QED
  BY <1>1, <1>3, <1>5, InLineNext

LEMMA InLineInit ==
  Init => InLine
<1> SUFFICES ASSUME Init PROVE InLine
  OBVIOUS
<1>1. WordsOf(calls) = {}
  <2>1. \A c \in Cores : Len(calls[c]) = 0
    BY DEF Init
  <2>2. \A c \in Cores : 1 .. Len(calls[c]) = {}
    BY <2>1
  <2> QED
    BY <2>2 DEF WordsOf
<1>2. RightWay
  BY DEF Init, RightWay, AllFrom, AllFromTo
<1>3. DOMAIN landed = Cores \X Cores
  BY DEF Init
<1>4. ASSUME NEW c \in Cores, NEW d \in Cores
      PROVE  PairOK(c, d)
  <2>1. landed[<<c, d>>] = NoWord
    BY DEF Init
  <2>2. Open(calls, NoWord) = NoWord
    BY DEF Open
  <2>3. PICK t : t = Trail(c, d)
    OBVIOUS
  <2>4. Sent(c) = 0
    BY DEF Init, Sent
  <2>5. /\ t[1] = Asked(<<>>) /\ t[2] = Carried(<<>>, 0) /\ t[3] = Carried(<<>>, 0)
        /\ t[4] = Carried(<<>>, 0) /\ t[5] = Carried(<<>>, 0)
    BY <2>3, <2>4 DEF Init, Trail
  <2>6. Len(Asked(<<>>)) = 0 /\ Len(Carried(<<>>, 0)) = 0
    <3>1. Len(<<>>) = 0
      OBVIOUS
    <3> QED
      BY <3>1, AskedFacts, CarriedAll
  <2>7. \A p \in 1 .. 5 : Len(t[p]) = 0
    BY <2>5, <2>6
  <2>8. Due(calls, c, d, NoWord) = {}
    BY <1>1 DEF Due
  <2>9. InOrder(calls, t, c, d, NoWord)
    BY <2>7, <2>8 DEF InOrder
  <2> QED
    BY <2>1, <2>2, <2>3, <2>9 DEF PairOK
<1>5. LandedInOrder
  BY <1>4 DEF LandedInOrder, PairOK
<1> QED
  BY <1>2, <1>3, <1>5 DEF InLine

-----------------------------------------------------------------------------
\* The abstract specification: what is still to be written.

OnPairs(f)         == f = [pair \in Cores \X Cores |-> f[pair]]
SameOnPairs(f, g)  == \A c, d \in Cores : g[<<c, d>>] = f[<<c, d>>]
SameBut(f, g, a, b) == \A c, d \in Cores : c # a \/ d # b => g[<<c, d>>] = f[<<c, d>>]

LEMMA TodoFacts ==
  /\ OnPairs(Todo) /\ OnPairs(Todo')
  /\ \A c, d \in Cores : Todo[<<c, d>>] = Remaining(c, d) /\ Todo'[<<c, d>>] = Remaining(c, d)'
  BY DEF Todo, OnPairs

LEMMA PairsEqual ==
  ASSUME NEW f, NEW g, OnPairs(f), OnPairs(g), SameOnPairs(f, g)
  PROVE  g = f
<1>1. ASSUME NEW pair \in Cores \X Cores PROVE g[pair] = f[pair]
  <2>1. PICK c \in Cores, d \in Cores : pair = <<c, d>>
    OBVIOUS
  <2> QED
    BY <2>1 DEF SameOnPairs
<1> QED
  BY <1>1 DEF OnPairs

LEMMA PairsExcept ==
  ASSUME NEW f, NEW g, OnPairs(f), OnPairs(g), NEW a \in Cores, NEW b \in Cores,
         SameBut(f, g, a, b), NEW x, x = g[<<a, b>>]
  PROVE  g = [f EXCEPT ![<<a, b>>] = x]
<1>1. ASSUME NEW pair \in Cores \X Cores
      PROVE  g[pair] = IF pair = <<a, b>> THEN x ELSE f[pair]
  <2>1. PICK c \in Cores, d \in Cores : pair = <<c, d>>
    OBVIOUS
  <2>2. CASE c = a /\ d = b
    BY <2>1, <2>2
  <2>3. CASE c # a \/ d # b
    BY <2>1, <2>3 DEF SameBut
  <2> QED
    BY <2>2, <2>3
<1>2. [f EXCEPT ![<<a, b>>] = x] =
        [pair \in Cores \X Cores |-> IF pair = <<a, b>> THEN x ELSE f[pair]]
  BY DEF OnPairs
<1> QED
  BY <1>1, <1>2 DEF OnPairs

\* A step that neither calls nor writes leaves what is to be done.
LEMMA RemoteStutter ==
  ASSUME UNCHANGED <<calls, landed, bram>>
  PROVE  UNCHANGED Remote!vars
<1>1. \A c, d : Remaining(c, d)' = Remaining(c, d)
  BY DEF Remaining
<1>2. SameOnPairs(Todo, Todo')
  BY <1>1, TodoFacts DEF SameOnPairs
<1>4. Todo' = Todo
  BY <1>2, TodoFacts, PairsEqual
<1>3. Called' = Called
  BY DEF Called
<1> QED
  BY <1>3, <1>4 DEF Remote!vars

LEMMA RemoteInit ==
  Init => Remote!Init
<1> SUFFICES ASSUME Init PROVE Remote!Init
  OBVIOUS
<1>1. WordsOf(calls) = {}
  <2>1. \A c \in Cores : Len(calls[c]) = 0
    BY DEF Init
  <2>2. \A c \in Cores : 1 .. Len(calls[c]) = {}
    BY <2>1
  <2> QED
    BY <2>2 DEF WordsOf
<1>2. \A c, d : Remaining(c, d) = {}
  BY <1>1 DEF Remaining, Due
<1>3. Todo = [pair \in Cores \X Cores |-> {}]
  BY <1>2 DEF Todo
<1>4. Called = [c \in Cores |-> 0]
  BY DEF Called, Init
<1>5. bram = [d \in Cores |-> <<>>]
  BY DEF Init
<1> QED
  BY <1>3, <1>4, <1>5 DEF Remote!Init

\* The words that are due after a further call.
NewDue(c, d, a, n, k) ==
  IF c = a /\ d = k.to /\ k.len \in 1 .. MaxBurst THEN {<<a, n, j>> : j \in 1 .. k.len} ELSE {}

LEMMA DueCalled ==
  ASSUME NEW made \in Histories, NEW a \in Cores, NEW k \in Calls, NEW new,
         new = WithCall(made, a, k), NEW n, n = Len(made[a]) + 1,
         NEW c \in Cores, NEW d, NEW last \in {NoWord} \cup WordsOf(made),
         last # NoWord => last[1] = c
  PROVE  Due(new, c, d, last) = Due(made, c, d, last) \cup NewDue(c, d, a, n, k)
<1>1. /\ n \in Nat
      /\ \A word \in WordsOf(made) : /\ word \in WordsOf(new)
                                     /\ FromTo(new, word, c, d) <=> FromTo(made, word, c, d)
                                     /\ word[1] = a => word[2] \in Nat /\ word[2] < n
      /\ \A word \in WordsOf(new) : word \in WordsOf(made) \/
           (k.len \in 1 .. MaxBurst /\ \E j \in 1 .. k.len : word = <<a, n, j>>)
      /\ \A j \in 1 .. k.len : /\ k.len \in 1 .. MaxBurst => <<a, n, j>> \in WordsOf(new)
                               /\ FromTo(new, <<a, n, j>>, c, d) <=> c = a /\ d = k.to
  BY NewWords
<1>2. ASSUME NEW word \in Due(new, c, d, last), word \notin Due(made, c, d, last)
      PROVE  word \in NewDue(c, d, a, n, k)
  <2>1. word \in WordsOf(new) /\ FromTo(new, word, c, d) /\ Behind(word, last)
    BY DEF Due
  <2>2. word \notin WordsOf(made)
    BY <1>1, <1>2, <2>1 DEF Due
  <2>3. PICK j \in 1 .. k.len : word = <<a, n, j>> /\ k.len \in 1 .. MaxBurst
    BY <1>1, <2>1, <2>2
  <2>4. c = a /\ d = k.to
    BY <1>1, <2>1, <2>3
  <2> QED
    BY <2>3, <2>4 DEF NewDue
<1>3. ASSUME NEW word \in Due(made, c, d, last)
      PROVE  word \in Due(new, c, d, last)
  BY <1>1 DEF Due
<1>4. ASSUME NEW word \in NewDue(c, d, a, n, k)
      PROVE  word \in Due(new, c, d, last)
  <2>1. c = a /\ d = k.to /\ k.len \in 1 .. MaxBurst
    BY DEF NewDue
  <2>2. PICK j \in 1 .. k.len : word = <<a, n, j>>
    BY <2>1 DEF NewDue
  <2>3. word \in WordsOf(new) /\ FromTo(new, word, c, d)
    BY <1>1, <2>1, <2>2
  <2>4. word[2] = n
    BY <2>2
  <2>5. last # NoWord => last[2] < n
    BY <1>1, <2>1
  <2>6. Behind(word, last)
    BY <2>4, <2>5 DEF Behind, Ahead
  <2> QED
    BY <2>3, <2>6 DEF Due
<1> QED
  BY <1>2, <1>3, <1>4

LEMMA PutIsCall ==
  ASSUME Inner, InLine, NEW a \in Cores, NEW k \in Calls, bsp_put(a, k)
  PROVE  Remote!Call(k.from, k)
<1>1. PICK n : n = Len(calls[a]) + 1
  OBVIOUS
<1>2. calls \in Histories /\ calls' = WithCall(calls, a, k) /\ k.from = a
  BY CoreTypes DEF bsp_put, WithCall
<1>3. landed' = landed /\ bram' = bram
  BY DEF bsp_put, memVars
<1>4. k.to \in Cores
  BY CallFacts
<1>5. Called' = [Called EXCEPT ![a] = @ + 1] /\ Called[a] + 1 = n
  <2>1. calls'[a] = Append(calls[a], k) /\ \A b \in Cores : b # a => calls'[b] = calls[b]
    BY <1>2 DEF Histories, WithCall
  <2>2. Len(calls'[a]) = Len(calls[a]) + 1
    <3>1. calls[a] \in Seq(Calls)
      BY <1>2 DEF Histories
    <3> QED
      BY <2>1, <3>1, AppendProperties
  <2>3. \A b \in Cores : b # a => Len(calls'[b]) = Len(calls[b])
    BY <2>1
  <2> QED
    BY <1>1, <2>2, <2>3 DEF Called
<1>6. ASSUME NEW c \in Cores, NEW d \in Cores
      PROVE  Remaining(c, d)' = Remaining(c, d) \cup
               (IF c = a /\ d = k.to /\ k.len \in 1 .. MaxBurst THEN Remote!WritesOf(a, n, k) ELSE {})
  <2>1. PICK last \in {NoWord} \cup WordsOf(calls) : last = landed[<<c, d>>]
    BY DEF InLine, LandedInOrder
  <2>2. last # NoWord => last[1] = c
    BY <2>1 DEF InLine, LandedInOrder, FromTo
  <2>3. Due(calls', c, d, last) = Due(calls, c, d, last) \cup NewDue(c, d, a, n, k)
    BY <1>1, <1>2, <2>1, <2>2, DueCalled
  <2>4. \A word \in Due(calls, c, d, last) : AddressOf(calls', word) = AddressOf(calls, word)
    <3>1. \A word \in WordsOf(calls) : CallOf(calls', word) = CallOf(calls, word)
      BY <1>2, WordsKept
    <3> QED
      BY <3>1 DEF Due, AddressOf
  <2>5. Remaining(c, d) = {[addr |-> AddressOf(calls, word), word |-> word] :
                             word \in Due(calls, c, d, last)}
    BY <2>1 DEF Remaining
  <2>6. Remaining(c, d)' = {[addr |-> AddressOf(calls', word), word |-> word] :
                              word \in Due(calls', c, d, last)}
    BY <1>3, <2>1 DEF Remaining
  <2>7. CASE c = a /\ d = k.to /\ k.len \in 1 .. MaxBurst
    <3>1. ASSUME NEW j \in 1 .. k.len
          PROVE  AddressOf(calls', <<a, n, j>>) = (k.dest \div 4 + j - 1) % AddrSpace
      <4>1. CallOf(calls', <<a, n, j>>) = k
        BY <1>1, <1>2, NewWords
      <4>2. PICK word : word = <<a, n, j>>
        OBVIOUS
      <4>3. word[3] = j
        BY <4>2
      <4> QED
        BY <4>1, <4>2, <4>3 DEF AddressOf
    <3>2. NewDue(c, d, a, n, k) = {<<a, n, j>> : j \in 1 .. k.len}
      BY <2>7 DEF NewDue
    <3>3. Remote!WritesOf(a, n, k) = {[addr |-> (k.dest \div 4 + j - 1) % AddrSpace,
                                       word |-> <<a, n, j>>] : j \in 1 .. k.len}
      BY DEF Remote!WritesOf
    <3>4. {[addr |-> AddressOf(calls', word), word |-> word] : word \in NewDue(c, d, a, n, k)}
            = Remote!WritesOf(a, n, k)
      BY <3>1, <3>2, <3>3
    <3>5. Remaining(c, d)' = Remaining(c, d) \cup Remote!WritesOf(a, n, k)
      BY <2>3, <2>4, <2>5, <2>6, <3>4
    <3> QED
      BY <2>7, <3>5
  <2>8. CASE ~(c = a /\ d = k.to /\ k.len \in 1 .. MaxBurst)
    <3>1. NewDue(c, d, a, n, k) = {}
      BY <2>8 DEF NewDue
    <3>2. Remaining(c, d)' = Remaining(c, d)
      BY <2>3, <2>4, <2>5, <2>6, <3>1
    <3> QED
      BY <2>8, <3>2
  <2> QED
    BY <2>7, <2>8
<1>7. Todo' = IF k.len \in 1 .. MaxBurst
              THEN [Todo EXCEPT ![<<a, k.to>>] = @ \cup Remote!WritesOf(a, n, k)]
              ELSE Todo
  <2>1. CASE k.len \in 1 .. MaxBurst
    <3>1. ASSUME NEW c \in Cores, NEW d \in Cores, c # a \/ d # k.to
          PROVE  Todo'[<<c, d>>] = Todo[<<c, d>>]
      <4>1. Remaining(c, d)' = Remaining(c, d)
        BY <1>6, <3>1
      <4> QED
        BY <4>1, TodoFacts
    <3>2. PICK x : x = Todo[<<a, k.to>>] \cup Remote!WritesOf(a, n, k)
      OBVIOUS
    <3>3. x = Todo'[<<a, k.to>>]
      <4>1. Remaining(a, k.to)' = Remaining(a, k.to) \cup Remote!WritesOf(a, n, k)
        BY <1>4, <1>6, <2>1
      <4> QED
        BY <1>4, <3>2, <4>1, TodoFacts
    <3>4. SameBut(Todo, Todo', a, k.to)
      BY <3>1 DEF SameBut
    <3>5. Todo' = [Todo EXCEPT ![<<a, k.to>>] = x]
      BY <1>4, <3>3, <3>4, TodoFacts, PairsExcept
    <3> QED
      BY <2>1, <3>2, <3>5
  <2>2. CASE k.len \notin 1 .. MaxBurst
    <3>1. ASSUME NEW c \in Cores, NEW d \in Cores
          PROVE  Todo'[<<c, d>>] = Todo[<<c, d>>]
      <4>1. Remaining(c, d)' = Remaining(c, d)
        BY <1>6, <2>2, SMTT(30)
      <4> QED
        BY <4>1, TodoFacts
    <3>2. SameOnPairs(Todo, Todo')
      BY <3>1 DEF SameOnPairs
    <3>3. Todo' = Todo
      BY <3>2, TodoFacts, PairsEqual
    <3> QED
      BY <2>2, <3>3
  <2> QED
    BY <2>1, <2>2
<1> QED
  BY <1>2, <1>3, <1>5, <1>7 DEF Remote!Call

\* The word in front of a word of a message is a word of the same call.
LEMMA WordInFront ==
  ASSUME NEW made \in Histories, NEW v \in WordsOf(made), v[3] > 1
  PROVE  \E x \in WordsOf(made) :
           /\ x # NoWord /\ x[1] = v[1] /\ x[2] = v[2] /\ x[3] = v[3] - 1
           /\ CallOf(made, x) = CallOf(made, v)
<1>1. /\ v \in Cores \X Nat \X Nat /\ v[2] \in 1 .. Len(made[v[1]])
      /\ v[3] \in 1 .. CallOf(made, v).len /\ CallOf(made, v).len <= MaxBurst
  BY InWordsOf
<1>2. PICK b \in Cores, m \in Nat, j \in Nat : b = v[1] /\ m = v[2] /\ j = v[3]
  BY <1>1
<1>3. PICK x : x = <<b, m, j - 1>>
  OBVIOUS
<1>4. x[1] = b /\ x[2] = m /\ x[3] = j - 1
  BY <1>3
<1>5. j - 1 \in Nat
  BY <1>2
<1>6. x \in Cores \X Nat \X Nat
  BY <1>3, <1>5
<1>7. CallOf(made, x) = CallOf(made, v)
  BY <1>2, <1>4 DEF CallOf
<1>8. x[3] \in 1 .. CallOf(made, x).len /\ CallOf(made, x).len <= MaxBurst
  <2>1. PICK len : len = CallOf(made, v).len
    OBVIOUS
  <2>2. len \in Nat
    <3>1. CallOf(made, v) \in Calls
      BY WordFacts
    <3> QED
      BY <2>1, <3>1, CallFacts
  <2>3. j - 1 \in 1 .. len
    BY <1>1, <1>2, <2>1, <2>2
  <2> QED
    BY <1>1, <1>4, <1>7, <2>1, <2>3
<1>9. x \in WordsOf(made)
  BY <1>1, <1>2, <1>4, <1>6, <1>8, InWordsOf
<1> QED
  BY <1>2, <1>4, <1>6, <1>7, <1>9, IsAWord

\* The first word to come behind the end of a message begins another.
LEMMA FirstBegins ==
  ASSUME NEW made \in Histories, NEW c, NEW d, NEW last \in {NoWord} \cup WordsOf(made),
         last # NoWord => last[1] = c, Open(made, last) = NoWord,
         NEW v \in Due(made, c, d, last),
         \A word \in Due(made, c, d, last) : word # v => Ahead(v, word)
  PROVE  ~(v[3] > 1)
<1> SUFFICES ASSUME v[3] > 1 PROVE FALSE
  OBVIOUS
<1>1. v \in WordsOf(made) /\ FromTo(made, v, c, d) /\ Behind(v, last)
  BY DEF Due
<1>2. PICK x \in WordsOf(made) :
           /\ x # NoWord /\ x[1] = v[1] /\ x[2] = v[2] /\ x[3] = v[3] - 1
           /\ CallOf(made, x) = CallOf(made, v)
  BY <1>1, WordInFront
<1>3. FromTo(made, x, c, d)
  BY <1>1, <1>2 DEF FromTo
<1>4. PICK m \in Nat, j \in Nat : m = v[2] /\ j = v[3]
  BY <1>1, InWordsOf
<1>5. ~Ahead(v, x) /\ x # v
  BY <1>2, <1>4 DEF Ahead
<1>6. ~Behind(x, last)
  BY <1>2, <1>3, <1>5 DEF Due
<1>7. last # NoWord /\ last \in WordsOf(made) /\ Ahead(last, v) /\ ~Ahead(last, x) /\ last[1] = c
  BY <1>1, <1>6 DEF Behind
<1>8. PICK p \in Nat, q \in Nat : p = last[2] /\ q = last[3]
  BY <1>7, InWordsOf
<1>9. p = m /\ q = j - 1
  <2>1. p < m \/ (p = m /\ q < j)
    BY <1>4, <1>7, <1>8 DEF Ahead
  <2>2. ~(p < m \/ (p = m /\ q < j - 1))
    BY <1>2, <1>4, <1>7, <1>8 DEF Ahead
  <2> QED
    BY <2>1, <2>2
<1>10. CallOf(made, last) = CallOf(made, v)
  BY <1>1, <1>4, <1>7, <1>8, <1>9 DEF CallOf, FromTo
<1>11. Left(made, last) # 0
  <2>1. PICK len \in Nat : len = CallOf(made, v).len
    BY <1>1, WordFacts, CallFacts
  <2>2. j \in 1 .. len
    BY <1>1, <1>4, <2>1, InWordsOf
  <2>3. Left(made, last) = len - (j - 1)
    BY <1>8, <1>9, <1>10, <2>1 DEF Left
  <2> QED
    BY <2>2, <2>3
<1> QED
  BY <1>7, <1>11 DEF Open

LEMMA RequestIsWrite ==
  ASSUME Inner, InLine, NEW e \in Cores, requestFE(e)
  PROVE  \E c \in Cores : Remote!Write(c, e)
<1>1. outgoing[e] # <<>>
  BY DEF requestFE
<1>2. PICK w \in WordsOf(calls) :
           /\ w = Head(outgoing[e]).word /\ w[1] \in Cores
           /\ FromTo(calls, w, w[1], e) /\ AddressOf(calls, w) = Head(outgoing[e]).addr
           /\ FrontOf(w) = Open(calls, latest[e])
           /\ Lost(Asked(outgoing[e]), Asked(Tail(outgoing[e])))
           /\ Asked(outgoing[e])[1] = w
  BY <1>1, FirstRequest
<1>3. PICK c \in Cores : c = w[1]
  BY <1>2
<1>4. PICK req : req = Head(outgoing[e])
  OBVIOUS
<1>5. /\ landed' = [landed EXCEPT ![<<c, e>>] = w]
      /\ outgoing' = [outgoing EXCEPT ![e] = Tail(outgoing[e])]
      /\ bram' = [bram EXCEPT ![e] = [a \in DOMAIN @ \cup {req.addr} |->
                                        IF a = req.addr THEN req.word ELSE @[a]]]
      /\ calls' = calls
  BY <1>2, <1>3, <1>4 DEF requestFE, sendVars
<1>6. IsFirst(calls, c, e, landed[<<c, e>>], w)
  <2>1. PICK t : /\ t = Trail(c, e)
                 /\ t[1] = Asked(outgoing[e]) /\ t[2] = Carried(incoming[e], 0)
                 /\ t[3] = Carried(net[<<c, e>>], 0) /\ t[4] = Carried(outgoingFlits[c], 0)
                 /\ t[5] = Carried(bspQueue[c], Sent(c))
                 /\ IsTrail(calls, t) /\ InOrder(calls, t, c, e, landed[<<c, e>>])
                 /\ \A p \in 1 .. 5 : Len(t[p]) \in Nat
    BY TrailNow
  <2>2. PICK u : u = <<Asked(Tail(outgoing[e])), t[2], t[3], t[4], t[5]>>
    OBVIOUS
  <2>3. u[1] = Asked(Tail(outgoing[e])) /\ u[2] = t[2] /\ u[3] = t[3] /\ u[4] = t[4] /\ u[5] = t[5]
    BY <2>2
  <2>4. Lost(t[1], u[1]) /\ RestSame(t, u)
    BY <1>2, <2>1, <2>3, SameSelf DEF RestSame
  <2> QED
    BY <1>1, <1>2, <1>3, <2>1, <2>4, WordLands
<1>7. /\ w \in Due(calls, c, e, landed[<<c, e>>])
      /\ Due(calls, c, e, w) = Due(calls, c, e, landed[<<c, e>>]) \ {w}
      /\ \A word \in Due(calls, c, e, w) : Ahead(w, word)
  BY <1>6 DEF IsFirst
<1>8. PICK write : write = [addr |-> AddressOf(calls, w), word |-> w]
  OBVIOUS
<1>9. write.addr = req.addr /\ write.word = w /\ req.word = w
  BY <1>2, <1>4, <1>8
<1>10. \A d \in Cores : \A o \in Cores :
         Todo[<<o, d>>] = {[addr |-> AddressOf(calls, word), word |-> word] :
                              word \in Due(calls, o, d, landed[<<o, d>>])}
  BY TodoFacts DEF Remaining
<1>11. write \in Todo[<<c, e>>]
  BY <1>7, <1>8, <1>10
<1>12. Remote!IsNext(write, Todo[<<c, e>>])
  <2> SUFFICES ASSUME NEW other \in Todo[<<c, e>>], other # write
               PROVE  Remote!Ahead(write.word, other.word)
    BY <1>11 DEF Remote!IsNext
  <2>1. PICK v \in Due(calls, c, e, landed[<<c, e>>]) :
           other = [addr |-> AddressOf(calls, v), word |-> v]
    BY <1>10
  <2>2. v # w /\ other.word = v
    BY <1>8, <2>1
  <2>3. Ahead(w, v)
    BY <1>7, <2>2
  <2> QED
    BY <1>9, <2>2, <2>3 DEF Ahead, Remote!Ahead
<1>13. ASSUME NEW o \in Cores \ {c}
       PROVE  ~Remote!Amid(o, e)
  <2> SUFFICES ASSUME NEW first \in Todo[<<o, e>>], Remote!IsNext(first, Todo[<<o, e>>]),
                      first.word[3] > 1
               PROVE  FALSE
    BY DEF Remote!Amid
  <2>1. PICK last \in {NoWord} \cup WordsOf(calls) : last = landed[<<o, e>>]
    BY DEF InLine, LandedInOrder
  <2>2. last # NoWord => last[1] = o
    BY <2>1 DEF InLine, LandedInOrder, FromTo
  <2>3. Open(calls, last) = NoWord
    BY <1>2, <1>3, <2>1, OthersClosed
  <2>4. PICK v \in Due(calls, o, e, last) : first = [addr |-> AddressOf(calls, v), word |-> v]
    BY <1>10, <2>1
  <2>5. ASSUME NEW word \in Due(calls, o, e, last), word # v
        PROVE  Ahead(v, word)
    <3>1. PICK other : other = [addr |-> AddressOf(calls, word), word |-> word]
      OBVIOUS
    <3>2. other \in Todo[<<o, e>>] /\ other.word = word /\ first.word = v /\ other # first
      BY <1>10, <2>1, <2>4, <2>5, <3>1
    <3>3. Remote!Ahead(first.word, other.word)
      BY <3>2 DEF Remote!IsNext
    <3> QED
      BY <3>2, <3>3 DEF Ahead, Remote!Ahead
  <2>6. calls \in Histories
    BY CoreTypes
  <2>7. ~(v[3] > 1)
    BY <2>2, <2>3, <2>5, <2>6, FirstBegins
  <2> QED
    BY <2>4, <2>7
<1>14. bram' = [bram EXCEPT ![e] = [a \in DOMAIN @ \cup {write.addr} |->
                                      IF a = write.addr THEN write.word ELSE @[a]]]
  BY <1>5, <1>9
<1>15. Todo' = [Todo EXCEPT ![<<c, e>>] = @ \ {write}]
  <2>1. ASSUME NEW o \in Cores, NEW d \in Cores, o # c \/ d # e
        PROVE  Todo'[<<o, d>>] = Todo[<<o, d>>]
    <3>1. landed'[<<o, d>>] = landed[<<o, d>>]
      <4>1. <<o, d>> # <<c, e>>
        BY <2>1
      <4> QED
        BY <1>5, <4>1 DEF InLine
    <3>2. Remaining(o, d)' = Remaining(o, d)
      BY <1>5, <3>1 DEF Remaining
    <3> QED
      BY <3>2, TodoFacts
  <2>2. PICK x : x = Todo[<<c, e>>] \ {write}
    OBVIOUS
  <2>3. x = Todo'[<<c, e>>]
    <3>1. landed'[<<c, e>>] = w
      BY <1>5 DEF InLine
    <3>2. Todo'[<<c, e>>] = {[addr |-> AddressOf(calls, word), word |-> word] :
                               word \in Due(calls, c, e, w)}
      BY <1>5, <3>1, TodoFacts DEF Remaining
    <3>3. \A v, word : [addr |-> AddressOf(calls, v), word |-> v] =
                         [addr |-> AddressOf(calls, word), word |-> word] => v = word
      OBVIOUS
    <3>4. Todo[<<c, e>>] = {[addr |-> AddressOf(calls, word), word |-> word] :
                              word \in Due(calls, c, e, landed[<<c, e>>])}
      BY <1>10
    <3> QED
      BY <1>7, <1>8, <2>2, <3>2, <3>3, <3>4
  <2>4. SameBut(Todo, Todo', c, e)
    BY <2>1 DEF SameBut
  <2>5. Todo' = [Todo EXCEPT ![<<c, e>>] = x]
    BY <2>3, <2>4, TodoFacts, PairsExcept
  <2> QED
    BY <2>2, <2>5
<1>16. Called' = Called
  BY <1>5 DEF Called
<1> QED
  BY <1>11, <1>12, <1>13, <1>14, <1>15, <1>16 DEF Remote!Write

-----------------------------------------------------------------------------
\* A step of this module keeps the invariant, and is one of RemoteMemory's.

LEMMA StepKeeps ==
  ASSUME Inner, InLine, [Next]_vars
  PROVE  Inner' /\ InLine'
<1>1. CASE UNCHANGED vars
  BY <1>1, StutterStep, StutterInLine
<1>2. CASE Next
  <2>1. PICK c \in Cores : \/ \E k \in Calls : bsp_put(c, k)
                           \/ BeginSend(c) \/ SendFlit(c) \/ EndSend(c)
                           \/ corePut(c)
                           \/ \E d \in Cores : coreGet(c, d)
                           \/ handleHeadFlit(c) \/ handleBodyFlit(c) \/ requestFE(c)
    BY <1>2 DEF Next
  <2>2. CASE \E k \in Calls : bsp_put(c, k)
    BY <2>2, PutStep, PutInLine
  <2>3. CASE BeginSend(c)
    BY <2>3, BeginSendStep, BeginSendInLine
  <2>4. CASE SendFlit(c)
    BY <2>4, SendFlitStep, SendFlitInLine
  <2>5. CASE EndSend(c)
    BY <2>5, EndSendStep, EndSendInLine
  <2>6. CASE corePut(c)
    BY <2>6, corePutStep, corePutInLine
  <2>7. CASE \E d \in Cores : coreGet(c, d)
    BY <2>7, coreGetStep, coreGetInLine
  <2>8. CASE handleHeadFlit(c)
    BY <2>8, handleHeadFlitStep, handleHeadInLine
  <2>9. CASE handleBodyFlit(c)
    BY <2>9, handleBodyFlitStep, handleBodyInLine
  <2>10. CASE requestFE(c)
    BY <2>10, requestFEStep, requestFEInLine
  <2> QED
    BY <2>1, <2>2, <2>3, <2>4, <2>5, <2>6, <2>7, <2>8, <2>9, <2>10
<1> QED
  BY <1>1, <1>2

LEMMA StepImplements ==
  ASSUME Inner, InLine, [Next]_vars
  PROVE  [Remote!Next]_(Remote!vars)
<1>1. CASE UNCHANGED vars
  BY <1>1, RemoteStutter DEF vars, sendVars, memVars
<1>2. CASE Next
  <2>1. PICK c \in Cores : \/ \E k \in Calls : bsp_put(c, k)
                           \/ BeginSend(c) \/ SendFlit(c) \/ EndSend(c)
                           \/ corePut(c)
                           \/ \E d \in Cores : coreGet(c, d)
                           \/ handleHeadFlit(c) \/ handleBodyFlit(c) \/ requestFE(c)
    BY <1>2 DEF Next
  <2>2. CASE \E k \in Calls : bsp_put(c, k)
    BY <2>2, PutIsCall DEF Remote!Next
  <2>3. CASE BeginSend(c)
    BY <2>3, RemoteStutter DEF BeginSend, memVars
  <2>4. CASE SendFlit(c)
    BY <2>4, RemoteStutter DEF SendFlit, memVars
  <2>5. CASE EndSend(c)
    BY <2>5, RemoteStutter DEF EndSend, memVars
  <2>6. CASE corePut(c)
    BY <2>6, RemoteStutter DEF corePut, sendVars, memVars
  <2>7. CASE \E d \in Cores : coreGet(c, d)
    BY <2>7, RemoteStutter DEF coreGet, sendVars, memVars
  <2>8. CASE handleHeadFlit(c)
    BY <2>8, RemoteStutter DEF handleHeadFlit, sendVars, memVars
  <2>9. CASE handleBodyFlit(c)
    BY <2>9, RemoteStutter DEF handleBodyFlit, sendVars, memVars
  <2>10. CASE requestFE(c)
    BY <2>10, RequestIsWrite DEF Remote!Next
  <2> QED
    BY <2>1, <2>2, <2>3, <2>4, <2>5, <2>6, <2>7, <2>8, <2>9, <2>10
<1> QED
  BY <1>1, <1>2

-----------------------------------------------------------------------------
\* The theorems.

\* The inductive invariant holds in every state: messages are whole from the
\* queue in the sender's memory to the engine, no FIFO overflows, and the words
\* that are not written are on their way in the order of the calls.
THEOREM PutInvariant == Spec => []IInv
<1>1. Init => Inner /\ InLine
  BY InnerInit, InLineInit
<1>2. (Inner /\ InLine) /\ [Next]_vars => (Inner /\ InLine)'
  BY StepKeeps
<1>3. Inner /\ InLine => IInv
  BY EngineNeverComplainsNow DEF Inner, InLine, IInv, EngineInv
<1> QED
  BY <1>1, <1>2, <1>3, PTL DEF Spec

\* FlitEngine.bsv writes none of its three error messages: an idle engine is
\* given a HEAD, no HEAD comes before a TAIL, and at the TAIL the burst counter
\* has come down to 0.
THEOREM EngineIsNeverWrong == Spec => []EngineNeverComplains
<1>1. IInv => EngineNeverComplains
  BY DEF IInv, EngineInv
<1> QED
  BY <1>1, PutInvariant, PTL

\* Every word that port A of a core's memory has written for the network is in
\* the core and at the address that its call of bsp_put names.
THEOREM WordsLandWhereCalled == Spec => []WordsInPlace
<1>1. IInv => WordsInPlace
  BY DEF IInv
<1> QED
  BY <1>1, PutInvariant, PTL

\* Queue, FIFOs, network, engine and memory port implement RemoteMemory: each
\* word of each call is written once, where the call says, in the order of the
\* calls of its sender, and a message at a time.
THEOREM PutImplementsRemoteMemory == Spec => ImplementsRemoteMemory
<1>1. Init => Inner /\ InLine
  BY InnerInit, InLineInit
<1>2. (Inner /\ InLine) /\ [Next]_vars => (Inner /\ InLine)'
  BY StepKeeps
<1>3. (Inner /\ InLine) /\ [Next]_vars => [Remote!Next]_(Remote!vars)
  BY StepImplements
<1>4. Init => Remote!Init
  BY RemoteInit
<1> QED
  BY <1>1, <1>2, <1>3, <1>4, PTL DEF Spec, ImplementsRemoteMemory, Remote!Spec

=============================================================================
