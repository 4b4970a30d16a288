----------------------------- MODULE MeshProofs -----------------------------
(***************************************************************************)
(* Proofs about Mesh: messages arrive whole, in order and where they are   *)
(* to go, for all traffic and any depth of the buffers.                    *)
(***************************************************************************)
EXTENDS Mesh, TLAPS

-----------------------------------------------------------------------------
\* A core's number is that of its row and column.
LEMMA Coordinates ==
  ASSUME NEW c \in Routers
  PROVE  /\ rX(c) \in 0 .. 2 /\ rY(c) \in 0 .. 2 /\ c = 3 * rY(c) + rX(c)
         /\ getXCoordinate(c) = rX(c) /\ getYCoordinate(c) = rY(c)
  BY DEF Routers, n, rX, rY, getXCoordinate, getYCoordinate

LEMMA Number ==
  ASSUME NEW x \in 0 .. 2, NEW y \in 0 .. 2
  PROVE  /\ 3 * y + x \in Routers
         /\ rX(3 * y + x) = x /\ rY(3 * y + x) = y
  BY DEF Routers, n, rX, rY

\* On a line.
LEMMA StepsOnLine ==
  ASSUME NEW a \in 0 .. 2, NEW b \in 0 .. 2, NEW k \in Nat
  PROVE  /\ Apart(a, b) \in 0 .. 2
         /\ Steps(a, b, k) \in 0 .. 2
         /\ Steps(a, b, 0) = a
         /\ k >= Apart(a, b) => Steps(a, b, k) = b
         /\ k < Apart(a, b) => IF a < b THEN /\ Steps(a, b, k) = a + k /\ Steps(a, b, k) < b
                                             /\ Steps(a, b, k + 1) = Steps(a, b, k) + 1
                               ELSE /\ Steps(a, b, k) = a - k /\ Steps(a, b, k) > b
                                    /\ Steps(a, b, k + 1) = Steps(a, b, k) - 1
  BY DEF Apart, Steps

\* Where a way leads, in coordinates.
LEMMA WayFacts ==
  ASSUME NEW c \in Routers, NEW d \in Routers, NEW k \in Nat
  PROVE  /\ WayX(c, d, k) \in 0 .. 2 /\ WayY(c, d, k) \in 0 .. 2
         /\ Way(c, d, k) \in Routers
         /\ rX(Way(c, d, k)) = WayX(c, d, k) /\ rY(Way(c, d, k)) = WayY(c, d, k)
         /\ Hops(c, d) \in 0 .. 4
         /\ Exit(c, d, k) \in Ports
<1> DEFINE a == rX(c)  b == rX(d)  u == rY(c)  v == rY(d)
           j == IF k <= Apart(a, b) THEN 0 ELSE k - Apart(a, b)
<1>1. a \in 0 .. 2 /\ b \in 0 .. 2 /\ u \in 0 .. 2 /\ v \in 0 .. 2
  BY Coordinates
<1>2. Apart(a, b) \in 0 .. 2 /\ Apart(u, v) \in 0 .. 2
  BY <1>1, StepsOnLine
<1>3. j \in Nat
  BY <1>2
<1>4. WayX(c, d, k) = Steps(a, b, k) /\ WayY(c, d, k) = Steps(u, v, j)
  BY Coordinates DEF WayX, WayY
<1>5. Hops(c, d) = Apart(a, b) + Apart(u, v)
  BY Coordinates DEF Hops
<1>6. WayX(c, d, k) \in 0 .. 2 /\ WayY(c, d, k) \in 0 .. 2
  BY <1>1, <1>3, <1>4, StepsOnLine
<1>7. Way(c, d, k) = 3 * WayY(c, d, k) + WayX(c, d, k)
  BY DEF Way, n
<1>8. Exit(c, d, k) \in Ports
  BY DEF Exit, computeDestinationPort, Ports, dIdxEast, dIdxWest, dIdxSouth, dIdxNorth, dIdxLocal
<1> QED
  BY <1>2, <1>5, <1>6, <1>7, <1>8, Number

\* The part of a way along the row, and the part along the column.
LEMMA WayByParts ==
  ASSUME NEW c \in Routers, NEW d \in Routers, NEW k \in Nat
  PROVE  /\ k < Apart(rX(c), rX(d)) =>
              /\ k < Hops(c, d)
              /\ WayY(c, d, k) = rY(c) /\ WayY(c, d, k + 1) = rY(c)
              /\ IF rX(c) < rX(d)
                 THEN /\ WayX(c, d, k) = rX(c) + k /\ WayX(c, d, k + 1) = rX(c) + k + 1
                      /\ WayX(c, d, k) < rX(d) /\ Exit(c, d, k) = dIdxEast
                 ELSE /\ WayX(c, d, k) = rX(c) - k /\ WayX(c, d, k + 1) = rX(c) - k - 1
                      /\ WayX(c, d, k) > rX(d) /\ Exit(c, d, k) = dIdxWest
         /\ k >= Apart(rX(c), rX(d)) =>
              /\ WayX(c, d, k) = rX(d) /\ WayX(c, d, k + 1) = rX(d)
              /\ IF k < Hops(c, d)
                 THEN IF rY(c) < rY(d)
                 THEN /\ WayY(c, d, k) = rY(c) + (k - Apart(rX(c), rX(d)))
                      /\ WayY(c, d, k + 1) = WayY(c, d, k) + 1
                      /\ WayY(c, d, k) < rY(d) /\ Exit(c, d, k) = dIdxSouth
                 ELSE /\ WayY(c, d, k) = rY(c) - (k - Apart(rX(c), rX(d)))
                      /\ WayY(c, d, k + 1) = WayY(c, d, k) - 1
                      /\ WayY(c, d, k) > rY(d) /\ Exit(c, d, k) = dIdxNorth
                 ELSE /\ WayY(c, d, k) = rY(d) /\ Exit(c, d, k) = dIdxLocal
<1> DEFINE a == rX(c)  b == rX(d)  u == rY(c)  v == rY(d)  row == Apart(a, b)
           J(i) == IF i <= row THEN 0 ELSE i - row
<1>1. a \in 0 .. 2 /\ b \in 0 .. 2 /\ u \in 0 .. 2 /\ v \in 0 .. 2
  BY Coordinates
<1>2. row \in 0 .. 2 /\ Apart(u, v) \in 0 .. 2 /\ J(k) \in Nat /\ J(k + 1) \in Nat
  BY <1>1, StepsOnLine
<1>3. /\ WayX(c, d, k) = Steps(a, b, k) /\ WayY(c, d, k) = Steps(u, v, J(k))
      /\ WayX(c, d, k + 1) = Steps(a, b, k + 1) /\ WayY(c, d, k + 1) = Steps(u, v, J(k + 1))
  BY Coordinates DEF WayX, WayY
<1>4. Hops(c, d) = row + Apart(u, v)
  BY Coordinates DEF Hops
<1>5. Exit(c, d, k) = CASE b > WayX(c, d, k) -> dIdxEast
                        [] b < WayX(c, d, k) -> dIdxWest
                        [] b = WayX(c, d, k) /\ v > WayY(c, d, k) -> dIdxSouth
                        [] b = WayX(c, d, k) /\ v < WayY(c, d, k) -> dIdxNorth
                        [] OTHER -> dIdxLocal
  BY Coordinates DEF Exit, computeDestinationPort
<1>6. WayX(c, d, k) \in 0 .. 2 /\ WayY(c, d, k) \in 0 .. 2
  BY WayFacts
<1> HIDE DEF a, b, u, v, row
<1>7. CASE k < row
  <2>1. J(k) = 0 /\ J(k + 1) = 0
    BY <1>2, <1>7
  <2>2. WayY(c, d, k) = u /\ WayY(c, d, k + 1) = u
    BY <1>1, <1>3, <2>1, StepsOnLine
  <2>3. IF a < b THEN /\ Steps(a, b, k) = a + k /\ Steps(a, b, k) < b
                      /\ Steps(a, b, k + 1) = Steps(a, b, k) + 1
        ELSE /\ Steps(a, b, k) = a - k /\ Steps(a, b, k) > b
             /\ Steps(a, b, k + 1) = Steps(a, b, k) - 1
    BY <1>1, <1>7, StepsOnLine DEF row
  <2> QED
    BY <1>1, <1>2, <1>3, <1>4, <1>5, <1>6, <1>7, <2>2, <2>3 DEF a, b, u, v, row
<1>8. CASE k >= row
  <2>1. WayX(c, d, k) = b /\ WayX(c, d, k + 1) = b
    BY <1>1, <1>2, <1>3, <1>8, StepsOnLine DEF row
  <2>2. J(k) = k - row /\ J(k + 1) = J(k) + 1
    BY <1>2, <1>8
  <2>3. CASE k < Hops(c, d)
    <3>1. J(k) < Apart(u, v)
      BY <1>2, <1>4, <1>8, <2>2, <2>3
    <3>2. IF u < v THEN /\ Steps(u, v, J(k)) = u + J(k) /\ Steps(u, v, J(k)) < v
                        /\ Steps(u, v, J(k) + 1) = Steps(u, v, J(k)) + 1
          ELSE /\ Steps(u, v, J(k)) = u - J(k) /\ Steps(u, v, J(k)) > v
               /\ Steps(u, v, J(k) + 1) = Steps(u, v, J(k)) - 1
      BY <1>1, <1>2, <3>1, StepsOnLine
    <3> QED
      BY <1>1, <1>2, <1>3, <1>5, <1>6, <1>8, <2>1, <2>2, <2>3, <3>2 DEF a, b, u, v, row
  <2>4. CASE ~(k < Hops(c, d))
    <3>1. J(k) >= Apart(u, v)
      BY <1>2, <1>4, <1>8, <2>2, <2>4
    <3>2. WayY(c, d, k) = v
      BY <1>1, <1>2, <1>3, <3>1, StepsOnLine
    <3> QED
      BY <1>1, <1>2, <1>5, <1>8, <2>1, <2>4, <3>2 DEF a, b, u, v, row
  <2> QED
    BY <2>3, <2>4
<1>9. k < row \/ k >= row
  BY <1>2
<1> QED
  BY <1>7, <1>8, <1>9

LEMMA WayStart == ASSUME NEW c \in Routers, NEW d \in Routers PROVE Way(c, d, 0) = c
<1>1. WayX(c, d, 0) = rX(c) /\ WayY(c, d, 0) = rY(c)
  BY Coordinates, StepsOnLine DEF WayX, WayY
<1> QED
  BY <1>1, Coordinates DEF Way, n

LEMMA WayEnd ==
  ASSUME NEW c \in Routers, NEW d \in Routers
  PROVE  /\ Way(c, d, Hops(c, d)) = d
         /\ \A k \in 0 .. Hops(c, d) : Exit(c, d, k) = dIdxLocal <=> k = Hops(c, d)
<1>0. /\ rX(c) \in 0 .. 2 /\ rX(d) \in 0 .. 2 /\ rY(c) \in 0 .. 2 /\ rY(d) \in 0 .. 2
      /\ Hops(c, d) = Apart(rX(c), rX(d)) + Apart(rY(c), rY(d))
  BY Coordinates DEF Hops
<1>1. Hops(c, d) \in 0 .. 4 /\ Apart(rX(c), rX(d)) \in 0 .. 2 /\ Hops(c, d) >= Apart(rX(c), rX(d))
  BY <1>0, StepsOnLine
<1>2. WayX(c, d, Hops(c, d)) = rX(d) /\ WayY(c, d, Hops(c, d)) = rY(d)
  BY <1>1, WayByParts
<1>3. Way(c, d, Hops(c, d)) = d
  BY <1>2, Coordinates DEF Way, n
<1>4. ASSUME NEW k \in 0 .. Hops(c, d) PROVE Exit(c, d, k) = dIdxLocal <=> k = Hops(c, d)
  <2>1. k \in Nat
    BY <1>1
  <2> QED
    BY <1>1, <2>1, WayByParts DEF dIdxEast, dIdxWest, dIdxSouth, dIdxNorth, dIdxLocal
<1> QED
  BY <1>3, <1>4

\* Each hop is one link.
LEMMA WayStep ==
  ASSUME NEW c \in Routers, NEW d \in Routers, NEW k \in Nat, k < Hops(c, d)
  PROVE  /\ Way(c, d, k + 1) = Neighbour(Way(c, d, k), Exit(c, d, k))
         /\ Exit(c, d, k) \in 0 .. 3
<1>1. Hops(c, d) \in 0 .. 4 /\ Apart(rX(c), rX(d)) \in 0 .. 2
  BY WayFacts, Coordinates, StepsOnLine
<1>2. /\ WayX(c, d, k) \in 0 .. 2 /\ WayY(c, d, k) \in 0 .. 2
      /\ rX(c) \in 0 .. 2 /\ rX(d) \in 0 .. 2 /\ rY(c) \in 0 .. 2 /\ rY(d) \in 0 .. 2
  BY WayFacts, Coordinates
<1>3. Way(c, d, k) = 3 * WayY(c, d, k) + WayX(c, d, k)
      /\ Way(c, d, k + 1) = 3 * WayY(c, d, k + 1) + WayX(c, d, k + 1)
  BY DEF Way, n
<1>4. CASE k < Apart(rX(c), rX(d))
  BY <1>1, <1>2, <1>3, <1>4, WayByParts
     DEF Neighbour, n, dIdxEast, dIdxWest, dIdxSouth, dIdxNorth
<1>5. CASE k >= Apart(rX(c), rX(d))
  BY <1>1, <1>2, <1>3, <1>5, WayByParts
     DEF Neighbour, n, dIdxEast, dIdxWest, dIdxSouth, dIdxNorth
<1> QED
  BY <1>1, <1>4, <1>5

\* A way comes by a router once.
LEMMA WayOnce ==
  ASSUME NEW c \in Routers, NEW d \in Routers, NEW j \in 0 .. Hops(c, d), NEW k \in 0 .. Hops(c, d),
         Way(c, d, j) = Way(c, d, k)
  PROVE  j = k
<1>1. Hops(c, d) \in 0 .. 4 /\ Apart(rX(c), rX(d)) \in 0 .. 2
  BY WayFacts, Coordinates, StepsOnLine
<1>2. rX(c) \in 0 .. 2 /\ rX(d) \in 0 .. 2 /\ rY(c) \in 0 .. 2 /\ rY(d) \in 0 .. 2
  BY Coordinates
<1>3. j \in Nat /\ k \in Nat /\ j <= Hops(c, d) /\ k <= Hops(c, d)
  BY <1>1
<1>4. WayX(c, d, j) = WayX(c, d, k) /\ WayY(c, d, j) = WayY(c, d, k)
  BY <1>3, WayFacts
<1>5. Hops(c, d) = Apart(rX(c), rX(d)) + Apart(rY(c), rY(d))
  BY Coordinates DEF Hops
<1>6. \A i \in {j, k} :
        /\ i < Apart(rX(c), rX(d)) =>
             IF rX(c) < rX(d) THEN WayX(c, d, i) = rX(c) + i /\ WayX(c, d, i) < rX(d)
             ELSE WayX(c, d, i) = rX(c) - i /\ WayX(c, d, i) > rX(d)
        /\ i >= Apart(rX(c), rX(d)) =>
             /\ WayX(c, d, i) = rX(d)
             /\ IF rY(c) < rY(d) THEN WayY(c, d, i) = rY(c) + (i - Apart(rX(c), rX(d)))
                ELSE WayY(c, d, i) = rY(c) - (i - Apart(rX(c), rX(d)))
  <2> SUFFICES ASSUME NEW i \in {j, k}
               PROVE  /\ i < Apart(rX(c), rX(d)) =>
                           IF rX(c) < rX(d) THEN WayX(c, d, i) = rX(c) + i /\ WayX(c, d, i) < rX(d)
                           ELSE WayX(c, d, i) = rX(c) - i /\ WayX(c, d, i) > rX(d)
                      /\ i >= Apart(rX(c), rX(d)) =>
                           /\ WayX(c, d, i) = rX(d)
                           /\ IF rY(c) < rY(d) THEN WayY(c, d, i) = rY(c) + (i - Apart(rX(c), rX(d)))
                              ELSE WayY(c, d, i) = rY(c) - (i - Apart(rX(c), rX(d)))
    OBVIOUS
  <2>1. i \in Nat /\ i <= Hops(c, d)
    BY <1>3
  <2>2. CASE i < Hops(c, d)
    BY <1>1, <1>2, <2>1, <2>2, WayByParts
  <2>3. CASE i = Hops(c, d)
    BY <1>1, <1>2, <1>5, <2>1, <2>3, WayByParts DEF Apart
  <2> QED
    BY <1>1, <2>1, <2>2, <2>3
<1> QED
  BY <1>1, <1>2, <1>3, <1>4, <1>6

\* The link by which a router is entered tells where from, and by what port.
LEMMA WayBack ==
  ASSUME NEW c \in Routers, NEW d \in Routers, NEW j \in Nat, j < Hops(c, d),
         NEW e \in Routers, NEW f \in Routers, NEW k \in Nat, k < Hops(e, f),
         Way(c, d, j + 1) = Way(e, f, k + 1),
         Entry(c, d, j + 1) = Entry(e, f, k + 1)
  PROVE  Way(c, d, j) = Way(e, f, k) /\ Exit(c, d, j) = Exit(e, f, k)
<1>1. Exit(c, d, j) \in 0 .. 3 /\ Exit(e, f, k) \in 0 .. 3
  BY WayStep
<1>2. Opposite(Exit(c, d, j)) = Opposite(Exit(e, f, k))
  BY DEF Entry
<1>3. Exit(c, d, j) = Exit(e, f, k)
  BY <1>1, <1>2 DEF Opposite
<1>4. Neighbour(Way(c, d, j), Exit(c, d, j)) = Neighbour(Way(e, f, k), Exit(c, d, j))
  BY <1>3, WayStep
<1>5. Way(c, d, j) \in Int /\ Way(e, f, k) \in Int
  BY WayFacts DEF Routers, n
<1>6. Way(c, d, j) = Way(e, f, k)
  BY <1>1, <1>4, <1>5 DEF Neighbour, n, dIdxEast, dIdxWest, dIdxSouth, dIdxNorth
<1> QED
  BY <1>3, <1>6

LEMMA EntryFacts ==
  ASSUME NEW c \in Routers, NEW d \in Routers, NEW k \in 0 .. Hops(c, d)
  PROVE  Entry(c, d, k) \in Ports /\ (Entry(c, d, k) = dIdxLocal <=> k = 0)
<1>1. CASE k = 0
  BY <1>1 DEF Entry, Ports, dIdxLocal
<1>2. CASE k # 0
  <2>0. Hops(c, d) \in 0 .. 4
    BY WayFacts
  <2>1. k - 1 \in Nat /\ k - 1 < Hops(c, d)
    BY <1>2, <2>0
  <2>2. Exit(c, d, k - 1) \in 0 .. 3
    BY <2>1, WayStep
  <2> QED
    BY <1>2, <2>2 DEF Entry, Opposite, Ports, dIdxLocal
<1> QED
  BY <1>1, <1>2

LEMMA HopsFew == ASSUME NEW c \in Routers, NEW d \in Routers
                 PROVE  Hops(c, d) \in 0 .. 4 /\ Arrived(c, d) = 3 * Hops(c, d) + 4
  BY WayFacts DEF Arrived

-----------------------------------------------------------------------------
\* The places on a way.
LEMMA PlaceValues ==
  ASSUME NEW c \in Routers, NEW d \in Routers
  PROVE  /\ Place(c, d, 0) = <<"todo", c, dIdxLocal>>
         /\ Place(c, d, Arrived(c, d)) = <<"got", d, dIdxLocal>>
         /\ \A k \in 0 .. Hops(c, d) :
              /\ Place(c, d, ToBuffer(k)) = <<"buffer", Way(c, d, k), Entry(c, d, k)>>
              /\ Place(c, d, ToSlot(k)) = <<"slot", Way(c, d, k), Exit(c, d, k)>>
              /\ Place(c, d, ToLatch(k)) = <<"latch", Way(c, d, k), Exit(c, d, k)>>
<1>1. Hops(c, d) \in 0 .. 4 /\ Arrived(c, d) = 3 * Hops(c, d) + 4
  BY HopsFew
<1>2. Place(c, d, 0) = <<"todo", c, dIdxLocal>>
  BY DEF Place
<1>3. Place(c, d, Arrived(c, d)) = <<"got", d, dIdxLocal>>
  BY <1>1 DEF Place
<1>4. ASSUME NEW k \in 0 .. Hops(c, d)
      PROVE  /\ Place(c, d, ToBuffer(k)) = <<"buffer", Way(c, d, k), Entry(c, d, k)>>
             /\ Place(c, d, ToSlot(k)) = <<"slot", Way(c, d, k), Exit(c, d, k)>>
             /\ Place(c, d, ToLatch(k)) = <<"latch", Way(c, d, k), Exit(c, d, k)>>
  <2>1. k \in 0 .. 4 /\ k <= Hops(c, d)
    BY <1>1
  <2>2. /\ (ToBuffer(k) - 1) \div 3 = k /\ (ToSlot(k) - 1) \div 3 = k
        /\ (ToLatch(k) - 1) \div 3 = k
    BY <2>1 DEF ToBuffer, ToSlot, ToLatch
  <2>3. /\ ToBuffer(k) # 0 /\ ToSlot(k) # 0 /\ ToLatch(k) # 0
        /\ ToBuffer(k) # Arrived(c, d) /\ ToSlot(k) # Arrived(c, d) /\ ToLatch(k) # Arrived(c, d)
        /\ ToSlot(k) # ToBuffer(k) /\ ToLatch(k) # ToBuffer(k) /\ ToLatch(k) # ToSlot(k)
    BY <1>1, <2>1 DEF ToBuffer, ToSlot, ToLatch
  <2> QED
    BY <2>2, <2>3 DEF Place
<1> QED
  BY <1>2, <1>3, <1>4

LEMMA StepKinds ==
  ASSUME NEW c \in Routers, NEW d \in Routers, NEW s \in 0 .. Arrived(c, d)
  PROVE  \/ s = 0
         \/ s = Arrived(c, d)
         \/ \E k \in 0 .. Hops(c, d) : s \in {ToBuffer(k), ToSlot(k), ToLatch(k)}
<1>1. Hops(c, d) \in 0 .. 4 /\ Arrived(c, d) = 3 * Hops(c, d) + 4
  BY HopsFew
<1>2. CASE s # 0 /\ s # Arrived(c, d)
  <2> DEFINE k == (s - 1) \div 3
  <2>1. s \in Nat /\ s >= 1 /\ s <= 3 * Hops(c, d) + 3
    BY <1>1, <1>2
  <2>2. k \in 0 .. Hops(c, d) /\ s \in {3 * k + 1, 3 * k + 2, 3 * k + 3}
    BY <1>1, <2>1
  <2> QED
    BY <2>2 DEF ToBuffer, ToSlot, ToLatch
<1> QED
  BY <1>2

\* What a place tells of the step that leads there.
TellsStep(c, d, s) ==
  /\ Place(c, d, s) \in Places
  /\ Place(c, d, s)[1] = "todo" => s = 0 /\ Place(c, d, s)[2] = c
  /\ Place(c, d, s)[1] = "got" => s = Arrived(c, d) /\ Place(c, d, s)[2] = d
  /\ Place(c, d, s)[1] = "buffer" =>
       \E k \in 0 .. Hops(c, d) : s = ToBuffer(k) /\ Place(c, d, s)[2] = Way(c, d, k)
                                    /\ Place(c, d, s)[3] = Entry(c, d, k)
  /\ Place(c, d, s)[1] = "slot" =>
       \E k \in 0 .. Hops(c, d) : s = ToSlot(k) /\ Place(c, d, s)[2] = Way(c, d, k)
                                    /\ Place(c, d, s)[3] = Exit(c, d, k)
  /\ Place(c, d, s)[1] = "latch" =>
       \E k \in 0 .. Hops(c, d) : s = ToLatch(k) /\ Place(c, d, s)[2] = Way(c, d, k)
                                    /\ Place(c, d, s)[3] = Exit(c, d, k)

LEMMA StepOfPlace ==
  ASSUME NEW c \in Routers, NEW d \in Routers, NEW s \in 0 .. Arrived(c, d)
  PROVE  TellsStep(c, d, s)
<1>1. dIdxLocal \in Ports
  BY DEF dIdxLocal, Ports
<1>2. CASE s = 0
  BY <1>1, <1>2, PlaceValues DEF Places, TellsStep
<1>3. CASE s = Arrived(c, d)
  BY <1>1, <1>3, PlaceValues DEF Places, TellsStep
<1>4. ASSUME NEW k \in 0 .. Hops(c, d), s \in {ToBuffer(k), ToSlot(k), ToLatch(k)}
      PROVE  TellsStep(c, d, s)
  <2>1. Way(c, d, k) \in Routers /\ Exit(c, d, k) \in Ports /\ Entry(c, d, k) \in Ports
    BY HopsFew, WayFacts, EntryFacts
  <2>2. CASE s = ToBuffer(k)
    BY <2>1, <2>2, PlaceValues DEF Places, TellsStep
  <2>3. CASE s = ToSlot(k)
    BY <2>1, <2>3, PlaceValues DEF Places, TellsStep
  <2>4. CASE s = ToLatch(k)
    BY <2>1, <2>4, PlaceValues DEF Places, TellsStep
  <2> QED
    BY <1>4, <2>2, <2>3, <2>4
<1> QED
  BY <1>2, <1>3, <1>4, StepKinds

\* A way comes by a place once.
LEMMA PlaceOnce ==
  ASSUME NEW c \in Routers, NEW d \in Routers,
         NEW s \in 0 .. Arrived(c, d), NEW t \in 0 .. Arrived(c, d),
         Place(c, d, s) = Place(c, d, t)
  PROVE  s = t
<1>1. TellsStep(c, d, s) /\ TellsStep(c, d, t)
  BY StepOfPlace
<1>2. Place(c, d, s)[1] \in {"todo", "got", "buffer", "slot", "latch"}
  BY <1>1 DEF TellsStep, Places
<1>3. CASE Place(c, d, s)[1] \in {"todo", "got"}
  BY <1>1, <1>3 DEF TellsStep
<1>4. CASE Place(c, d, s)[1] = "buffer"
  <2>1. PICK j \in 0 .. Hops(c, d) : s = ToBuffer(j) /\ Place(c, d, s)[2] = Way(c, d, j)
    BY <1>1, <1>4 DEF TellsStep
  <2>2. PICK k \in 0 .. Hops(c, d) : t = ToBuffer(k) /\ Place(c, d, t)[2] = Way(c, d, k)
    BY <1>1, <1>4 DEF TellsStep
  <2>3. Way(c, d, j) = Way(c, d, k)
    BY <2>1, <2>2
  <2> QED
    BY <2>1, <2>2, <2>3, WayOnce
<1>5. CASE Place(c, d, s)[1] = "slot"
  <2>1. PICK j \in 0 .. Hops(c, d) : s = ToSlot(j) /\ Place(c, d, s)[2] = Way(c, d, j)
    BY <1>1, <1>5 DEF TellsStep
  <2>2. PICK k \in 0 .. Hops(c, d) : t = ToSlot(k) /\ Place(c, d, t)[2] = Way(c, d, k)
    BY <1>1, <1>5 DEF TellsStep
  <2>3. Way(c, d, j) = Way(c, d, k)
    BY <2>1, <2>2
  <2> QED
    BY <2>1, <2>2, <2>3, WayOnce
<1>6. CASE Place(c, d, s)[1] = "latch"
  <2>1. PICK j \in 0 .. Hops(c, d) : s = ToLatch(j) /\ Place(c, d, s)[2] = Way(c, d, j)
    BY <1>1, <1>6 DEF TellsStep
  <2>2. PICK k \in 0 .. Hops(c, d) : t = ToLatch(k) /\ Place(c, d, t)[2] = Way(c, d, k)
    BY <1>1, <1>6 DEF TellsStep
  <2>3. Way(c, d, j) = Way(c, d, k)
    BY <2>1, <2>2
  <2> QED
    BY <2>1, <2>2, <2>3, WayOnce
<1> QED
  BY <1>2, <1>3, <1>4, <1>5, <1>6

\* Where two ways come to a place they come from the same place, unless the
\* place is the crossbar.
LEMMA PlaceBack ==
  ASSUME NEW c \in Routers, NEW d \in Routers, NEW s \in 1 .. Arrived(c, d),
         NEW e \in Routers, NEW f \in Routers, NEW t \in 1 .. Arrived(e, f),
         Place(c, d, s) = Place(e, f, t), Place(c, d, s)[1] # "slot"
  PROVE  Place(c, d, s - 1) = Place(e, f, t - 1)
<1>0. /\ s \in 0 .. Arrived(c, d) /\ t \in 0 .. Arrived(e, f) /\ s # 0 /\ t # 0
      /\ Hops(c, d) \in 0 .. 4 /\ Hops(e, f) \in 0 .. 4
      /\ Arrived(c, d) = 3 * Hops(c, d) + 4 /\ Arrived(e, f) = 3 * Hops(e, f) + 4
  BY HopsFew
<1>1. TellsStep(c, d, s) /\ TellsStep(e, f, t)
  BY <1>0, StepOfPlace
<1>2. Place(c, d, s)[1] \in {"got", "buffer", "latch"}
  BY <1>0, <1>1 DEF TellsStep, Places
<1>3. CASE Place(c, d, s)[1] = "got"
  <2>1. s = Arrived(c, d) /\ t = Arrived(e, f) /\ d = f
    BY <1>1, <1>3 DEF TellsStep
  <2>2. s - 1 = ToLatch(Hops(c, d)) /\ t - 1 = ToLatch(Hops(e, f))
    BY <1>0, <2>1 DEF ToLatch
  <2>3. Hops(c, d) \in 0 .. Hops(c, d) /\ Hops(e, f) \in 0 .. Hops(e, f)
    BY <1>0
  <2>4. /\ Way(c, d, Hops(c, d)) = d /\ Exit(c, d, Hops(c, d)) = dIdxLocal
        /\ Way(e, f, Hops(e, f)) = f /\ Exit(e, f, Hops(e, f)) = dIdxLocal
    BY <2>3, WayEnd
  <2> QED
    BY <2>1, <2>2, <2>3, <2>4, PlaceValues
<1>4. CASE Place(c, d, s)[1] = "latch"
  <2>1. PICK j \in 0 .. Hops(c, d) : s = ToLatch(j) /\ Place(c, d, s)[2] = Way(c, d, j)
                                       /\ Place(c, d, s)[3] = Exit(c, d, j)
    BY <1>1, <1>4 DEF TellsStep
  <2>2. PICK k \in 0 .. Hops(e, f) : t = ToLatch(k) /\ Place(e, f, t)[2] = Way(e, f, k)
                                       /\ Place(e, f, t)[3] = Exit(e, f, k)
    BY <1>1, <1>4 DEF TellsStep
  <2>3. s - 1 = ToSlot(j) /\ t - 1 = ToSlot(k)
    BY <2>1, <2>2 DEF ToLatch, ToSlot
  <2>4. Way(c, d, j) = Way(e, f, k) /\ Exit(c, d, j) = Exit(e, f, k)
    BY <2>1, <2>2
  <2>5. /\ Place(c, d, s - 1) = <<"slot", Way(c, d, j), Exit(c, d, j)>>
        /\ Place(e, f, t - 1) = <<"slot", Way(e, f, k), Exit(e, f, k)>>
    BY <2>3, PlaceValues
  <2> QED
    BY <2>4, <2>5
<1>5. CASE Place(c, d, s)[1] = "buffer"
  <2>1. PICK j \in 0 .. Hops(c, d) : s = ToBuffer(j) /\ Place(c, d, s)[2] = Way(c, d, j)
                                       /\ Place(c, d, s)[3] = Entry(c, d, j)
    BY <1>1, <1>5 DEF TellsStep
  <2>2. PICK k \in 0 .. Hops(e, f) : t = ToBuffer(k) /\ Place(e, f, t)[2] = Way(e, f, k)
                                       /\ Place(e, f, t)[3] = Entry(e, f, k)
    BY <1>1, <1>5 DEF TellsStep
  <2>3. Way(c, d, j) = Way(e, f, k) /\ Entry(c, d, j) = Entry(e, f, k)
    BY <2>1, <2>2
  <2>4. j = 0 <=> k = 0
    BY <2>3, EntryFacts
  <2>5. CASE j = 0
    <3>1. s - 1 = 0 /\ t - 1 = 0
      BY <2>1, <2>2, <2>4, <2>5 DEF ToBuffer
    <3>2. c = e
      BY <2>3, <2>4, <2>5, WayStart
    <3> QED
      BY <3>1, <3>2, PlaceValues
  <2>6. CASE j # 0
    <3>1. /\ j - 1 \in Nat /\ j - 1 < Hops(c, d) /\ k - 1 \in Nat /\ k - 1 < Hops(e, f)
          /\ j - 1 \in 0 .. Hops(c, d) /\ k - 1 \in 0 .. Hops(e, f)
          /\ (j - 1) + 1 = j /\ (k - 1) + 1 = k
      BY <1>0, <2>4, <2>6
    <3>2. Way(c, d, j - 1) = Way(e, f, k - 1) /\ Exit(c, d, j - 1) = Exit(e, f, k - 1)
      BY <2>3, <3>1, WayBack
    <3>3. s - 1 = ToLatch(j - 1) /\ t - 1 = ToLatch(k - 1)
      BY <2>1, <2>2 DEF ToBuffer, ToLatch
    <3>4. /\ Place(c, d, s - 1) = <<"latch", Way(c, d, j - 1), Exit(c, d, j - 1)>>
          /\ Place(e, f, t - 1) = <<"latch", Way(e, f, k - 1), Exit(e, f, k - 1)>>
      BY <3>1, <3>3, PlaceValues
    <3> QED
      BY <3>2, <3>4
  <2> QED
    BY <2>5, <2>6
<1> QED
  BY <1>2, <1>3, <1>4, <1>5

-----------------------------------------------------------------------------
\* The flits of the traffic.
LEMMA FlitFacts ==
  ASSUME traffic \in Traffics
  PROVE  /\ \A flit \in Flits : /\ flit \in Flit
                                /\ flit.src \in Routers /\ flit.core \in Routers
                                /\ flit.number \in 1 .. Len(traffic[flit.src])
                                /\ flit = traffic[flit.src][flit.number]
         /\ \A c \in Routers : /\ traffic[c] \in Seq(Flits)
                               /\ IsMessages(traffic[c], c)
                               /\ \A i \in 1 .. Len(traffic[c]) : traffic[c][i] \in Flits
<1>1. \A c \in Routers : traffic[c] \in Seq(Flit) /\ IsMessages(traffic[c], c)
  BY MeshAssumption
<1>2. ASSUME NEW c \in Routers
      PROVE  /\ Range(traffic[c]) = {traffic[c][i] : i \in 1 .. Len(traffic[c])}
             /\ \A i \in 1 .. Len(traffic[c]) : traffic[c][i] \in Flit /\ traffic[c][i] \in Flits
  <2>1. traffic[c] \in Seq(Flit)
    BY <1>1
  <2>2. DOMAIN traffic[c] = 1 .. Len(traffic[c])
    BY <2>1
  <2>3. Range(traffic[c]) = {traffic[c][i] : i \in 1 .. Len(traffic[c])}
    BY <2>2 DEF Range
  <2> QED
    BY <2>1, <2>3 DEF Flits
<1>3. ASSUME NEW flit \in Flits
      PROVE  /\ flit \in Flit
             /\ flit.src \in Routers /\ flit.core \in Routers
             /\ flit.number \in 1 .. Len(traffic[flit.src])
             /\ flit = traffic[flit.src][flit.number]
  <2>1. PICK c \in Routers : flit \in Range(traffic[c])
    BY DEF Flits
  <2>2. PICK i \in 1 .. Len(traffic[c]) : flit = traffic[c][i]
    BY <1>2, <2>1
  <2>3. flit \in Flit
    BY <1>2, <2>2
  <2>4. flit.src = c /\ flit.number = i
    BY <1>1, <2>2 DEF IsMessages
  <2> QED
    BY <2>2, <2>3, <2>4 DEF Flit
<1>4. ASSUME NEW c \in Routers PROVE traffic[c] \in Seq(Flits)
  <2>1. traffic[c] \in Seq(Flit) /\ \A i \in 1 .. Len(traffic[c]) : traffic[c][i] \in Flits
    BY <1>1, <1>2
  <2> QED
    BY <2>1
<1> QED
  BY <1>1, <1>2, <1>3, <1>4

\* The flits before and behind one in its message.
LEMMA FollowsFacts ==
  ASSUME traffic \in Traffics, NEW l \in Flits, NEW e \in Flits, Follows(l, e)
  PROVE  /\ l.src = e.src /\ l.core = e.core /\ l.number = e.number + 1 /\ l # e
         /\ e.flitType # "TAIL" /\ l.flitType # "HEAD"
         /\ \A m \in Flits : Follows(m, e) => m = l
         /\ \A m \in Flits : Follows(l, m) => m = e
<1>1. /\ l.src = e.src /\ l.number = e.number + 1 /\ l.flitType # "HEAD"
      /\ e.src \in Routers /\ l.number \in 1 .. Len(traffic[e.src])
      /\ e.number \in 1 .. Len(traffic[e.src])
      /\ l = traffic[e.src][l.number] /\ e = traffic[e.src][e.number]
  BY FlitFacts DEF Follows
<1>2. IsMessages(traffic[e.src], e.src)
  BY <1>1, FlitFacts
<1>3. l.number # 1 /\ l.number - 1 = e.number
  BY <1>1
<1>4. l.core = e.core /\ e.flitType # "TAIL"
  BY <1>1, <1>2, <1>3 DEF IsMessages
<1>5. ASSUME NEW m \in Flits, Follows(m, e) PROVE m = l
  <2>1. m.src = e.src /\ m.number = e.number + 1 /\ m = traffic[m.src][m.number]
    BY <1>5, FlitFacts DEF Follows
  <2> QED
    BY <1>1, <2>1
<1>6. ASSUME NEW m \in Flits, Follows(l, m) PROVE m = e
  <2>1. /\ m.src = l.src /\ l.number = m.number + 1 /\ m = traffic[m.src][m.number]
        /\ m.number \in 1 .. Len(traffic[m.src])
    BY <1>6, FlitFacts DEF Follows
  <2>2. m.number = e.number
    BY <1>1, <2>1
  <2> QED
    BY <1>1, <2>1, <2>2
<1> QED
  BY <1>1, <1>3, <1>4, <1>5, <1>6

\* A message goes on until its TAIL, and back to its HEAD.
LEMMA Neighbours ==
  ASSUME traffic \in Traffics, NEW flit \in Flits
  PROVE  /\ flit.flitType # "TAIL" => \E l \in Flits : Follows(l, flit)
         /\ flit.flitType # "HEAD" => \E e \in Flits : Follows(flit, e)
<1> DEFINE s == traffic[flit.src]  i == flit.number
<1>1. flit.src \in Routers /\ i \in 1 .. Len(s) /\ flit = s[i] /\ s \in Seq(Flits)
      /\ IsMessages(s, flit.src) /\ \A j \in 1 .. Len(s) : s[j] \in Flits
  BY FlitFacts
<1>2. Len(s) \in Nat
  BY <1>1
<1>3. ASSUME flit.flitType # "TAIL" PROVE \E l \in Flits : Follows(l, flit)
  <2>1. i # Len(s)
    BY <1>1, <1>3 DEF IsMessages
  <2>2. i + 1 \in 1 .. Len(s) /\ i + 1 # 1 /\ (i + 1) - 1 = i
    BY <1>1, <1>2, <2>1
  <2>3. s[i + 1].flitType # "HEAD" /\ s[i + 1].src = flit.src /\ s[i + 1].number = i + 1
    BY <1>1, <1>3, <2>2 DEF IsMessages
  <2>4. s[i + 1] \in Flits /\ Follows(s[i + 1], flit)
    BY <1>1, <2>2, <2>3 DEF Follows
  <2> QED
    BY <2>4
<1>4. ASSUME flit.flitType # "HEAD" PROVE \E e \in Flits : Follows(flit, e)
  <2>1. i # 1
    BY <1>1, <1>4 DEF IsMessages
  <2>2. i - 1 \in 1 .. Len(s) /\ i = (i - 1) + 1
    BY <1>1, <1>2, <2>1
  <2>3. s[i - 1].src = flit.src /\ s[i - 1].number = i - 1
    BY <1>1, <2>2 DEF IsMessages
  <2>4. s[i - 1] \in Flits /\ Follows(flit, s[i - 1])
    BY <1>1, <1>4, <2>2, <2>3 DEF Follows
  <2> QED
    BY <2>4
<1> QED
  BY <1>3, <1>4

-----------------------------------------------------------------------------
\* A flit goes on from the head of the place where it is to the end of the
\* next.  (held and steps are what the places hold and the steps the flits
\* have made before, after and later what they are then.)
Advances(held, after, steps, later, flit, from, to) ==
  /\ steps[flit] + 1 \in 1 .. Arrived(flit.src, flit.core)
  /\ from = PlaceOf(flit, steps[flit]) /\ to = PlaceOf(flit, steps[flit] + 1)
  /\ held[from] # <<>> /\ Head(held[from]) = flit
  /\ \A place \in Places : after[place] = IF place = from THEN Tail(held[place])
                                          ELSE IF place = to THEN Append(held[place], flit)
                                          ELSE held[place]
  /\ later = [steps EXCEPT ![flit] = @ + 1]

Holds(held, steps) == /\ \A place \in Places : held[place] \in Seq(Flits)
                      /\ steps \in [Flits -> Nat]

\* The same, element by element.
Shifts(held, after, steps, later, flit, from, to) ==
  /\ from \in Places /\ to \in Places /\ from # to
  /\ \A place \in Places : Len(held[place]) \in Nat /\ Len(after[place]) \in Nat
  /\ \A place \in Places : \A i \in 1 .. Len(held[place]) : held[place][i] \in Flits
  /\ Len(held[from]) = Len(after[from]) + 1 /\ held[from][1] = flit
  /\ \A i \in 1 .. Len(after[from]) : after[from][i] = held[from][i + 1]
  /\ Len(after[to]) = Len(held[to]) + 1 /\ after[to][Len(held[to]) + 1] = flit
  /\ \A i \in 1 .. Len(held[to]) : after[to][i] = held[to][i]
  /\ \A place \in Places : place # from /\ place # to => after[place] = held[place]
  /\ later[flit] = steps[flit] + 1
  /\ \A other \in Flits : other # flit => later[other] = steps[other]
  /\ \A other \in Flits : steps[other] \in Nat /\ later[other] \in Nat

LEMMA WayOfFlit ==
  ASSUME traffic \in Traffics, NEW flit \in Flits
  PROVE  /\ Arrived(flit.src, flit.core) \in Nat
         /\ \A s \in 0 .. Arrived(flit.src, flit.core) : PlaceOf(flit, s) \in Places
         /\ \A s, t \in 0 .. Arrived(flit.src, flit.core) : PlaceOf(flit, s) = PlaceOf(flit, t) => s = t
         /\ \A other \in Flits : other.src = flit.src /\ other.core = flit.core =>
              /\ Arrived(other.src, other.core) = Arrived(flit.src, flit.core)
              /\ \A s \in Nat : PlaceOf(other, s) = PlaceOf(flit, s)
<1>1. flit.src \in Routers /\ flit.core \in Routers
  BY FlitFacts
<1>2. Arrived(flit.src, flit.core) \in Nat
  BY <1>1, HopsFew
<1>3. ASSUME NEW s \in 0 .. Arrived(flit.src, flit.core) PROVE PlaceOf(flit, s) \in Places
  BY <1>1, StepOfPlace DEF TellsStep, PlaceOf
<1>4. ASSUME NEW s \in 0 .. Arrived(flit.src, flit.core),
             NEW t \in 0 .. Arrived(flit.src, flit.core), PlaceOf(flit, s) = PlaceOf(flit, t)
      PROVE  s = t
  <2>1. Place(flit.src, flit.core, s) = Place(flit.src, flit.core, t)
    BY <1>4 DEF PlaceOf
  <2> QED
    BY <1>1, <2>1, PlaceOnce
<1> QED
  BY <1>2, <1>3, <1>4 DEF PlaceOf

LEMMA AdvanceShifts ==
  ASSUME traffic \in Traffics, NEW held, NEW after, NEW steps, NEW later, NEW flit \in Flits,
         NEW from, NEW to,
         Holds(held, steps), Advances(held, after, steps, later, flit, from, to)
  PROVE  Shifts(held, after, steps, later, flit, from, to) /\ Holds(after, later)
<1> DEFINE last == Arrived(flit.src, flit.core)
<1>1. steps[flit] \in 0 .. last /\ steps[flit] + 1 \in 0 .. last /\ steps[flit] \in Nat
  BY WayOfFlit DEF Advances, Holds
<1>2. from \in Places /\ to \in Places
  BY <1>1, WayOfFlit DEF Advances
<1>3. from # to
  <2>1. steps[flit] # steps[flit] + 1
    BY <1>1
  <2> QED
    BY <1>1, <2>1, WayOfFlit DEF Advances
<1>4. held[from] \in Seq(Flits) /\ held[from] # <<>> /\ held[from][1] = flit
  BY <1>2 DEF Advances, Holds
<1>5. /\ after[from] = Tail(held[from]) /\ after[to] = Append(held[to], flit)
      /\ \A place \in Places : place # from /\ place # to => after[place] = held[place]
  BY <1>2, <1>3 DEF Advances
<1>6. \A place \in Places : held[place] \in Seq(Flits)
  BY DEF Holds
<1>7. after[from] \in Seq(Flits) /\ after[to] \in Seq(Flits)
  BY <1>2, <1>4, <1>5, <1>6
<1>8. \A place \in Places : after[place] \in Seq(Flits)
  BY <1>5, <1>6, <1>7
<1>9. later \in [Flits -> Nat] /\ steps \in [Flits -> Nat]
      /\ later[flit] = steps[flit] + 1
      /\ \A other \in Flits : other # flit => later[other] = steps[other]
  BY DEF Advances, Holds
<1>10. /\ Len(held[from]) = Len(after[from]) + 1
       /\ \A i \in 1 .. Len(after[from]) : after[from][i] = held[from][i + 1]
  BY <1>4, <1>5
<1>11. /\ Len(after[to]) = Len(held[to]) + 1 /\ after[to][Len(held[to]) + 1] = flit
       /\ \A i \in 1 .. Len(held[to]) : after[to][i] = held[to][i]
  BY <1>2, <1>5, <1>6
<1>12. /\ \A place \in Places : Len(held[place]) \in Nat /\ Len(after[place]) \in Nat
       /\ \A place \in Places : \A i \in 1 .. Len(held[place]) : held[place][i] \in Flits
  BY <1>6, <1>8
<1>13. Shifts(held, after, steps, later, flit, from, to)
  BY <1>2, <1>3, <1>4, <1>5, <1>9, <1>10, <1>11, <1>12 DEF Shifts
<1>14. Holds(after, later)
  BY <1>8, <1>9 DEF Holds
<1> QED
  BY <1>13, <1>14

\* Every flit stays once in the mesh, where its steps have led it.
LEMMA AdvanceKeepsPlaces ==
  ASSUME traffic \in Traffics, NEW held, NEW after, NEW steps, NEW later, NEW flit \in Flits,
         NEW from, NEW to,
         Holds(held, steps), Advances(held, after, steps, later, flit, from, to),
         EachInPlace(held, steps)
  PROVE  EachInPlace(after, later)
<1>1. Shifts(held, after, steps, later, flit, from, to) /\ Holds(after, later)
  BY AdvanceShifts
<1>2. /\ steps[flit] + 1 \in 1 .. Arrived(flit.src, flit.core)
      /\ from = PlaceOf(flit, steps[flit]) /\ to = PlaceOf(flit, steps[flit] + 1)
  BY DEF Advances
<1>3. ASSUME NEW other \in Flits
      PROVE  /\ later[other] \in 0 .. Arrived(other.src, other.core)
             /\ \E i \in 1 .. Len(after[PlaceOf(other, later[other])]) :
                  after[PlaceOf(other, later[other])][i] = other
  <2>1. CASE other = flit
    <3>1. later[flit] = steps[flit] + 1 /\ Arrived(flit.src, flit.core) \in Nat
      BY <1>1, WayOfFlit DEF Shifts
    <3>2. Len(held[to]) + 1 \in 1 .. Len(after[to]) /\ after[to][Len(held[to]) + 1] = flit
      BY <1>1 DEF Shifts
    <3> QED
      BY <1>2, <2>1, <3>1, <3>2
  <2>2. CASE other # flit
    <3> DEFINE place == PlaceOf(other, steps[other])
    <3>1. later[other] = steps[other] /\ steps[other] \in 0 .. Arrived(other.src, other.core)
      BY <1>1, <2>2 DEF Shifts, EachInPlace
    <3>2. place \in Places
      BY <3>1, WayOfFlit
    <3>3. PICK i \in 1 .. Len(held[place]) : held[place][i] = other
      BY DEF EachInPlace
    <3>4. \E j \in 1 .. Len(after[place]) : after[place][j] = other
      <4>1. CASE place = from
        <5>1. i # 1
          BY <1>1, <2>2, <3>3, <4>1 DEF Shifts
        <5>2. i - 1 \in 1 .. Len(after[place]) /\ (i - 1) + 1 = i
          BY <1>1, <3>2, <4>1, <5>1 DEF Shifts
        <5>3. \A j \in 1 .. Len(after[from]) : after[from][j] = held[from][j + 1]
          BY <1>1 DEF Shifts
        <5>4. after[place][i - 1] = other
          BY <3>3, <4>1, <5>2, <5>3
        <5> QED
          BY <5>2, <5>4
      <4>2. CASE place = to
        <5>1. /\ Len(after[to]) = Len(held[to]) + 1 /\ Len(held[to]) \in Nat
              /\ \A j \in 1 .. Len(held[to]) : after[to][j] = held[to][j]
          BY <1>1 DEF Shifts
        <5>2. i \in 1 .. Len(after[to]) /\ after[to][i] = other
          BY <3>3, <4>2, <5>1
        <5> QED
          BY <4>2, <5>2
      <4>3. CASE place # from /\ place # to
        BY <1>1, <3>2, <3>3, <4>3 DEF Shifts
      <4> QED
        BY <4>1, <4>2, <4>3
    <3> QED
      BY <3>1, <3>4
  <2> QED
    BY <2>1, <2>2
<1>4. ASSUME NEW place \in Places, NEW i \in 1 .. Len(after[place])
      PROVE  /\ PlaceOf(after[place][i], later[after[place][i]]) = place
             /\ \A j \in 1 .. Len(after[place]) : after[place][i] = after[place][j] => i = j
  <2>1. CASE place = from
    <3>1. i + 1 \in 1 .. Len(held[from]) /\ after[place][i] = held[from][i + 1]
      BY <1>1, <2>1 DEF Shifts
    <3>2. held[from][i + 1] # flit /\ 1 \in 1 .. Len(held[from])
      BY <1>1, <2>1, <3>1, SMTT(30) DEF Shifts, EachInPlace
    <3>3. later[held[from][i + 1]] = steps[held[from][i + 1]]
      BY <1>1, <3>1, <3>2 DEF Shifts
    <3>4. \A j \in 1 .. Len(after[place]) : j + 1 \in 1 .. Len(held[from])
                                             /\ after[place][j] = held[from][j + 1]
      BY <1>1, <2>1 DEF Shifts
    <3>5. \A j \in 1 .. Len(after[place]) : held[from][i + 1] = held[from][j + 1] => i = j
      BY <1>1, <3>1, <3>4 DEF EachInPlace, Shifts
    <3> QED
      BY <1>1, <2>1, <3>1, <3>3, <3>4, <3>5 DEF EachInPlace, Shifts
  <2>2. CASE place = to
    <3>1. \A j \in 1 .. Len(held[to]) : held[to][j] # flit
      BY <1>1, <1>2 DEF EachInPlace, Shifts
    <3>2. \A j \in 1 .. Len(after[to]) : \/ j \in 1 .. Len(held[to]) /\ after[to][j] = held[to][j]
                                         \/ j = Len(held[to]) + 1 /\ after[to][j] = flit
      BY <1>1 DEF Shifts
    <3>3. \A j \in 1 .. Len(held[to]) : later[held[to][j]] = steps[held[to][j]]
                                        /\ PlaceOf(held[to][j], steps[held[to][j]]) = to
      BY <1>1, <3>1 DEF Shifts, EachInPlace
    <3>4. later[flit] = steps[flit] + 1
      BY <1>1 DEF Shifts
    <3>5. PlaceOf(after[to][i], later[after[to][i]]) = to
      BY <1>2, <2>2, <3>2, <3>3, <3>4
    <3>6. \A j \in 1 .. Len(after[to]) : after[to][i] = after[to][j] => i = j
      <4>1. to \in Places
        BY <1>1 DEF Shifts
      <4>2. \A j, k \in 1 .. Len(held[to]) : held[to][j] = held[to][k] => j = k
        BY <4>1 DEF EachInPlace
      <4> QED
        BY <2>2, <3>1, <3>2, <4>2
    <3> QED
      BY <2>2, <3>5, <3>6
  <2>3. CASE place # from /\ place # to
    <3>1. after[place] = held[place] /\ held[place][i] \in Flits
      BY <1>1, <2>3 DEF Shifts
    <3>2. held[place][i] # flit
      BY <1>2, <2>3, <3>1 DEF EachInPlace
    <3>3. later[held[place][i]] = steps[held[place][i]]
      BY <1>1, <3>1, <3>2 DEF Shifts
    <3> QED
      BY <3>1, <3>3 DEF EachInPlace
  <2> QED
    BY <2>1, <2>2, <2>3
<1> QED
  BY <1>3, <1>4 DEF EachInPlace

\* No flit overtakes.
LEMMA AdvanceKeepsOrder ==
  ASSUME traffic \in Traffics, NEW held, NEW after, NEW steps, NEW later, NEW flit \in Flits,
         NEW from, NEW to,
         Holds(held, steps), Advances(held, after, steps, later, flit, from, to),
         EachInPlace(held, steps), NoneOvertakes(held, steps)
  PROVE  NoneOvertakes(after, later)
<1>1. Shifts(held, after, steps, later, flit, from, to) /\ EachInPlace(after, later)
  BY AdvanceShifts, AdvanceKeepsPlaces
<1>2. /\ from = PlaceOf(flit, steps[flit]) /\ to = PlaceOf(flit, steps[flit] + 1)
      /\ steps[flit] \in Nat /\ later[flit] = steps[flit] + 1 /\ later[flit] \in Nat
  BY <1>1 DEF Advances, Shifts
<1> SUFFICES ASSUME NEW e \in Flits, NEW l \in Flits,
                    e.src = l.src /\ e.core = l.core /\ e.number < l.number
             PROVE  /\ later[l] <= later[e]
                    /\ later[l] = later[e] =>
                         \A i, j \in 1 .. Len(after[PlaceOf(e, later[e])]) :
                           /\ after[PlaceOf(e, later[e])][i] = e
                           /\ after[PlaceOf(e, later[e])][j] = l
                           => i < j
  BY DEF NoneOvertakes
<1>3. /\ e # l /\ steps[l] \in Nat /\ steps[e] \in Nat /\ steps[l] <= steps[e]
      /\ later[l] \in Nat /\ later[e] \in Nat
      /\ \A s \in Nat : PlaceOf(e, s) = PlaceOf(l, s)
  <2>1. e.number # l.number
    BY FlitFacts
  <2> QED
    BY <1>1, <2>1, WayOfFlit DEF Shifts, NoneOvertakes
<1>4. CASE l = flit
  <2>1. steps[e] # steps[l]
    <3> SUFFICES ASSUME steps[e] = steps[l] PROVE FALSE
      OBVIOUS
    <3>1. PlaceOf(e, steps[e]) = from
      BY <1>2, <1>3, <1>4
    <3>2. PICK i \in 1 .. Len(held[from]) : held[from][i] = e
      BY <3>1 DEF EachInPlace
    <3>3. 1 \in 1 .. Len(held[from]) /\ held[from][1] = l
      BY <1>1, <1>4 DEF Shifts
    <3>4. i < 1
      BY <3>1, <3>2, <3>3 DEF NoneOvertakes
    <3> QED
      BY <3>2, <3>4
  <2>2. later[e] = steps[e] /\ later[l] = steps[l] + 1
    BY <1>1, <1>3, <1>4 DEF Shifts
  <2>3. later[l] <= later[e]
    BY <1>3, <2>1, <2>2
  <2>4. ASSUME later[l] = later[e],
               NEW i \in 1 .. Len(after[PlaceOf(e, later[e])]),
               NEW j \in 1 .. Len(after[PlaceOf(e, later[e])]),
               after[PlaceOf(e, later[e])][i] = e, after[PlaceOf(e, later[e])][j] = l
        PROVE  i < j
    <3>1. PlaceOf(e, later[e]) = to
      BY <1>2, <1>3, <1>4, <2>2, <2>4
    <3>2. /\ to \in Places /\ Len(after[to]) = Len(held[to]) + 1 /\ Len(held[to]) \in Nat
          /\ after[to][Len(held[to]) + 1] = flit
      BY <1>1 DEF Shifts
    <3>3. Len(held[to]) + 1 \in 1 .. Len(after[to])
      BY <3>2
    <3>4. j = Len(held[to]) + 1
      BY <1>1, <1>4, <2>4, <3>1, <3>2, <3>3, SMTT(30) DEF EachInPlace
    <3>5. i # j
      BY <1>3, <2>4
    <3> QED
      BY <3>1, <3>2, <3>4, <3>5
  <2> QED
    BY <2>3, <2>4
<1>5. CASE e = flit
  <2>1. later[e] = steps[e] + 1 /\ later[l] = steps[l]
    BY <1>1, <1>3, <1>5 DEF Shifts
  <2> QED
    BY <1>3, <2>1
<1>6. CASE l # flit /\ e # flit
  <2>1. later[e] = steps[e] /\ later[l] = steps[l]
    BY <1>1, <1>6 DEF Shifts
  <2> DEFINE place == PlaceOf(e, steps[e])
  <2>2. place \in Places
    BY WayOfFlit DEF EachInPlace
  <2>3. ASSUME steps[l] = steps[e],
               NEW i \in 1 .. Len(after[place]), NEW j \in 1 .. Len(after[place]),
               after[place][i] = e, after[place][j] = l
        PROVE  i < j
    <3>1. \A m, k \in 1 .. Len(held[place]) : held[place][m] = e /\ held[place][k] = l => m < k
      BY <1>3, <2>3 DEF NoneOvertakes
    <3>2. CASE place = from
      <4>0. /\ Len(held[from]) = Len(after[from]) + 1 /\ Len(after[from]) \in Nat
            /\ \A k \in 1 .. Len(after[from]) : after[from][k] = held[from][k + 1]
        BY <1>1 DEF Shifts
      <4>1. /\ i + 1 \in 1 .. Len(held[place]) /\ j + 1 \in 1 .. Len(held[place])
            /\ held[place][i + 1] = e /\ held[place][j + 1] = l
        <5>1. /\ i \in 1 .. Len(after[from]) /\ after[from][i] = e
              /\ j \in 1 .. Len(after[from]) /\ after[from][j] = l
          BY <2>3, <3>2
        <5>2. i + 1 \in 1 .. Len(held[from]) /\ j + 1 \in 1 .. Len(held[from])
          BY <4>0, <5>1
        <5> QED
          BY <3>2, <4>0, <5>1, <5>2
      <4>2. i + 1 < j + 1
        BY <3>1, <4>1
      <4> QED
        BY <4>2
    <3>3. CASE place = to
      <4>1. /\ Len(after[to]) = Len(held[to]) + 1 /\ Len(held[to]) \in Nat
            /\ after[to][Len(held[to]) + 1] = flit
            /\ \A k \in 1 .. Len(held[to]) : after[to][k] = held[to][k]
        BY <1>1 DEF Shifts
      <4>2. i # Len(held[to]) + 1 /\ j # Len(held[to]) + 1
        BY <1>6, <2>3, <3>3, <4>1
      <4>3. i \in 1 .. Len(held[to]) /\ j \in 1 .. Len(held[to])
        BY <3>3, <4>1, <4>2
      <4> QED
        BY <2>3, <3>1, <3>3, <4>1, <4>3
    <3>4. CASE place # from /\ place # to
      <4>1. after[place] = held[place]
        BY <1>1, <2>2, <3>4 DEF Shifts
      <4> QED
        BY <2>3, <3>1, <4>1
    <3> QED
      BY <3>2, <3>3, <3>4
  <2> QED
    BY <1>3, <2>1, <2>3
<1> QED
  BY <1>4, <1>5, <1>6

\* What the place to which a flit goes is reserved for is only that flit, when
\* the flits of the message it is reserved for come from the same place.
OwnWay(steps, from, to) ==
  \A l, e \in Flits : Follows(l, e) =>
    \A s \in steps[l] + 1 .. steps[e] : PlaceOf(l, s) = to => PlaceOf(l, s - 1) = from

\* Where a place is reserved nobody comes to it but the flit it is for.
OthersKeepOut(steps, flit, to) ==
  \A l, e \in Flits : Follows(l, e) =>
    \A s \in steps[l] + 1 .. steps[e] : PlaceOf(l, s) = to => l = flit

LEMMA AdvanceIsFree ==
  ASSUME traffic \in Traffics, NEW held, NEW after, NEW steps, NEW later, NEW flit \in Flits,
         NEW from, NEW to,
         Holds(held, steps), Advances(held, after, steps, later, flit, from, to),
         EachInPlace(held, steps), Reserved(held, steps), NothingBetween(held, steps),
         OwnWay(steps, from, to)
  PROVE  OthersKeepOut(steps, flit, to)
<1> SUFFICES ASSUME NEW l \in Flits, NEW e \in Flits, Follows(l, e),
                    NEW s \in steps[l] + 1 .. steps[e], PlaceOf(l, s) = to
             PROVE  l = flit
  BY DEF OthersKeepOut
<1>1. Shifts(held, after, steps, later, flit, from, to)
  BY AdvanceShifts
<1>2. /\ l.src = e.src /\ l.core = e.core
      /\ steps[l] \in 0 .. Arrived(l.src, l.core) /\ steps[e] \in 0 .. Arrived(l.src, l.core)
      /\ Arrived(l.src, l.core) \in Nat
  BY FollowsFacts, WayOfFlit DEF EachInPlace
<1>3. /\ s - 1 \in 0 .. Arrived(l.src, l.core) /\ s - 1 < steps[e] /\ s - 1 >= steps[l]
      /\ s - 1 \in Nat
  BY <1>2
<1>4. PlaceOf(l, s - 1) = from /\ PlaceOf(e, s - 1) = from
  <2>1. PlaceOf(l, s - 1) = from
    BY DEF OwnWay
  <2> QED
    BY <1>2, <1>3, <2>1, WayOfFlit
<1>5. from \in Places /\ Len(held[from]) \in Nat /\ 1 \in 1 .. Len(held[from]) /\ held[from][1] = flit
  BY <1>1 DEF Shifts
<1>6. CASE steps[l] = s - 1
  <2>1. PICK i \in 1 .. Len(held[from]) : held[from][i] = l
    BY <1>4, <1>6 DEF EachInPlace
  <2>2. CASE i = 1
    BY <1>5, <2>1, <2>2
  <2>3. CASE i # 1
    <3>1. held[from][i - 1] = e /\ i - 1 \in 1 .. Len(held[from])
      BY <1>5, <2>1, <2>3 DEF NothingBetween
    <3>2. PlaceOf(e, steps[e]) = from
      BY <1>5, <3>1 DEF EachInPlace
    <3>3. steps[e] = s - 1
      BY <1>2, <1>3, <1>4, <3>2, WayOfFlit
    <3> QED
      BY <1>2, <1>3, <3>3
  <2> QED
    BY <2>2, <2>3
<1>7. CASE steps[l] # s - 1
  <2>1. s - 1 \in steps[l] + 1 .. steps[e]
    BY <1>2, <1>3, <1>7
  <2>2. held[PlaceOf(l, s - 1)] # <<>>
    BY <1>4 DEF Advances
  <2>3. steps[e] = s - 1
    BY <2>1, <2>2 DEF Reserved
  <2> QED
    BY <1>2, <1>3, <2>3
<1> QED
  BY <1>6, <1>7

LEMMA AdvanceKeepsReserved ==
  ASSUME traffic \in Traffics, NEW held, NEW after, NEW steps, NEW later, NEW flit \in Flits,
         NEW from, NEW to,
         Holds(held, steps), Advances(held, after, steps, later, flit, from, to),
         EachInPlace(held, steps), Reserved(held, steps), NothingBetween(held, steps),
         OwnWay(steps, from, to)
  PROVE  Reserved(after, later)
<1>1. Shifts(held, after, steps, later, flit, from, to) /\ Holds(after, later)
      /\ EachInPlace(after, later)
  BY AdvanceShifts, AdvanceKeepsPlaces
<1>2. /\ from = PlaceOf(flit, steps[flit]) /\ to = PlaceOf(flit, steps[flit] + 1)
      /\ steps[flit] \in Nat /\ later[flit] = steps[flit] + 1 /\ later[flit] \in Nat
  BY <1>1 DEF Advances, Shifts
<1> SUFFICES ASSUME NEW l \in Flits, NEW e \in Flits, Follows(l, e),
                    NEW s \in later[l] + 1 .. later[e], after[PlaceOf(l, s)] # <<>>
             PROVE  /\ later[e] = s
                    /\ after[PlaceOf(l, s)][Len(after[PlaceOf(l, s)])] = e
  BY DEF Reserved
<1> DEFINE place == PlaceOf(l, s)
<1>3. /\ l # e /\ l.src = e.src /\ l.core = e.core
      /\ steps[l] \in Nat /\ steps[e] \in Nat /\ later[l] \in Nat /\ later[e] \in Nat
      /\ steps[l] <= later[l] /\ steps[e] <= later[e]
      /\ later[e] \in 0 .. Arrived(l.src, l.core) /\ Arrived(l.src, l.core) \in Nat
      /\ \A t \in Nat : PlaceOf(e, t) = PlaceOf(l, t)
  <2>1. l # e /\ l.src = e.src /\ l.core = e.core
    BY FollowsFacts
  <2>2. /\ steps[l] \in Nat /\ steps[e] \in Nat /\ later[l] \in Nat /\ later[e] \in Nat
        /\ steps[l] <= later[l] /\ steps[e] <= later[e]
    BY <1>1, SMTT(30) DEF Shifts
  <2>3. later[e] \in 0 .. Arrived(l.src, l.core)
    BY <1>1, <2>1 DEF EachInPlace
  <2> QED
    BY <2>1, <2>2, <2>3, WayOfFlit
<1>4. s \in Nat /\ s \in 0 .. Arrived(l.src, l.core) /\ place \in Places
  BY <1>3, WayOfFlit
<1>5. held[place] \in Seq(Flits) /\ after[place] \in Seq(Flits)
  BY <1>1, <1>4 DEF Holds
<1>6. CASE flit = e
  <2>1. later[e] = steps[e] + 1 /\ later[l] = steps[l]
    BY <1>1, <1>3, <1>6 DEF Shifts
  <2>2. CASE s = later[e]
    <3>1. place = to
      BY <1>2, <1>3, <1>4, <1>6, <2>1, <2>2
    <3>2. Len(after[to]) = Len(held[to]) + 1 /\ after[to][Len(held[to]) + 1] = e
      BY <1>1, <1>6 DEF Shifts
    <3> QED
      BY <2>2, <3>1, <3>2
  <2>3. CASE s # later[e]
    <3>1. s \in steps[l] + 1 .. steps[e]
      BY <1>3, <2>1, <2>3
    <3>2. place # to
      <4>1. to = PlaceOf(l, later[e])
        BY <1>2, <1>3, <1>6, <2>1
      <4> QED
        BY <1>3, <1>4, <2>3, <4>1, WayOfFlit
    <3>3. CASE place = from
      <4>1. held[place] # <<>>
        BY <3>3 DEF Advances
      <4>2. held[place][Len(held[place])] = e
        BY <3>1, <4>1 DEF Reserved
      <4>3. /\ from \in Places /\ Len(held[from]) = Len(after[from]) + 1 /\ Len(after[from]) \in Nat
            /\ held[from][1] = e /\ 1 \in 1 .. Len(held[from])
            /\ Len(held[from]) \in 1 .. Len(held[from])
        BY <1>1, <1>6 DEF Shifts
      <4>4. \A i, j \in 1 .. Len(held[from]) : held[from][i] = held[from][j] => i = j
        BY <4>3 DEF EachInPlace
      <4>5. held[from][Len(held[from])] = e
        BY <3>3, <4>2
      <4>6. Len(held[from]) = 1
        BY <4>3, <4>4, <4>5
      <4>7. Len(held[from]) = Len(after[from]) + 1 /\ after[from] \in Seq(Flits)
        BY <1>5, <3>3, <4>3
      <4>8. \A seq \in Seq(Flits) : 1 = Len(seq) + 1 => seq = <<>>
        OBVIOUS
      <4>9. after[from] = <<>>
        BY <4>6, <4>7, <4>8
      <4> QED
        BY <3>3, <4>9
    <3>4. CASE place # from
      <4>1. held[place] # <<>>
        BY <1>1, <1>4, <3>2, <3>4 DEF Shifts
      <4>2. steps[e] = s
        BY <3>1, <4>1 DEF Reserved
      <4> QED
        BY <1>2, <1>3, <1>6, <3>4, <4>2
    <3> QED
      BY <3>3, <3>4
  <2> QED
    BY <2>2, <2>3
<1>7. CASE flit = l
  <2>1. later[l] = steps[l] + 1 /\ later[e] = steps[e]
    BY <1>1, <1>3, <1>7 DEF Shifts
  <2>2. s \in steps[l] + 1 .. steps[e] /\ s # steps[l] + 1 /\ s # steps[l]
    BY <1>3, <2>1
  <2>3. steps[l] \in 0 .. Arrived(l.src, l.core) /\ steps[l] + 1 \in 0 .. Arrived(l.src, l.core)
    BY <1>3, <1>4, <2>2
  <2>4. place # from /\ place # to
    BY <1>2, <1>4, <1>7, <2>2, <2>3, WayOfFlit
  <2>5. after[place] = held[place]
    BY <1>1, <1>4, <2>4 DEF Shifts
  <2> QED
    BY <2>1, <2>2, <2>5 DEF Reserved
<1>8. CASE flit # e /\ flit # l
  <2>1. later[e] = steps[e] /\ later[l] = steps[l]
    BY <1>1, <1>8 DEF Shifts
  <2>2. place # to
    <3>1. s \in steps[l] + 1 .. steps[e]
      BY <2>1
    <3> SUFFICES ASSUME PlaceOf(l, s) = to PROVE FALSE
      OBVIOUS
    <3>2. OthersKeepOut(steps, flit, to)
      BY AdvanceIsFree
    <3>3. l = flit
      BY <3>1, <3>2 DEF OthersKeepOut
    <3> QED
      BY <1>8, <3>3
  <2>3. CASE place = from
    <3>1. held[place] # <<>>
      BY <2>3 DEF Advances
    <3>2. steps[e] = s /\ held[place][Len(held[place])] = e
      BY <2>1, <3>1 DEF Reserved
    <3>3. /\ Len(held[from]) = Len(after[from]) + 1
          /\ \A i \in 1 .. Len(after[from]) : after[from][i] = held[from][i + 1]
      BY <1>1 DEF Shifts
    <3>4. Len(after[place]) \in 1 .. Len(after[place])
      BY <1>5
    <3> QED
      BY <2>1, <2>3, <3>2, <3>3, <3>4
  <2>4. CASE place # from
    <3>1. after[place] = held[place]
      BY <1>1, <1>4, <2>2, <2>4 DEF Shifts
    <3> QED
      BY <2>1, <3>1 DEF Reserved
  <2> QED
    BY <2>3, <2>4
<1> QED
  BY <1>6, <1>7, <1>8

\* The flits of a message stay together.
LEMMA AdvanceKeepsTogether ==
  ASSUME traffic \in Traffics, NEW held, NEW after, NEW steps, NEW later, NEW flit \in Flits,
         NEW from, NEW to,
         Holds(held, steps), Advances(held, after, steps, later, flit, from, to),
         EachInPlace(held, steps), Reserved(held, steps), NothingBetween(held, steps)
  PROVE  NothingBetween(after, later)
<1>1. Shifts(held, after, steps, later, flit, from, to) /\ Holds(after, later)
  BY AdvanceShifts
<1>2. /\ from = PlaceOf(flit, steps[flit]) /\ to = PlaceOf(flit, steps[flit] + 1)
      /\ steps[flit] \in Nat /\ later[flit] = steps[flit] + 1 /\ later[flit] \in Nat
      /\ steps[flit] + 1 \in 1 .. Arrived(flit.src, flit.core)
      /\ from \in Places /\ to \in Places
      /\ \A other \in Flits : /\ steps[other] \in Nat /\ later[other] \in Nat
                              /\ steps[other] <= later[other]
                              /\ other # flit => later[other] = steps[other]
  BY <1>1 DEF Advances, Shifts
<1> SUFFICES ASSUME NEW place \in Places, NEW i \in 1 .. Len(after[place]), NEW e \in Flits,
                    Follows(after[place][i], e)
             PROVE  IF i = 1 THEN later[e] > later[after[place][i]] ELSE after[place][i - 1] = e
  BY DEF NothingBetween
<1> DEFINE l == after[place][i]
<1>3. l \in Flits /\ Len(after[place]) \in Nat /\ Len(held[place]) \in Nat
      /\ held[place] \in Seq(Flits)
  BY <1>1, SMTT(30) DEF Holds
<1> HIDE DEF l
<1>4. CASE place = from
  <2>1. /\ i + 1 \in 1 .. Len(held[from]) /\ l = held[from][i + 1] /\ 1 \in 1 .. Len(held[from])
        /\ held[from][1] = flit /\ i + 1 # 1 /\ (i + 1) - 1 = i
        /\ \A j \in 1 .. Len(after[from]) : after[from][j] = held[from][j + 1]
    BY <1>1, <1>4, SMTT(30) DEF Shifts, l
  <2>2. held[from][i] = e
    BY <1>2, <2>1 DEF NothingBetween, l
  <2>3. CASE i = 1
    <3>1. e = flit
      BY <2>1, <2>2, <2>3
    <3>2. l # flit
      BY <1>2, <2>1 DEF EachInPlace
    <3>3. PlaceOf(l, steps[l]) = from
      BY <1>2, <2>1 DEF EachInPlace
    <3>4. l.src = flit.src /\ l.core = flit.core
      BY <1>3, <3>1, FollowsFacts DEF l
    <3>5. PlaceOf(flit, steps[l]) = PlaceOf(flit, steps[flit])
      BY <1>2, <1>3, <3>3, <3>4, WayOfFlit
    <3>6. steps[l] \in 0 .. Arrived(flit.src, flit.core) /\ steps[flit] \in 0 .. Arrived(flit.src, flit.core)
      BY <1>3, <3>4 DEF EachInPlace
    <3>7. steps[l] = steps[flit]
      BY <3>5, <3>6, WayOfFlit
    <3> QED
      BY <1>2, <1>3, <2>3, <3>1, <3>2, <3>7 DEF l
  <2>4. CASE i # 1
    <3>1. i - 1 \in 1 .. Len(after[from]) /\ (i - 1) + 1 = i
      BY <1>3, <1>4, <2>4
    <3>2. after[from][i - 1] = e
      BY <2>1, <2>2, <3>1
    <3> QED
      BY <1>4, <2>4, <3>2
  <2> QED
    BY <2>3, <2>4
<1>5. CASE place = to
  <2>1. /\ Len(after[to]) = Len(held[to]) + 1 /\ after[to][Len(held[to]) + 1] = flit
        /\ \A j \in 1 .. Len(held[to]) : after[to][j] = held[to][j]
    BY <1>1 DEF Shifts
  <2>2. CASE i \in 1 .. Len(held[to])
    <3>1. l = held[to][i] /\ Follows(held[to][i], e)
      BY <1>5, <2>1, <2>2 DEF l
    <3>2. IF i = 1 THEN steps[e] > steps[l] ELSE held[to][i - 1] = e
      BY <1>2, <2>2, <3>1 DEF NothingBetween
    <3>3. l # flit
      <4>1. PlaceOf(l, steps[l]) = to
        BY <1>2, <2>2, <3>1 DEF EachInPlace
      <4> QED
        BY <1>1, <1>2, <4>1 DEF Shifts
    <3>4. CASE i = 1
      BY <1>2, <1>3, <3>2, <3>3, <3>4 DEF l
    <3>5. CASE i # 1
      <4>1. i - 1 \in 1 .. Len(held[to])
        BY <1>3, <1>5, <2>2, <3>5
      <4>2. after[to][i - 1] = held[to][i - 1]
        BY <2>1, <4>1
      <4> QED
        BY <1>5, <3>2, <3>5, <4>2
    <3> QED
      BY <3>4, <3>5
  <2>3. CASE i = Len(held[to]) + 1
    <3>1. l = flit
      BY <1>5, <2>1, <2>3 DEF l
    <3>2. 1 \in 1 .. Len(held[from]) /\ held[from][1] = flit
      BY <1>1 DEF Shifts
    <3>3. steps[e] > steps[flit] /\ Follows(flit, e)
      BY <1>2, <3>1, <3>2 DEF NothingBetween, l
    <3>4. steps[flit] + 1 \in steps[flit] + 1 .. steps[e]
      BY <1>2, <3>3
    <3>5. held[to] # <<>> => steps[e] = steps[flit] + 1 /\ held[to][Len(held[to])] = e
      BY <1>2, <3>3, <3>4 DEF Reserved
    <3>6. e # flit
      BY <3>3, FollowsFacts
    <3>7. CASE held[to] = <<>>
      <4>1. Len(held[to]) = 0
        BY <3>7
      <4>2. steps[e] # steps[flit] + 1
        <5> SUFFICES ASSUME steps[e] = steps[flit] + 1 PROVE FALSE
          OBVIOUS
        <5>1. e.src = flit.src /\ e.core = flit.core
          BY <3>3, FollowsFacts
        <5>2. PlaceOf(e, steps[e]) = to
          BY <1>2, <5>1, WayOfFlit
        <5>3. \E j \in 1 .. Len(held[to]) : held[to][j] = e
          BY <5>2 DEF EachInPlace
        <5> QED
          BY <4>1, <5>3
      <4>3. i = 1 /\ later[e] = steps[e] /\ later[flit] = steps[flit] + 1
        BY <1>2, <2>3, <3>6, <4>1
      <4>4. later[e] > later[l]
        BY <1>2, <3>1, <3>3, <4>2, <4>3
      <4> QED
        BY <4>3, <4>4 DEF l
    <3>8. CASE held[to] # <<>>
      <4>1. Len(held[to]) \in 1 .. Len(held[to]) /\ i - 1 = Len(held[to]) /\ i # 1
        BY <1>3, <1>5, <2>3, <3>8
      <4>2. after[to][i - 1] = e
        BY <2>1, <3>5, <3>8, <4>1
      <4> QED
        BY <1>5, <4>1, <4>2
    <3> QED
      BY <3>7, <3>8
  <2> QED
    BY <1>3, <1>5, <2>1, <2>2, <2>3
<1>6. CASE place # from /\ place # to
  <2>1. after[place] = held[place]
    BY <1>1, <1>6 DEF Shifts
  <2>2. IF i = 1 THEN steps[e] > steps[l] ELSE held[place][i - 1] = e
    BY <2>1 DEF NothingBetween, l
  <2>3. l # flit
    <3>1. PlaceOf(l, steps[l]) = place
      BY <2>1 DEF EachInPlace, l
    <3> QED
      BY <1>2, <1>6, <3>1
  <2> QED
    BY <1>2, <1>3, <2>1, <2>2, <2>3 DEF l
<1> QED
  BY <1>4, <1>5, <1>6

-----------------------------------------------------------------------------
\* What the places hold.
LEMMA ContentsValues ==
  ASSUME TypeOK
  PROVE  /\ Holds(Contents, gone)
         /\ \A r \in Routers :
              /\ Contents[<<"todo", r, dIdxLocal>>] = todo[r]
              /\ Contents[<<"got", r, dIdxLocal>>] = got[r]
              /\ \A o \in Ports :
                   /\ Contents[<<"buffer", r, o>>] = routers[r].buffer[o]
                   /\ Contents[<<"latch", r, o>>] = routers[r].latch[o]
                   /\ Contents[<<"slot", r, o>>] =
                        IF routers[r].slot = None THEN <<>>
                        ELSE IF routers[r].slot.out = o THEN <<routers[r].slot.flit>>
                        ELSE <<>>
<1>1. dIdxLocal \in Ports
  BY DEF dIdxLocal, Ports
<1>2. \A place \in Places : Contents[place] = Held(place)
  BY DEF Contents
<1>3. ASSUME NEW r \in Routers, NEW o \in Ports
      PROVE  /\ <<"buffer", r, o>> \in Places /\ <<"latch", r, o>> \in Places
             /\ <<"slot", r, o>> \in Places
             /\ <<"todo", r, o>> \in Places /\ <<"got", r, o>> \in Places
  BY DEF Places
<1>4. ASSUME NEW r \in Routers, NEW o \in Ports
      PROVE  /\ Contents[<<"buffer", r, o>>] = routers[r].buffer[o]
             /\ Contents[<<"latch", r, o>>] = routers[r].latch[o]
             /\ Contents[<<"slot", r, o>>] = IF routers[r].slot = None THEN <<>>
                                             ELSE IF routers[r].slot.out = o THEN <<routers[r].slot.flit>>
                                             ELSE <<>>
             /\ Contents[<<"todo", r, o>>] = IF o = dIdxLocal THEN todo[r] ELSE <<>>
             /\ Contents[<<"got", r, o>>] = IF o = dIdxLocal THEN got[r] ELSE <<>>
  BY <1>2, <1>3 DEF Held
<1>5. ASSUME NEW place \in Places PROVE Contents[place] \in Seq(Flits)
  <2>1. PICK kind \in {"todo", "got", "buffer", "slot", "latch"}, r \in Routers, o \in Ports :
          place = <<kind, r, o>>
    BY DEF Places
  <2>2. RouterOK(routers[r]) /\ todo[r] \in Seq(Flits) /\ got[r] \in Seq(Flits)
    BY DEF TypeOK
  <2>3. routers[r].buffer[o] \in Seq(Flits)
    BY <2>2 DEF RouterOK
  <2>4. routers[r].latch[o] \in Seq(Flits)
    <3>1. routers[r].latch[o] \in {<<>>} \cup {<<flit>> : flit \in Flits}
      BY <2>2 DEF RouterOK
    <3>2. CASE routers[r].latch[o] = <<>>
      BY <3>2
    <3>3. CASE \E flit \in Flits : routers[r].latch[o] = <<flit>>
      BY <3>3
    <3> QED
      BY <3>1, <3>2, <3>3
  <2>5. routers[r].slot # None => routers[r].slot.flit \in Flits
    BY <2>2 DEF RouterOK
  <2>6. Contents[<<"slot", r, o>>] \in Seq(Flits)
    <3>1. CASE routers[r].slot = None \/ routers[r].slot.out # o
      <4>1. Contents[<<"slot", r, o>>] = <<>>
        BY <1>4, <3>1
      <4> QED
        BY <4>1
    <3>2. CASE routers[r].slot # None /\ routers[r].slot.out = o
      <4>1. Contents[<<"slot", r, o>>] = <<routers[r].slot.flit>>
        BY <1>4, <3>2
      <4> QED
        BY <2>5, <3>2, <4>1
    <3> QED
      BY <3>1, <3>2
  <2>7. Contents[<<"buffer", r, o>>] \in Seq(Flits) /\ Contents[<<"latch", r, o>>] \in Seq(Flits)
    BY <1>4, <2>3, <2>4
  <2>8. Contents[<<"todo", r, o>>] \in Seq(Flits) /\ Contents[<<"got", r, o>>] \in Seq(Flits)
    <3>1. <<>> \in Seq(Flits)
      OBVIOUS
    <3> QED
      BY <1>4, <2>2, <3>1, ZenonT(30)
  <2> QED
    BY <2>1, <2>6, <2>7, <2>8
<1>6. Holds(Contents, gone)
  BY <1>5 DEF Holds, TypeOK
<1> QED
  BY <1>1, <1>4, <1>6, ZenonT(30)

\* What the invariant says of what has arrived.
LEMMA OrderDelivers == OrderInv => MeshInv
<1> SUFFICES ASSUME OrderInv PROVE MeshInv
  OBVIOUS
<1> USE DEF OrderInv
<1>0. traffic \in Traffics /\ TypeOK
  BY DEF TypeOK
<1>1. ASSUME NEW d \in Routers
      PROVE  /\ <<"got", d, dIdxLocal>> \in Places
             /\ Contents[<<"got", d, dIdxLocal>>] = got[d]
             /\ Len(got[d]) \in Nat
             /\ \A k \in 1 .. Len(got[d]) :
                  /\ got[d][k] \in Flits
                  /\ gone[got[d][k]] = Arrived(got[d][k].src, d)
                  /\ got[d][k].core = d
             /\ \A j, k \in 1 .. Len(got[d]) : got[d][j] = got[d][k] => j = k
  <2>1. <<"got", d, dIdxLocal>> \in Places
    BY DEF Places, Ports, dIdxLocal
  <2>2. Contents[<<"got", d, dIdxLocal>>] = got[d] /\ got[d] \in Seq(Flits)
    BY ContentsValues DEF TypeOK
  <2>3. ASSUME NEW k \in 1 .. Len(got[d])
        PROVE  gone[got[d][k]] = Arrived(got[d][k].src, d) /\ got[d][k].core = d
    <3>1. got[d][k] \in Flits
      BY <2>2
    <3>2. PlaceOf(got[d][k], gone[got[d][k]]) = <<"got", d, dIdxLocal>>
      BY <2>1, <2>2 DEF EachInPlace
    <3>3. TellsStep(got[d][k].src, got[d][k].core, gone[got[d][k]])
      BY <1>0, <3>1, FlitFacts, StepOfPlace DEF EachInPlace
    <3> QED
      BY <3>2, <3>3 DEF TellsStep, PlaceOf
  <2>4. \A j, k \in 1 .. Len(got[d]) : got[d][j] = got[d][k] => j = k
    BY <2>1, <2>2 DEF EachInPlace
  <2> QED
    BY <2>1, <2>2, <2>3, <2>4
\* A flit that has the steps of one that has arrived has arrived.
<1>2. ASSUME NEW d \in Routers, NEW flit \in Flits, flit.core = d,
             gone[flit] = Arrived(flit.src, d)
      PROVE  \E k \in 1 .. Len(got[d]) : got[d][k] = flit
  <2>1. PlaceOf(flit, gone[flit]) = <<"got", d, dIdxLocal>>
    BY <1>0, <1>2, FlitFacts, PlaceValues DEF PlaceOf
  <2> QED
    BY <1>1, <2>1 DEF EachInPlace
<1>3. ASSUME NEW e \in Flits, NEW l \in Flits, e.src = l.src, e.core = l.core, e.number < l.number
      PROVE  /\ gone[l] <= gone[e]
             /\ gone[l] = Arrived(l.src, l.core) =>
                  \A j, k \in 1 .. Len(got[l.core]) : got[l.core][j] = e /\ got[l.core][k] = l => j < k
  <2>1. gone[l] <= gone[e]
    BY <1>3 DEF NoneOvertakes
  <2>2. CASE gone[l] = Arrived(l.src, l.core)
    <3>1. /\ gone[e] \in 0 .. Arrived(e.src, e.core) /\ Arrived(e.src, e.core) \in Nat
          /\ gone[l] \in Nat /\ l.core \in Routers /\ l.src \in Routers
      BY <1>0, FlitFacts, WayOfFlit DEF EachInPlace
    <3>2. gone[e] = gone[l]
      BY <1>3, <2>1, <2>2, <3>1
    <3>3. PlaceOf(e, gone[e]) = <<"got", l.core, dIdxLocal>>
      BY <1>3, <2>2, <3>1, <3>2, PlaceValues DEF PlaceOf
    <3> QED
      BY <1>1, <1>3, <2>1, <3>1, <3>2, <3>3 DEF NoneOvertakes
  <2> QED
    BY <2>1, <2>2
<1>4. DeliveredInOrder
  <2> SUFFICES ASSUME NEW d \in Routers, NEW k \in 1 .. Len(got[d])
               PROVE  /\ got[d][k].core = d
                      /\ \A j \in 1 .. k - 1 : got[d][j].src = got[d][k].src =>
                                                 got[d][j].number < got[d][k].number
                      /\ \A i \in 1 .. got[d][k].number - 1 :
                           traffic[got[d][k].src][i].core = d =>
                             \E j \in 1 .. k - 1 : got[d][j] = traffic[got[d][k].src][i]
    BY DEF DeliveredInOrder
  <2> DEFINE flit == got[d][k]
  <2>0. Len(got[d]) \in Nat /\ k \in Nat
    <3>1. Len(got[d]) \in Nat
      BY <1>1
    <3> QED
      BY <3>1
  <2>1. flit \in Flits /\ flit.core = d /\ gone[flit] = Arrived(flit.src, d) /\ k \in Nat
    BY <1>1, <2>0
  <2>2. /\ flit.src \in Routers /\ flit.number \in 1 .. Len(traffic[flit.src])
        /\ flit = traffic[flit.src][flit.number]
    BY <1>0, <2>1, FlitFacts
  <2> HIDE DEF flit
  <2>3. ASSUME NEW j \in 1 .. k - 1, got[d][j].src = flit.src
        PROVE  got[d][j].number < flit.number
    <3> DEFINE other == got[d][j]
    <3>0. j \in 1 .. Len(got[d]) /\ k \in 1 .. Len(got[d]) /\ j # k /\ j < k
      BY <2>0
    <3>1. /\ j \in 1 .. Len(got[d]) /\ k \in 1 .. Len(got[d]) /\ j # k /\ j < k
          /\ other \in Flits /\ other.core = d /\ gone[other] = Arrived(other.src, d)
      BY <1>1, <3>0
    <3>2. other # flit
      BY <1>1, <3>1 DEF flit
    <3>3. other.number \in 1 .. Len(traffic[flit.src]) /\ other = traffic[flit.src][other.number]
      BY <1>0, <2>3, <3>1, FlitFacts
    <3>4. other.number # flit.number
      BY <2>2, <3>2, <3>3
    <3>5. ~(flit.number < other.number)
      <4> SUFFICES ASSUME flit.number < other.number PROVE FALSE
        OBVIOUS
      <4> HIDE DEF other
      <4>1. \A m, i \in 1 .. Len(got[d]) : got[d][m] = flit /\ got[d][i] = other => m < i
        BY <1>3, <2>1, <2>3, <3>1 DEF other
      <4>2. k < j
        BY <3>1, <4>1 DEF flit, other
      <4> QED
        BY <2>1, <3>1, <4>2
    <3> QED
      BY <2>2, <3>3, <3>4, <3>5
  <2>4. ASSUME NEW i \in 1 .. flit.number - 1, traffic[flit.src][i].core = d
        PROVE  \E j \in 1 .. k - 1 : got[d][j] = traffic[flit.src][i]
    <3> DEFINE earlier == traffic[flit.src][i]
    <3>1. i \in 1 .. Len(traffic[flit.src]) /\ i < flit.number
      BY <2>2
    <3>2. earlier \in Flits /\ earlier.src = flit.src /\ earlier.number = i
      BY <1>0, <2>2, <3>1, FlitFacts DEF IsMessages
    <3> HIDE DEF earlier
    <3>3. /\ gone[flit] <= gone[earlier] /\ earlier.core = d
          /\ \A m, j \in 1 .. Len(got[d]) : got[d][m] = earlier /\ got[d][j] = flit => m < j
      BY <1>3, <2>1, <2>4, <3>1, <3>2 DEF earlier
    <3>4. gone[earlier] \in 0 .. Arrived(flit.src, d) /\ Arrived(flit.src, d) \in Nat
      BY <1>0, <2>1, <3>2, <3>3, WayOfFlit DEF EachInPlace
    <3>5. gone[earlier] = Arrived(earlier.src, d)
      BY <2>1, <3>2, <3>3, <3>4
    <3>6. PICK m \in 1 .. Len(got[d]) : got[d][m] = earlier
      BY <1>2, <3>2, <3>3, <3>5
    <3>7. m < k
      BY <3>3, <3>6 DEF flit
    <3> QED
      BY <1>1, <2>1, <3>6, <3>7 DEF earlier
  <2> QED
    BY <2>1, <2>3, <2>4 DEF flit
<1>5. DeliveredWhole
  <2> SUFFICES ASSUME NEW d \in Routers, NEW k \in 1 .. Len(got[d])
               PROVE  IF got[d][k].flitType = "HEAD" THEN k > 1 => got[d][k - 1].flitType = "TAIL"
                      ELSE k > 1 /\ Follows(got[d][k], got[d][k - 1])
    BY DEF DeliveredWhole
  <2>1. /\ got[d][k] \in Flits /\ got[d][k].core = d /\ Len(got[d]) \in Nat
        /\ gone[got[d][k]] = Arrived(got[d][k].src, d)
    BY <1>1
  <2>2. ASSUME NEW m \in 1 .. Len(got[d]), NEW e \in Flits, Follows(got[d][m], e)
        PROVE  m # 1 /\ got[d][m - 1] = e
    <3>1. /\ got[d][m] \in Flits /\ gone[got[d][m]] = Arrived(got[d][m].src, d)
          /\ got[d][m].core = d
      BY <1>1
    <3>2. e.src = got[d][m].src /\ e.core = d
      BY <1>0, <2>2, <3>1, FollowsFacts
    <3>3. gone[e] \in 0 .. Arrived(got[d][m].src, d) /\ Arrived(got[d][m].src, d) \in Nat
      BY <1>0, <3>2, WayOfFlit DEF EachInPlace
    <3>4. ~(gone[e] > gone[got[d][m]])
      BY <3>1, <3>3
    <3>5. IF m = 1 THEN gone[e] > gone[got[d][m]] ELSE got[d][m - 1] = e
      <4>1. <<"got", d, dIdxLocal>> \in Places /\ Contents[<<"got", d, dIdxLocal>>] = got[d]
        BY <1>1
      <4>2. NothingBetween(Contents, gone)
        OBVIOUS
      <4> QED
        BY <2>2, <4>1, <4>2 DEF NothingBetween
    <3> QED
      BY <3>4, <3>5
  <2>3. CASE got[d][k].flitType # "HEAD"
    <3>1. PICK e \in Flits : Follows(got[d][k], e)
      BY <1>0, <2>1, <2>3, Neighbours
    <3> QED
      BY <2>1, <2>2, <2>3, <3>1
  <2>4. CASE got[d][k].flitType = "HEAD"
    <3> SUFFICES ASSUME k > 1, got[d][k - 1].flitType # "TAIL" PROVE FALSE
      BY <2>4
    <3> DEFINE e == got[d][k - 1]
    <3>0. k - 1 \in 1 .. Len(got[d]) /\ k - 1 # Len(got[d]) /\ Len(got[d]) \in 1 .. Len(got[d])
      BY <2>1
    <3>1. /\ k - 1 \in 1 .. Len(got[d]) /\ k - 1 # Len(got[d]) /\ Len(got[d]) \in 1 .. Len(got[d])
          /\ e \in Flits /\ e.core = d /\ gone[e] = Arrived(e.src, d)
      BY <1>1, <3>0
    <3>2. PICK l \in Flits : Follows(l, e)
      BY <1>0, <3>1, Neighbours
    <3> HIDE DEF e
    <3>3. l.src = e.src /\ l.core = e.core /\ l.number = e.number + 1 /\ e.number \in Int
      BY <1>0, <3>1, <3>2, FollowsFacts, FlitFacts
    <3>4. gone[l] <= gone[e] /\ gone[l] \in Nat /\ gone[e] \in Nat
      <4>1. gone[l] \in Nat /\ gone[e] \in Nat
        BY <3>1 DEF TypeOK
      <4>2. e.number < l.number
        BY <3>3
      <4> QED
        BY <1>3, <3>1, <3>3, <4>1, <4>2
    <3>5. CASE gone[l] = gone[e]
      <4>1. PICK m \in 1 .. Len(got[d]) : got[d][m] = l
        BY <1>2, <3>1, <3>3, <3>5
      <4>2. m # 1 /\ got[d][m - 1] = e
        BY <2>2, <3>1, <3>2, <4>1
      <4>0. m - 1 \in 1 .. Len(got[d])
        BY <2>1, <4>1, <4>2
      <4>3. m - 1 = k - 1
        <5>1. \A i, j \in 1 .. Len(got[d]) : got[d][i] = got[d][j] => i = j
          BY <1>1
        <5>2. got[d][m - 1] = got[d][k - 1]
          BY <4>2 DEF e
        <5> QED
          BY <3>1, <4>0, <5>1, <5>2
      <4>4. m = k
        BY <4>1, <4>3
      <4> QED
        BY <2>4, <3>2, <4>1, <4>4 DEF Follows
    <3>6. CASE gone[l] # gone[e]
      <4>1. gone[e] \in gone[l] + 1 .. gone[e]
        BY <3>4, <3>6
      <4>2. PlaceOf(l, gone[e]) = <<"got", d, dIdxLocal>>
        BY <1>0, <3>1, <3>3, FlitFacts, PlaceValues DEF PlaceOf
      <4>3. got[d] # <<>>
        BY <3>1
      <4>4. got[d][Len(got[d])] = e
        BY <1>1, <3>1, <3>2, <4>1, <4>2, <4>3 DEF Reserved
      <4> QED
        BY <1>1, <3>1, <4>4 DEF e
    <3> QED
      BY <3>5, <3>6
  <2> QED
    BY <2>3, <2>4
<1> QED
  BY <1>0, <1>4, <1>5 DEF MeshInv

-----------------------------------------------------------------------------
\* What the steps of a router change in its record.
LEMMA ReceivedChanges ==
  ASSUME NEW router, RouterOK(router), NEW p \in Ports, NEW flit \in Flits
  PROVE  /\ HasRoom(router, p) => RouterOK(Received(router, p, flit))
         /\ \A q \in Ports : Received(router, p, flit).buffer[q] =
                               IF q = p THEN Append(router.buffer[p], flit) ELSE router.buffer[q]
         /\ Received(router, p, flit).slot = router.slot
         /\ Received(router, p, flit).latch = router.latch
         /\ Received(router, p, flit).owner = router.owner
<1> DEFINE N == Received(router, p, flit)
<1>1. /\ DOMAIN N = {"buffer", "slot", "latch", "owner"}
      /\ N.buffer = [router.buffer EXCEPT ![p] = Append(router.buffer[p], flit)]
      /\ N.slot = router.slot /\ N.latch = router.latch /\ N.owner = router.owner
  BY DEF Received, RouterOK
<1>2. /\ router.buffer \in [Ports -> Seq(Flits)] /\ router.buffer[p] \in Seq(Flits)
      /\ Append(router.buffer[p], flit) \in Seq(Flits)
      /\ Len(Append(router.buffer[p], flit)) = Len(router.buffer[p]) + 1
      /\ Len(router.buffer[p]) \in Nat
  <2>1. router.buffer \in [Ports -> Seq(Flits)] /\ router.buffer[p] \in Seq(Flits)
    BY DEF RouterOK
  <2> QED
    BY <2>1
<1>3. /\ N.buffer \in [Ports -> Seq(Flits)]
      /\ \A q \in Ports : N.buffer[q] = IF q = p THEN Append(router.buffer[p], flit)
                                        ELSE router.buffer[q]
  BY <1>1, <1>2
<1>4. ASSUME HasRoom(router, p)
      PROVE  RouterOK(N)
  <2>1. Len(router.buffer[p]) + 1 <= BufferDepth
    BY <1>2, <1>4, MeshAssumption DEF HasRoom
  <2>2. \A q \in Ports : Len(N.buffer[q]) <= BufferDepth
    BY <1>2, <1>3, <2>1 DEF RouterOK
  <2> HIDE DEF N
  <2> QED
    BY <1>1, <1>3, <2>2 DEF RouterOK
<1> QED
  BY <1>1, <1>3, <1>4

LEMMA LeftChanges ==
  ASSUME NEW router, RouterOK(router), NEW o \in Ports
  PROVE  /\ RouterOK(Left(router, o))
         /\ Left(router, o).buffer = router.buffer
         /\ Left(router, o).slot = router.slot
         /\ \A q \in Ports : Left(router, o).latch[q] = IF q = o THEN <<>> ELSE router.latch[q]
         /\ Left(router, o).owner = router.owner
<1> DEFINE N == Left(router, o)
<1>1. /\ DOMAIN N = {"buffer", "slot", "latch", "owner"}
      /\ N.latch = [router.latch EXCEPT ![o] = <<>>]
      /\ N.slot = router.slot /\ N.buffer = router.buffer /\ N.owner = router.owner
  BY DEF Left, RouterOK
<1>2. router.latch \in [Ports -> {<<>>} \cup {<<flit>> : flit \in Flits}]
  BY DEF RouterOK
<1>3. /\ N.latch \in [Ports -> {<<>>} \cup {<<flit>> : flit \in Flits}]
      /\ \A q \in Ports : N.latch[q] = IF q = o THEN <<>> ELSE router.latch[q]
  BY <1>1, <1>2
<1> HIDE DEF N
<1>4. RouterOK(N)
  BY <1>1, <1>3 DEF RouterOK
<1> QED
  BY <1>1, <1>3, <1>4 DEF N

LEMMA LatchedChanges ==
  ASSUME NEW router, RouterOK(router), router.slot # None
  PROVE  /\ router.slot.out \in Ports /\ router.slot.flit \in Flits
         /\ RouterOK(Latched(router))
         /\ Latched(router).buffer = router.buffer
         /\ Latched(router).slot = None
         /\ \A q \in Ports : Latched(router).latch[q] =
                               IF q = router.slot.out THEN <<router.slot.flit>> ELSE router.latch[q]
         /\ Latched(router).owner = router.owner
<1> DEFINE N == Latched(router)
           o == router.slot.out
<1>1. o \in Ports /\ router.slot.flit \in Flits
  BY DEF RouterOK
<1>2. /\ DOMAIN N = {"buffer", "slot", "latch", "owner"}
      /\ N.latch = [router.latch EXCEPT ![o] = <<router.slot.flit>>]
      /\ N.slot = None /\ N.buffer = router.buffer /\ N.owner = router.owner
  BY DEF Latched, RouterOK
<1>3. router.latch \in [Ports -> {<<>>} \cup {<<flit>> : flit \in Flits}]
  BY DEF RouterOK
<1>4. <<router.slot.flit>> \in {<<flit>> : flit \in Flits}
  BY <1>1
<1> HIDE DEF N, o
<1>5. /\ N.latch \in [Ports -> {<<>>} \cup {<<flit>> : flit \in Flits}]
      /\ \A q \in Ports : N.latch[q] = IF q = o THEN <<router.slot.flit>> ELSE router.latch[q]
  BY <1>1, <1>2, <1>3, <1>4
<1>6. RouterOK(N)
  BY <1>2, <1>5 DEF RouterOK
<1> QED
  BY <1>1, <1>2, <1>5, <1>6 DEF N, o

LEMMA TraversedChanges ==
  ASSUME traffic \in Traffics, NEW router, RouterOK(router), NEW p \in Ports, NEW o \in Ports,
         router.buffer[p] # <<>>
  PROVE  /\ Head(router.buffer[p]) \in Flits
         /\ RouterOK(Traversed(router, p, o))
         /\ \A q \in Ports : Traversed(router, p, o).buffer[q] =
                               IF q = p THEN Tail(router.buffer[p]) ELSE router.buffer[q]
         /\ Traversed(router, p, o).slot # None
         /\ Traversed(router, p, o).slot.flit = Head(router.buffer[p])
         /\ Traversed(router, p, o).slot.out = o
         /\ Traversed(router, p, o).latch = router.latch
         /\ \A q \in Ports : Traversed(router, p, o).owner[q] =
                               IF q = o THEN OwnerAfter(Head(router.buffer[p]), p) ELSE router.owner[q]
<1> DEFINE N == Traversed(router, p, o)
           flit == Head(router.buffer[p])
<1>1. router.buffer \in [Ports -> Seq(Flits)] /\ router.buffer[p] \in Seq(Flits)
  BY DEF RouterOK
<1>2. /\ flit \in Flits /\ Tail(router.buffer[p]) \in Seq(Flits)
      /\ Len(Tail(router.buffer[p])) <= Len(router.buffer[p])
      /\ Len(Tail(router.buffer[p])) \in Nat /\ Len(router.buffer[p]) \in Nat
  BY <1>1
<1>3. /\ DOMAIN N = {"buffer", "slot", "latch", "owner"}
      /\ N.buffer = [router.buffer EXCEPT ![p] = Tail(router.buffer[p])]
      /\ N.slot = [flit |-> flit, out |-> o]
      /\ N.latch = router.latch
      /\ N.owner = [router.owner EXCEPT ![o] = OwnerAfter(flit, p)]
  BY DEF Traversed, RouterOK
<1>4. /\ router.owner \in [Ports -> Ports \cup {None}]
      /\ router.latch \in [Ports -> {<<>>} \cup {<<f>> : f \in Flits}]
      /\ \A q \in Ports : Len(router.buffer[q]) <= BufferDepth
  BY DEF RouterOK
<1>5. OwnerAfter(flit, p) \in Ports \cup {None}
  BY DEF OwnerAfter
<1> HIDE DEF N, flit
<1>6. /\ N.buffer \in [Ports -> Seq(Flits)]
      /\ \A q \in Ports : N.buffer[q] = IF q = p THEN Tail(router.buffer[p]) ELSE router.buffer[q]
  BY <1>1, <1>2, <1>3
<1>7. /\ N.owner \in [Ports -> Ports \cup {None}]
      /\ \A q \in Ports : N.owner[q] = IF q = o THEN OwnerAfter(flit, p) ELSE router.owner[q]
  BY <1>3, <1>4, <1>5
<1>8. N.slot \in [flit : Flits, out : Ports] /\ N.slot.flit = flit /\ N.slot.out = o
  BY <1>2, <1>3
<1>9. N.slot # None
  <2>1. N.slot \in [flit : Flit, out : Ports]
    BY <1>8, FlitFacts
  <2> QED
    BY <2>1, MeshAssumption
<1>10. \A q \in Ports : Len(N.buffer[q]) <= BufferDepth
  <2> SUFFICES ASSUME NEW q \in Ports PROVE Len(N.buffer[q]) <= BufferDepth
    OBVIOUS
  <2>1. BufferDepth \in Nat /\ Len(router.buffer[q]) <= BufferDepth
    BY <1>4, MeshAssumption
  <2>2. CASE q = p
    <3>1. N.buffer[q] = Tail(router.buffer[p])
      BY <1>6, <2>2
    <3> QED
      BY <1>2, <2>1, <2>2, <3>1
  <2>3. CASE q # p
    BY <1>6, <2>1, <2>3
  <2> QED
    BY <2>2, <2>3
<1>11. RouterOK(N)
  BY <1>3, <1>4, <1>6, <1>7, <1>8, <1>10 DEF RouterOK
<1> QED
  BY <1>2, <1>3, <1>6, <1>7, <1>8, <1>9, <1>11 DEF N, flit

-----------------------------------------------------------------------------
\* The places before and after a step, kind by kind.
LEMMA PlacesByKind ==
  ASSUME NEW place \in Places
  PROVE  \E kind \in {"todo", "got", "buffer", "slot", "latch"} : \E r \in Routers, o \in Ports :
           place = <<kind, r, o>>
  BY DEF Places

LEMMA PlaceThere ==
  ASSUME NEW r \in Routers, NEW o \in Ports
  PROVE  /\ <<"buffer", r, o>> \in Places /\ <<"latch", r, o>> \in Places
         /\ <<"slot", r, o>> \in Places
         /\ <<"todo", r, o>> \in Places /\ <<"got", r, o>> \in Places
  BY DEF Places

LEMMA ContentsNow ==
  ASSUME NEW r \in Routers, NEW o \in Ports
  PROVE  /\ Contents[<<"buffer", r, o>>] = routers[r].buffer[o]
         /\ Contents[<<"latch", r, o>>] = routers[r].latch[o]
         /\ Contents[<<"slot", r, o>>] = IF routers[r].slot = None THEN <<>>
                                         ELSE IF routers[r].slot.out = o THEN <<routers[r].slot.flit>>
                                         ELSE <<>>
         /\ Contents[<<"todo", r, o>>] = IF o = dIdxLocal THEN todo[r] ELSE <<>>
         /\ Contents[<<"got", r, o>>] = IF o = dIdxLocal THEN got[r] ELSE <<>>
<1>1. \A place \in Places : Contents[place] = Held(place)
  BY DEF Contents
<1> QED
  BY <1>1, PlaceThere DEF Held

LEMMA ContentsThen ==
  ASSUME NEW r \in Routers, NEW o \in Ports
  PROVE  /\ Contents'[<<"buffer", r, o>>] = routers'[r].buffer[o]
         /\ Contents'[<<"latch", r, o>>] = routers'[r].latch[o]
         /\ Contents'[<<"slot", r, o>>] = IF routers'[r].slot = None THEN <<>>
                                          ELSE IF routers'[r].slot.out = o THEN <<routers'[r].slot.flit>>
                                          ELSE <<>>
         /\ Contents'[<<"todo", r, o>>] = IF o = dIdxLocal THEN todo'[r] ELSE <<>>
         /\ Contents'[<<"got", r, o>>] = IF o = dIdxLocal THEN got'[r] ELSE <<>>
<1>1. \A place \in Places : Contents'[place] = Held(place)'
  BY DEF Contents
<1> QED
  BY <1>1, PlaceThere DEF Held

KindsAt(r, o) ==
  /\ Contents[<<"buffer", r, o>>] = routers[r].buffer[o]
  /\ Contents[<<"latch", r, o>>] = routers[r].latch[o]
  /\ Contents[<<"slot", r, o>>] = IF routers[r].slot = None THEN <<>>
                                  ELSE IF routers[r].slot.out = o THEN <<routers[r].slot.flit>>
                                  ELSE <<>>
  /\ Contents[<<"todo", r, o>>] = IF o = dIdxLocal THEN todo[r] ELSE <<>>
  /\ Contents[<<"got", r, o>>] = IF o = dIdxLocal THEN got[r] ELSE <<>>

LEMMA KindsNowAndThen ==
  ASSUME NEW r \in Routers, NEW o \in Ports
  PROVE  KindsAt(r, o) /\ KindsAt(r, o)'
<1>1. KindsAt(r, o)
  BY ContentsNow DEF KindsAt
<1>2. KindsAt(r, o)'
  BY ContentsThen DEF KindsAt
<1> QED
  BY <1>1, <1>2

\* The flit at the head of a place, and the step that has led it there.
LEMMA HeadAt ==
  ASSUME TypeOK, EachInPlace(Contents, gone), NEW place \in Places, Contents[place] # <<>>
  PROVE  LET flit == Head(Contents[place])
         IN  /\ flit \in Flits /\ flit.src \in Routers /\ flit.core \in Routers
             /\ gone[flit] \in 0 .. Arrived(flit.src, flit.core)
             /\ PlaceOf(flit, gone[flit]) = place
             /\ TellsStep(flit.src, flit.core, gone[flit])
             /\ Place(flit.src, flit.core, gone[flit]) = place
<1> DEFINE flit == Head(Contents[place])
<1>1. Contents[place] \in Seq(Flits)
  BY ContentsValues DEF Holds
<1>2. 1 \in 1 .. Len(Contents[place]) /\ Contents[place][1] = flit /\ flit \in Flits
  BY <1>1
<1> HIDE DEF flit
<1>3. traffic \in Traffics
  BY DEF TypeOK
<1>4. /\ PlaceOf(flit, gone[flit]) = place
      /\ gone[flit] \in 0 .. Arrived(flit.src, flit.core)
  BY <1>2 DEF EachInPlace
<1>5. flit.src \in Routers /\ flit.core \in Routers
  BY <1>2, <1>3, FlitFacts
<1>6. TellsStep(flit.src, flit.core, gone[flit])
  BY <1>4, <1>5, StepOfPlace
<1> QED
  BY <1>2, <1>4, <1>5, <1>6 DEF flit, PlaceOf

\* What a step does that lets flit go on.
Goes(flit, from, to) == /\ flit \in Flits
                        /\ Advances(Contents, Contents', gone, gone', flit, from, to)

Moves(flit, from, to) ==
  \A place \in Places : Contents'[place] = IF place = from THEN Tail(Contents[place])
                                           ELSE IF place = to THEN Append(Contents[place], flit)
                                           ELSE Contents[place]

LEMMA GoesWhenMoves ==
  ASSUME TypeOK, EachInPlace(Contents, gone), NEW from \in Places, NEW to, NEW flit,
         Contents[from] # <<>>, flit = Head(Contents[from]),
         gone[flit] + 1 <= Arrived(flit.src, flit.core),
         PlaceOf(flit, gone[flit] + 1) = to,
         Moves(flit, from, to), Advance(flit)
  PROVE  Goes(flit, from, to)
<1>1. /\ flit \in Flits /\ gone[flit] \in 0 .. Arrived(flit.src, flit.core)
      /\ PlaceOf(flit, gone[flit]) = from
  BY HeadAt
<1>2. Arrived(flit.src, flit.core) \in Nat
  BY <1>1, WayOfFlit DEF TypeOK
<1>3. gone[flit] + 1 \in 1 .. Arrived(flit.src, flit.core)
  BY <1>1, <1>2
<1>4. gone' = [gone EXCEPT ![flit] = @ + 1]
  BY DEF Advance
<1> QED
  BY <1>1, <1>3, <1>4 DEF Goes, Advances, Moves

\* The same, by kind, router and port.
MovesPiecewise(flit, fromKind, fromRouter, fromPort, toKind, toRouter, toPort) ==
  \A kind \in {"todo", "got", "buffer", "slot", "latch"} : \A r \in Routers, o \in Ports :
    Contents'[<<kind, r, o>>] =
      IF kind = fromKind /\ r = fromRouter /\ o = fromPort THEN Tail(Contents[<<kind, r, o>>])
      ELSE IF kind = toKind /\ r = toRouter /\ o = toPort THEN Append(Contents[<<kind, r, o>>], flit)
      ELSE Contents[<<kind, r, o>>]

LEMMA MovesByPieces ==
  ASSUME NEW flit, NEW fromKind, NEW fromRouter, NEW fromPort, NEW toKind, NEW toRouter, NEW toPort,
         MovesPiecewise(flit, fromKind, fromRouter, fromPort, toKind, toRouter, toPort)
  PROVE  Moves(flit, <<fromKind, fromRouter, fromPort>>, <<toKind, toRouter, toPort>>)
<1> SUFFICES ASSUME NEW place \in Places
             PROVE  Contents'[place] =
                      IF place = <<fromKind, fromRouter, fromPort>> THEN Tail(Contents[place])
                      ELSE IF place = <<toKind, toRouter, toPort>> THEN Append(Contents[place], flit)
                      ELSE Contents[place]
  BY DEF Moves
<1>1. PICK kind \in {"todo", "got", "buffer", "slot", "latch"}, r \in Routers, o \in Ports :
        place = <<kind, r, o>>
  BY PlacesByKind
<1>2. /\ place = <<fromKind, fromRouter, fromPort>> <=>
           kind = fromKind /\ r = fromRouter /\ o = fromPort
      /\ place = <<toKind, toRouter, toPort>> <=> kind = toKind /\ r = toRouter /\ o = toPort
  BY <1>1
<1>3. Contents'[<<kind, r, o>>] =
        IF kind = fromKind /\ r = fromRouter /\ o = fromPort THEN Tail(Contents[<<kind, r, o>>])
        ELSE IF kind = toKind /\ r = toRouter /\ o = toPort THEN Append(Contents[<<kind, r, o>>], flit)
        ELSE Contents[<<kind, r, o>>]
  BY DEF MovesPiecewise
<1> QED
  BY <1>1, <1>2, <1>3

\* Types after a step.
LEMMA TypesAfter ==
  ASSUME TypeOK, UNCHANGED traffic, NEW flit \in Flits, Advance(flit),
         DOMAIN routers' = Routers,
         \A r \in Routers : RouterOK(routers'[r]),
         todo' \in [Routers -> Seq(Flits)],
         got' \in [Routers -> Seq(Flits)]
  PROVE  TypeOK'
<1>1. Flits' = Flits
  BY DEF Flits
<1>2. ASSUME NEW r \in Routers PROVE RouterOK(routers[r])'
  <2>1. RouterOK(routers'[r])
    OBVIOUS
  <2> QED
    BY <1>1, <2>1 DEF RouterOK
<1>3. gone' \in [Flits -> Nat]
  BY DEF Advance, TypeOK
<1> QED
  BY <1>1, <1>2, <1>3 DEF TypeOK

OwnersStay == \A r \in Routers : routers'[r].owner = routers[r].owner

LEMMA RoutersAreOK ==
  ASSUME TypeOK, NEW r \in Routers
  PROVE  /\ RouterOK(routers[r])
         /\ \A o \in Ports : routers[r].buffer[o] \in Seq(Flits) /\ routers[r].latch[o] \in Seq(Flits)
         /\ todo[r] \in Seq(Flits) /\ got[r] \in Seq(Flits)
         /\ dIdxLocal \in Ports
<1>1. RouterOK(routers[r]) /\ todo[r] \in Seq(Flits) /\ got[r] \in Seq(Flits)
  BY DEF TypeOK
<1>2. dIdxLocal \in Ports
  BY DEF dIdxLocal, Ports
<1>3. ASSUME NEW o \in Ports
      PROVE  routers[r].buffer[o] \in Seq(Flits) /\ routers[r].latch[o] \in Seq(Flits)
  <2>1. /\ Contents[<<"buffer", r, o>>] = routers[r].buffer[o]
        /\ Contents[<<"latch", r, o>>] = routers[r].latch[o]
    BY ContentsNow
  <2>2. <<"buffer", r, o>> \in Places /\ <<"latch", r, o>> \in Places
    BY PlaceThere
  <2> QED
    BY <2>1, <2>2, ContentsValues DEF Holds
<1> QED
  BY <1>1, <1>2, <1>3

LEMMA SendGoes ==
  ASSUME TypeOK, EachInPlace(Contents, gone), NEW r \in Routers, Send(r)
  PROVE  /\ Goes(Head(todo[r]), <<"todo", r, dIdxLocal>>, <<"buffer", r, dIdxLocal>>)
         /\ TypeOK' /\ OwnersStay
<1> DEFINE flit == Head(todo[r])
           from == <<"todo", r, dIdxLocal>>
           to == <<"buffer", r, dIdxLocal>>
<1>1. /\ todo[r] # <<>> /\ HasRoom(routers[r], dIdxLocal)
      /\ routers' = [routers EXCEPT ![r] = Received(routers[r], dIdxLocal, flit)]
      /\ todo' = [todo EXCEPT ![r] = Tail(todo[r])]
      /\ Advance(flit) /\ traffic' = traffic /\ got' = got
  BY DEF Send
<1>2. /\ RouterOK(routers[r]) /\ dIdxLocal \in Ports /\ todo[r] \in Seq(Flits)
      /\ DOMAIN routers = Routers /\ todo \in [Routers -> Seq(Flits)] /\ got \in [Routers -> Seq(Flits)]
  BY RoutersAreOK DEF TypeOK
<1>3. /\ from \in Places /\ to \in Places
      /\ Contents[from] = todo[r] /\ Contents[to] = routers[r].buffer[dIdxLocal]
  BY <1>2, PlaceThere, ContentsNow
<1>4. flit \in Flits /\ Tail(todo[r]) \in Seq(Flits)
  BY <1>1, <1>2
<1>5. /\ flit.src \in Routers /\ flit.core \in Routers
      /\ TellsStep(flit.src, flit.core, gone[flit])
      /\ Place(flit.src, flit.core, gone[flit]) = from
  BY <1>1, <1>3, HeadAt
<1> HIDE DEF flit
<1>6. gone[flit] = 0 /\ flit.src = r
  BY <1>5 DEF TellsStep
<1>7. PlaceOf(flit, gone[flit] + 1) = to /\ gone[flit] + 1 <= Arrived(flit.src, flit.core)
  <2>1. /\ 0 \in 0 .. Hops(r, flit.core) /\ ToBuffer(0) = 1
        /\ Arrived(r, flit.core) \in Nat /\ Arrived(r, flit.core) >= 4
    BY <1>5, HopsFew DEF ToBuffer
  <2>2. Place(r, flit.core, 1) = <<"buffer", Way(r, flit.core, 0), Entry(r, flit.core, 0)>>
    BY <1>5, <2>1, PlaceValues
  <2>3. Way(r, flit.core, 0) = r /\ Entry(r, flit.core, 0) = dIdxLocal
    BY <1>5, <2>1, WayStart, EntryFacts
  <2>4. gone[flit] + 1 = 1 /\ PlaceOf(flit, 1) = Place(r, flit.core, 1)
    BY <1>6 DEF PlaceOf
  <2> QED
    BY <1>6, <2>1, <2>2, <2>3, <2>4
<1>8. /\ \A q \in Routers : routers'[q] = IF q = r THEN Received(routers[r], dIdxLocal, flit)
                                          ELSE routers[q]
      /\ \A q \in Routers : todo'[q] = IF q = r THEN Tail(todo[r]) ELSE todo[q]
      /\ DOMAIN routers' = Routers
      /\ todo' \in [Routers -> Seq(Flits)]
  BY <1>1, <1>2, <1>4
<1>9. /\ RouterOK(Received(routers[r], dIdxLocal, flit))
      /\ \A q \in Ports : Received(routers[r], dIdxLocal, flit).buffer[q] =
           IF q = dIdxLocal THEN Append(routers[r].buffer[dIdxLocal], flit) ELSE routers[r].buffer[q]
      /\ Received(routers[r], dIdxLocal, flit).slot = routers[r].slot
      /\ Received(routers[r], dIdxLocal, flit).latch = routers[r].latch
      /\ Received(routers[r], dIdxLocal, flit).owner = routers[r].owner
  BY <1>1, <1>2, <1>4, ReceivedChanges
<1>10. Moves(flit, from, to)
  <2> SUFFICES MovesPiecewise(flit, "todo", r, dIdxLocal, "buffer", r, dIdxLocal)
    BY MovesByPieces
  <2> SUFFICES ASSUME NEW kind \in {"todo", "got", "buffer", "slot", "latch"},
                      NEW q \in Routers, NEW o \in Ports
               PROVE  Contents'[<<kind, q, o>>] =
                        IF kind = "todo" /\ q = r /\ o = dIdxLocal THEN Tail(Contents[<<kind, q, o>>])
                        ELSE IF kind = "buffer" /\ q = r /\ o = dIdxLocal
                        THEN Append(Contents[<<kind, q, o>>], flit)
                        ELSE Contents[<<kind, q, o>>]
    BY DEF MovesPiecewise
  <2>1. KindsAt(q, o) /\ KindsAt(q, o)'
    BY KindsNowAndThen
  <2>2. CASE kind = "todo"
    BY <2>1, <1>8, <2>2 DEF KindsAt
  <2>3. CASE kind = "buffer"
    BY <2>1, <1>8, <1>9, <2>3 DEF KindsAt
  <2>4. CASE kind = "slot"
    BY <2>1, <1>8, <1>9, <2>4 DEF KindsAt
  <2>5. CASE kind = "latch"
    BY <2>1, <1>8, <1>9, <2>5 DEF KindsAt
  <2>6. CASE kind = "got"
    BY <2>1, <1>1, <2>6 DEF KindsAt
  <2> QED
    BY <2>2, <2>3, <2>4, <2>5, <2>6
<1>11. Goes(flit, from, to)
  BY <1>1, <1>3, <1>7, <1>10, GoesWhenMoves DEF flit
<1>12. \A q \in Routers : RouterOK(routers'[q])
  BY <1>8, <1>9, RoutersAreOK
<1>13. TypeOK'
  BY <1>1, <1>2, <1>4, <1>8, <1>12, TypesAfter DEF flit
<1>14. OwnersStay
  BY <1>8, <1>9 DEF OwnersStay
<1> QED
  BY <1>11, <1>13, <1>14 DEF flit

LEMMA ReceiveGoes ==
  ASSUME TypeOK, EachInPlace(Contents, gone), NEW r \in Routers, Receive(r)
  PROVE  /\ Goes(Head(routers[r].latch[dIdxLocal]), <<"latch", r, dIdxLocal>>, <<"got", r, dIdxLocal>>)
         /\ TypeOK' /\ OwnersStay
<1> DEFINE flit == Head(routers[r].latch[dIdxLocal])
           from == <<"latch", r, dIdxLocal>>
           to == <<"got", r, dIdxLocal>>
<1>1. /\ routers[r].latch[dIdxLocal] # <<>>
      /\ routers' = [routers EXCEPT ![r] = Left(routers[r], dIdxLocal)]
      /\ got' = [got EXCEPT ![r] = Append(got[r], flit)]
      /\ Advance(flit) /\ traffic' = traffic /\ todo' = todo
  BY DEF Receive, CanLeave
<1>2. /\ RouterOK(routers[r]) /\ dIdxLocal \in Ports /\ got[r] \in Seq(Flits)
      /\ routers[r].latch[dIdxLocal] \in {<<>>} \cup {<<f>> : f \in Flits}
      /\ DOMAIN routers = Routers /\ todo \in [Routers -> Seq(Flits)] /\ got \in [Routers -> Seq(Flits)]
  BY RoutersAreOK DEF TypeOK, RouterOK
<1>3. /\ from \in Places /\ to \in Places
      /\ Contents[from] = routers[r].latch[dIdxLocal] /\ Contents[to] = got[r]
  BY <1>2, PlaceThere, ContentsNow
<1>4. flit \in Flits /\ Append(got[r], flit) \in Seq(Flits) /\ routers[r].latch[dIdxLocal] = <<flit>>
  BY <1>1, <1>2
<1>5. /\ flit.src \in Routers /\ flit.core \in Routers
      /\ TellsStep(flit.src, flit.core, gone[flit])
      /\ Place(flit.src, flit.core, gone[flit]) = from
  BY <1>1, <1>3, HeadAt
<1> HIDE DEF flit
<1>6. PICK k \in 0 .. Hops(flit.src, flit.core) :
         gone[flit] = ToLatch(k) /\ r = Way(flit.src, flit.core, k)
         /\ dIdxLocal = Exit(flit.src, flit.core, k)
  <2>1. /\ Place(flit.src, flit.core, gone[flit])[1] = "latch"
        /\ Place(flit.src, flit.core, gone[flit])[2] = r
        /\ Place(flit.src, flit.core, gone[flit])[3] = dIdxLocal
    BY <1>5
  <2> QED
    BY <1>5, <2>1 DEF TellsStep
<1>7. PlaceOf(flit, gone[flit] + 1) = to /\ gone[flit] + 1 <= Arrived(flit.src, flit.core)
  <2>1. k = Hops(flit.src, flit.core) /\ r = flit.core
    BY <1>5, <1>6, WayEnd
  <2>2. /\ gone[flit] + 1 = Arrived(flit.src, flit.core)
        /\ Arrived(flit.src, flit.core) \in Nat
    <3>1. /\ Hops(flit.src, flit.core) \in 0 .. 4
          /\ Arrived(flit.src, flit.core) = 3 * Hops(flit.src, flit.core) + 4
      BY <1>5, HopsFew
    <3>2. gone[flit] = 3 * Hops(flit.src, flit.core) + 3
      BY <1>6, <2>1 DEF ToLatch
    <3> QED
      BY <3>1, <3>2
  <2> QED
    BY <1>5, <2>1, <2>2, PlaceValues DEF PlaceOf
<1>8. /\ \A q \in Routers : routers'[q] = IF q = r THEN Left(routers[r], dIdxLocal) ELSE routers[q]
      /\ \A q \in Routers : got'[q] = IF q = r THEN Append(got[r], flit) ELSE got[q]
      /\ DOMAIN routers' = Routers
      /\ got' \in [Routers -> Seq(Flits)]
  BY <1>1, <1>2, <1>4
<1>9. /\ RouterOK(Left(routers[r], dIdxLocal))
      /\ Left(routers[r], dIdxLocal).buffer = routers[r].buffer
      /\ Left(routers[r], dIdxLocal).slot = routers[r].slot
      /\ \A q \in Ports : Left(routers[r], dIdxLocal).latch[q] =
           IF q = dIdxLocal THEN <<>> ELSE routers[r].latch[q]
      /\ Left(routers[r], dIdxLocal).owner = routers[r].owner
  BY <1>2, LeftChanges
<1>10. Moves(flit, from, to)
  <2> SUFFICES MovesPiecewise(flit, "latch", r, dIdxLocal, "got", r, dIdxLocal)
    BY MovesByPieces
  <2> SUFFICES ASSUME NEW kind \in {"todo", "got", "buffer", "slot", "latch"},
                      NEW q \in Routers, NEW o \in Ports
               PROVE  Contents'[<<kind, q, o>>] =
                        IF kind = "latch" /\ q = r /\ o = dIdxLocal THEN Tail(Contents[<<kind, q, o>>])
                        ELSE IF kind = "got" /\ q = r /\ o = dIdxLocal
                        THEN Append(Contents[<<kind, q, o>>], flit)
                        ELSE Contents[<<kind, q, o>>]
    BY DEF MovesPiecewise
  <2>1. KindsAt(q, o) /\ KindsAt(q, o)'
    BY KindsNowAndThen
  <2>2. CASE kind = "todo"
    BY <2>1, <1>1, <2>2 DEF KindsAt
  <2>3. CASE kind = "buffer"
    BY <2>1, <1>8, <1>9, <2>3 DEF KindsAt
  <2>4. CASE kind = "slot"
    BY <2>1, <1>8, <1>9, <2>4 DEF KindsAt
  <2>5. CASE kind = "latch"
    <3>1. Tail(routers[r].latch[dIdxLocal]) = <<>>
      BY <1>4
    <3> QED
      BY <2>1, <1>8, <1>9, <2>5, <3>1, ZenonT(30) DEF KindsAt
  <2>6. CASE kind = "got"
    BY <2>1, <1>8, <2>6 DEF KindsAt
  <2> QED
    BY <2>2, <2>3, <2>4, <2>5, <2>6
<1>11. Goes(flit, from, to)
  BY <1>1, <1>3, <1>7, <1>10, GoesWhenMoves DEF flit
<1>12. \A q \in Routers : RouterOK(routers'[q])
  BY <1>8, <1>9, RoutersAreOK
<1>13. TypeOK'
  BY <1>1, <1>2, <1>4, <1>8, <1>12, TypesAfter
<1>14. OwnersStay
  BY <1>8, <1>9 DEF OwnersStay
<1> QED
  BY <1>11, <1>13, <1>14 DEF flit

LEMMA LatchGoes ==
  ASSUME TypeOK, EachInPlace(Contents, gone), NEW r \in Routers, Latch(r)
  PROVE  /\ Goes(routers[r].slot.flit, <<"slot", r, routers[r].slot.out>>,
                 <<"latch", r, routers[r].slot.out>>)
         /\ TypeOK' /\ OwnersStay
<1> DEFINE flit == routers[r].slot.flit
           out == routers[r].slot.out
           from == <<"slot", r, out>>
           to == <<"latch", r, out>>
<1>1. /\ routers[r].slot # None /\ routers[r].latch[out] = <<>>
      /\ routers' = [routers EXCEPT ![r] = Latched(routers[r])]
      /\ Advance(flit) /\ traffic' = traffic /\ todo' = todo /\ got' = got
  BY DEF Latch, CanLatch
<1>2. /\ RouterOK(routers[r]) /\ DOMAIN routers = Routers
      /\ todo \in [Routers -> Seq(Flits)] /\ got \in [Routers -> Seq(Flits)]
  BY RoutersAreOK DEF TypeOK
<1>3. /\ out \in Ports /\ flit \in Flits
      /\ RouterOK(Latched(routers[r]))
      /\ Latched(routers[r]).buffer = routers[r].buffer
      /\ Latched(routers[r]).slot = None
      /\ \A q \in Ports : Latched(routers[r]).latch[q] =
           IF q = out THEN <<flit>> ELSE routers[r].latch[q]
      /\ Latched(routers[r]).owner = routers[r].owner
  BY <1>1, <1>2, LatchedChanges
<1>4. /\ from \in Places /\ to \in Places
      /\ Contents[from] = <<flit>> /\ Contents[to] = <<>>
  <2>1. from \in Places /\ to \in Places
    BY <1>3, PlaceThere
  <2>2. KindsAt(r, out)
    BY <1>3, KindsNowAndThen
  <2> QED
    BY <1>1, <2>1, <2>2 DEF KindsAt
<1>5. Head(Contents[from]) = flit /\ Contents[from] # <<>>
  BY <1>4
<1> HIDE DEF flit, out
<1>6. /\ flit.src \in Routers /\ flit.core \in Routers
      /\ TellsStep(flit.src, flit.core, gone[flit])
      /\ Place(flit.src, flit.core, gone[flit]) = from
  BY <1>4, <1>5, HeadAt
<1>7. PICK k \in 0 .. Hops(flit.src, flit.core) :
         gone[flit] = ToSlot(k) /\ r = Way(flit.src, flit.core, k)
         /\ out = Exit(flit.src, flit.core, k)
  <2>1. /\ Place(flit.src, flit.core, gone[flit])[1] = "slot"
        /\ Place(flit.src, flit.core, gone[flit])[2] = r
        /\ Place(flit.src, flit.core, gone[flit])[3] = out
    BY <1>6
  <2> QED
    BY <1>6, <2>1 DEF TellsStep
<1>8. PlaceOf(flit, gone[flit] + 1) = to /\ gone[flit] + 1 <= Arrived(flit.src, flit.core)
  <2>1. /\ Hops(flit.src, flit.core) \in 0 .. 4
        /\ Arrived(flit.src, flit.core) = 3 * Hops(flit.src, flit.core) + 4
    BY <1>6, HopsFew
  <2>2. gone[flit] + 1 = ToLatch(k) /\ ToLatch(k) <= Arrived(flit.src, flit.core)
    BY <1>7, <2>1 DEF ToSlot, ToLatch
  <2>3. Place(flit.src, flit.core, ToLatch(k)) = <<"latch", r, out>>
    BY <1>6, <1>7, PlaceValues
  <2> QED
    BY <2>2, <2>3 DEF PlaceOf
<1>9. /\ \A q \in Routers : routers'[q] = IF q = r THEN Latched(routers[r]) ELSE routers[q]
      /\ DOMAIN routers' = Routers
  BY <1>1, <1>2
<1>10. Moves(flit, from, to)
  <2> SUFFICES MovesPiecewise(flit, "slot", r, out, "latch", r, out)
    BY MovesByPieces
  <2> SUFFICES ASSUME NEW kind \in {"todo", "got", "buffer", "slot", "latch"},
                      NEW q \in Routers, NEW o \in Ports
               PROVE  Contents'[<<kind, q, o>>] =
                        IF kind = "slot" /\ q = r /\ o = out THEN Tail(Contents[<<kind, q, o>>])
                        ELSE IF kind = "latch" /\ q = r /\ o = out
                        THEN Append(Contents[<<kind, q, o>>], flit)
                        ELSE Contents[<<kind, q, o>>]
    BY DEF MovesPiecewise
  <2>1. KindsAt(q, o) /\ KindsAt(q, o)'
    BY KindsNowAndThen
  <2>2. CASE kind = "todo"
    BY <1>1, <2>1, <2>2 DEF KindsAt
  <2>3. CASE kind = "buffer"
    BY <1>3, <1>9, <2>1, <2>3 DEF KindsAt
  <2>4. CASE kind = "slot"
    <3>1. CASE q = r
      <4>1. Contents'[<<"slot", q, o>>] = <<>>
        BY <1>3, <1>9, <2>1, <3>1 DEF KindsAt
      <4>2. CASE o = out
        <5>1. Tail(Contents[<<"slot", q, o>>]) = <<>>
          <6>1. Contents[<<"slot", q, o>>] = <<flit>> /\ flit \in Flits
            BY <1>3, <1>4, <3>1, <4>2
          <6> QED
            BY <6>1
        <5> QED
          BY <2>4, <3>1, <4>1, <4>2, <5>1
      <4>3. CASE o # out
        <5>1. Contents[<<"slot", q, o>>] = <<>>
          BY <1>1, <2>1, <3>1, <4>3 DEF KindsAt, out
        <5> QED
          BY <2>4, <4>1, <4>3, <5>1
      <4> QED
        BY <4>2, <4>3
    <3>2. CASE q # r
      BY <1>9, <2>1, <2>4, <3>2 DEF KindsAt
    <3> QED
      BY <3>1, <3>2
  <2>5. CASE kind = "latch"
    <3>1. CASE q = r /\ o = out
      <4>1. Contents[<<"latch", q, o>>] = <<>> /\ Contents'[<<"latch", q, o>>] = <<flit>>
        BY <1>3, <1>4, <1>9, <2>1, <3>1 DEF KindsAt
      <4>2. Append(<<>>, flit) = <<flit>>
        OBVIOUS
      <4> QED
        BY <2>5, <3>1, <4>1, <4>2
    <3>2. CASE ~(q = r /\ o = out)
      BY <1>3, <1>9, <2>1, <2>5, <3>2 DEF KindsAt
    <3> QED
      BY <3>1, <3>2
  <2>6. CASE kind = "got"
    BY <1>1, <2>1, <2>6 DEF KindsAt
  <2> QED
    BY <2>2, <2>3, <2>4, <2>5, <2>6
<1>11. Goes(flit, from, to)
  BY <1>1, <1>4, <1>5, <1>8, <1>10, GoesWhenMoves
<1>12. \A q \in Routers : RouterOK(routers'[q])
  BY <1>3, <1>9, RoutersAreOK
<1>13. TypeOK'
  BY <1>1, <1>2, <1>3, <1>9, <1>12, TypesAfter
<1>14. OwnersStay
  BY <1>3, <1>9 DEF OwnersStay
<1> QED
  BY <1>11, <1>13, <1>14 DEF flit, out

LEMMA LinkGoes ==
  ASSUME TypeOK, EachInPlace(Contents, gone), NEW r \in Routers, NEW o \in Links(r), Link(r, o)
  PROVE  /\ Neighbour(r, o) \in Routers /\ Opposite(o) \in Ports /\ o \in Ports
         /\ Goes(Head(routers[r].latch[o]), <<"latch", r, o>>,
                 <<"buffer", Neighbour(r, o), Opposite(o)>>)
         /\ TypeOK' /\ OwnersStay
<1> DEFINE flit == Head(routers[r].latch[o])
           nb == Neighbour(r, o)
           op == Opposite(o)
           from == <<"latch", r, o>>
           to == <<"buffer", nb, op>>
<1>0. /\ nb \in Routers /\ nb # r /\ op \in Ports /\ o \in Ports /\ o # dIdxLocal
  BY DEF Links, Neighbour, Opposite, Routers, n, rX, rY, Ports,
         dIdxNorth, dIdxEast, dIdxSouth, dIdxWest, dIdxLocal
<1>1. /\ routers[r].latch[o] # <<>> /\ HasRoom(routers[nb], op)
      /\ routers' = [routers EXCEPT ![r] = Left(routers[r], o),
                                    ![nb] = Received(routers[nb], op, flit)]
      /\ Advance(flit) /\ traffic' = traffic /\ todo' = todo /\ got' = got
  <2>1. [routers EXCEPT ![r] = Left(routers[r], o)][nb] = routers[nb]
    BY <1>0 DEF TypeOK
  <2> QED
    BY <2>1 DEF Link, CanLeave
<1>2. /\ RouterOK(routers[r]) /\ RouterOK(routers[nb]) /\ DOMAIN routers = Routers
      /\ routers[r].latch[o] \in {<<>>} \cup {<<f>> : f \in Flits}
      /\ todo \in [Routers -> Seq(Flits)] /\ got \in [Routers -> Seq(Flits)]
  BY <1>0, RoutersAreOK DEF TypeOK, RouterOK
<1>3. /\ from \in Places /\ to \in Places
      /\ Contents[from] = routers[r].latch[o] /\ Contents[to] = routers[nb].buffer[op]
  BY <1>0, PlaceThere, ContentsNow
<1>4. flit \in Flits /\ routers[r].latch[o] = <<flit>>
  BY <1>1, <1>2
<1>5. Head(Contents[from]) = flit /\ Contents[from] # <<>>
  BY <1>3, <1>4
<1> HIDE DEF flit, nb, op
<1>6. /\ flit.src \in Routers /\ flit.core \in Routers
      /\ TellsStep(flit.src, flit.core, gone[flit])
      /\ Place(flit.src, flit.core, gone[flit]) = from
  BY <1>3, <1>5, HeadAt
<1>7. PICK k \in 0 .. Hops(flit.src, flit.core) :
         gone[flit] = ToLatch(k) /\ r = Way(flit.src, flit.core, k)
         /\ o = Exit(flit.src, flit.core, k)
  <2>1. /\ Place(flit.src, flit.core, gone[flit])[1] = "latch"
        /\ Place(flit.src, flit.core, gone[flit])[2] = r
        /\ Place(flit.src, flit.core, gone[flit])[3] = o
    BY <1>6
  <2> QED
    BY <1>6, <2>1 DEF TellsStep
<1>8. PlaceOf(flit, gone[flit] + 1) = to /\ gone[flit] + 1 <= Arrived(flit.src, flit.core)
  <2>1. /\ Hops(flit.src, flit.core) \in 0 .. 4
        /\ Arrived(flit.src, flit.core) = 3 * Hops(flit.src, flit.core) + 4
    BY <1>6, HopsFew
  <2>2. k # Hops(flit.src, flit.core)
    BY <1>0, <1>6, <1>7, WayEnd
  <2>3. k < Hops(flit.src, flit.core) /\ k + 1 \in 0 .. Hops(flit.src, flit.core) /\ k \in Nat
    BY <2>1, <2>2
  <2>4. gone[flit] + 1 = ToBuffer(k + 1) /\ ToBuffer(k + 1) <= Arrived(flit.src, flit.core)
    BY <1>7, <2>1, <2>3 DEF ToBuffer, ToLatch
  <2>5. Way(flit.src, flit.core, k + 1) = nb
    BY <1>6, <1>7, <2>3, WayStep DEF nb
  <2>6. Entry(flit.src, flit.core, k + 1) = op
    <3>1. k + 1 # 0 /\ (k + 1) - 1 = k
      BY <2>3
    <3> QED
      BY <1>7, <3>1 DEF Entry, op
  <2>7. Place(flit.src, flit.core, ToBuffer(k + 1)) = <<"buffer", nb, op>>
    BY <1>6, <2>3, <2>5, <2>6, PlaceValues
  <2> QED
    BY <2>4, <2>7 DEF PlaceOf
<1>9. /\ \A q \in Routers : routers'[q] = IF q = nb THEN Received(routers[nb], op, flit)
                                          ELSE IF q = r THEN Left(routers[r], o) ELSE routers[q]
      /\ DOMAIN routers' = Routers
  BY <1>0, <1>1, <1>2
<1>10. /\ RouterOK(Left(routers[r], o))
       /\ Left(routers[r], o).buffer = routers[r].buffer
       /\ Left(routers[r], o).slot = routers[r].slot
       /\ \A q \in Ports : Left(routers[r], o).latch[q] = IF q = o THEN <<>> ELSE routers[r].latch[q]
       /\ Left(routers[r], o).owner = routers[r].owner
  BY <1>0, <1>2, LeftChanges
<1>11. /\ RouterOK(Received(routers[nb], op, flit))
       /\ \A q \in Ports : Received(routers[nb], op, flit).buffer[q] =
            IF q = op THEN Append(routers[nb].buffer[op], flit) ELSE routers[nb].buffer[q]
       /\ Received(routers[nb], op, flit).slot = routers[nb].slot
       /\ Received(routers[nb], op, flit).latch = routers[nb].latch
       /\ Received(routers[nb], op, flit).owner = routers[nb].owner
  BY <1>0, <1>1, <1>2, <1>4, ReceivedChanges
<1>12. Moves(flit, from, to)
  <2> SUFFICES MovesPiecewise(flit, "latch", r, o, "buffer", nb, op)
    BY MovesByPieces
  <2> SUFFICES ASSUME NEW kind \in {"todo", "got", "buffer", "slot", "latch"},
                      NEW q \in Routers, NEW port \in Ports
               PROVE  Contents'[<<kind, q, port>>] =
                        IF kind = "latch" /\ q = r /\ port = o THEN Tail(Contents[<<kind, q, port>>])
                        ELSE IF kind = "buffer" /\ q = nb /\ port = op
                        THEN Append(Contents[<<kind, q, port>>], flit)
                        ELSE Contents[<<kind, q, port>>]
    BY DEF MovesPiecewise
  <2>1. KindsAt(q, port) /\ KindsAt(q, port)'
    BY KindsNowAndThen
  <2>2. CASE kind = "todo"
    BY <1>1, <2>1, <2>2 DEF KindsAt
  <2>3. CASE kind = "buffer"
    BY <1>0, <1>9, <1>10, <1>11, <2>1, <2>3 DEF KindsAt
  <2>4. CASE kind = "slot"
    BY <1>9, <1>10, <1>11, <2>1, <2>4 DEF KindsAt
  <2>5. CASE kind = "latch"
    <3>1. Tail(routers[r].latch[o]) = <<>>
      BY <1>4
    <3> QED
      BY <1>0, <1>9, <1>10, <1>11, <2>1, <2>5, <3>1, ZenonT(30) DEF KindsAt
  <2>6. CASE kind = "got"
    BY <1>1, <2>1, <2>6 DEF KindsAt
  <2> QED
    BY <2>2, <2>3, <2>4, <2>5, <2>6
<1>13. Goes(flit, from, to)
  BY <1>1, <1>3, <1>5, <1>8, <1>12, GoesWhenMoves
<1>14. \A q \in Routers : RouterOK(routers'[q])
  BY <1>9, <1>10, <1>11, RoutersAreOK
<1>15. TypeOK'
  BY <1>1, <1>2, <1>4, <1>9, <1>14, TypesAfter
<1>16. OwnersStay
  BY <1>9, <1>10, <1>11 DEF OwnersStay
<1> QED
  BY <1>0, <1>13, <1>15, <1>16 DEF flit, nb, op

-----------------------------------------------------------------------------
\* An output that belongs to an input is that of the flit at its head.
LEMMA PassingIsHead ==
  ASSUME OrderInv, NEW l \in Flits, NEW e \in Flits, NEW k \in Nat, Passes(l, e, k),
         NEW r \in Routers, NEW p \in Ports,
         r = Way(l.src, l.core, k), p = Entry(l.src, l.core, k),
         Contents[<<"buffer", r, p>>] # <<>>
  PROVE  l = Head(Contents[<<"buffer", r, p>>]) /\ gone[l] = ToBuffer(k)
<1> DEFINE place == <<"buffer", r, p>>
<1>1. /\ TypeOK /\ traffic \in Traffics /\ EachInPlace(Contents, gone)
      /\ Reserved(Contents, gone) /\ NothingBetween(Contents, gone)
  BY DEF OrderInv, TypeOK
<1>2. /\ Follows(l, e) /\ k \in 0 .. Hops(l.src, l.core)
      /\ gone[l] <= ToBuffer(k) /\ gone[e] > ToBuffer(k)
  BY DEF Passes
<1>3. /\ l.src = e.src /\ l.core = e.core /\ l.src \in Routers /\ l.core \in Routers
  BY <1>1, <1>2, FlitFacts, FollowsFacts
<1>4. /\ Arrived(l.src, l.core) \in Nat /\ ToBuffer(k) \in 0 .. Arrived(l.src, l.core)
      /\ gone[l] \in 0 .. Arrived(l.src, l.core) /\ gone[e] \in 0 .. Arrived(l.src, l.core)
  <2>1. Hops(l.src, l.core) \in 0 .. 4 /\ Arrived(l.src, l.core) = 3 * Hops(l.src, l.core) + 4
    BY <1>3, HopsFew
  <2>2. ToBuffer(k) = 3 * k + 1
    BY DEF ToBuffer
  <2>3. gone[l] \in 0 .. Arrived(l.src, l.core) /\ gone[e] \in 0 .. Arrived(e.src, e.core)
    BY <1>1 DEF EachInPlace
  <2>4. ToBuffer(k) \in 0 .. Arrived(l.src, l.core) /\ Arrived(l.src, l.core) \in Nat
    BY <1>2, <2>1, <2>2
  <2>5. gone[e] \in 0 .. Arrived(l.src, l.core)
    BY <1>3, <2>3
  <2> QED
    BY <2>3, <2>4, <2>5
<1>5. PlaceOf(l, ToBuffer(k)) = place /\ place \in Places
  BY <1>2, <1>3, PlaceValues, PlaceThere DEF PlaceOf
<1>6. gone[l] = ToBuffer(k)
  <2> SUFFICES ASSUME gone[l] # ToBuffer(k) PROVE FALSE
    OBVIOUS
  <2>1. ToBuffer(k) \in gone[l] + 1 .. gone[e]
    BY <1>2, <1>4
  <2>2. gone[e] = ToBuffer(k)
    BY <1>1, <1>2, <1>5, <2>1 DEF Reserved
  <2> QED
    BY <1>2, <1>4, <2>2
<1>7. PICK i \in 1 .. Len(Contents[place]) : Contents[place][i] = l
  BY <1>1, <1>5, <1>6, SMTT(30) DEF EachInPlace
<1>8. Contents[place] \in Seq(Flits)
  BY <1>1, <1>5, ContentsValues DEF Holds
<1>9. i = 1
  <2> SUFFICES ASSUME i # 1 PROVE FALSE
    OBVIOUS
  <2>1. i - 1 \in 1 .. Len(Contents[place])
    BY <1>8
  <2>2. Contents[place][i - 1] = e
    BY <1>1, <1>2, <1>5, <1>7 DEF NothingBetween
  <2>3. PlaceOf(e, gone[e]) = place
    BY <1>1, <1>5, <2>1, <2>2, SMTT(30) DEF EachInPlace
  <2>4. PlaceOf(e, ToBuffer(k)) = place
    BY <1>3, <1>5 DEF PlaceOf
  <2>5. \A s, t \in 0 .. Arrived(e.src, e.core) : PlaceOf(e, s) = PlaceOf(e, t) => s = t
    BY <1>1, WayOfFlit
  <2>6. gone[e] = ToBuffer(k)
    BY <1>3, <1>4, <2>3, <2>4, <2>5
  <2> QED
    BY <1>2, <1>4, <2>6
<1>10. l = Head(Contents[place])
  BY <1>7, <1>8, <1>9
<1> QED
  BY <1>6, <1>10

\* The output that takes a flit is the one on its way.
LEMMA TakerIsOnWay ==
  ASSUME OrderInv, NEW r \in Routers, NEW p \in Ports, NEW o \in Takers(routers[r], rX(r), rY(r), p)
  PROVE  LET flit == Head(routers[r].buffer[p])
         IN  /\ routers[r].buffer[p] # <<>> /\ o \in Ports
             /\ flit \in Flits /\ flit.src \in Routers /\ flit.core \in Routers
             /\ \E k \in 0 .. Hops(flit.src, flit.core) :
                  /\ gone[flit] = ToBuffer(k)
                  /\ r = Way(flit.src, flit.core, k)
                  /\ p = Entry(flit.src, flit.core, k)
                  /\ o = Exit(flit.src, flit.core, k)
<1> DEFINE flit == Head(routers[r].buffer[p])
           from == <<"buffer", r, p>>
<1>0. TypeOK /\ EachInPlace(Contents, gone) /\ OwnersRight
  BY DEF OrderInv
<1>1. /\ routers[r].buffer[p] # <<>> /\ o \in Ports
      /\ \/ routers[r].owner[o] = p
         \/ /\ routers[r].owner[o] = None
            /\ flit.flitType = "HEAD"
            /\ computeDestinationPort(flit.core, rX(r), rY(r)) = o
  BY DEF Takers
<1>2. from \in Places /\ Contents[from] = routers[r].buffer[p]
  BY PlaceThere, ContentsNow
<1> HIDE DEF flit
<1>3. /\ flit \in Flits /\ flit.src \in Routers /\ flit.core \in Routers
      /\ TellsStep(flit.src, flit.core, gone[flit])
      /\ Place(flit.src, flit.core, gone[flit]) = from
  BY <1>0, <1>1, <1>2, HeadAt DEF flit
<1>4. PICK k \in 0 .. Hops(flit.src, flit.core) :
         gone[flit] = ToBuffer(k) /\ r = Way(flit.src, flit.core, k)
         /\ p = Entry(flit.src, flit.core, k)
  <2>1. /\ Place(flit.src, flit.core, gone[flit])[1] = "buffer"
        /\ Place(flit.src, flit.core, gone[flit])[2] = r
        /\ Place(flit.src, flit.core, gone[flit])[3] = p
    BY <1>3
  <2> QED
    BY <1>3, <2>1 DEF TellsStep
<1>5. k \in Nat
  BY <1>3, HopsFew
<1>6. o = Exit(flit.src, flit.core, k)
  <2>1. CASE computeDestinationPort(flit.core, rX(r), rY(r)) = o
    <3>1. rX(r) = WayX(flit.src, flit.core, k) /\ rY(r) = WayY(flit.src, flit.core, k)
      BY <1>3, <1>4, <1>5, WayFacts
    <3> QED
      BY <2>1, <3>1 DEF Exit
  <2>2. CASE routers[r].owner[o] = p
    <3>1. p # None
      BY MeshAssumption
    <3>2. PICK l \in Flits, e \in Flits, j \in 0 .. 4 : Passes(l, e, j) /\ OutputOf(l, j) = <<r, o>>
      BY <1>0, <1>1, <2>2, <3>1 DEF OwnersRight
    <3>3. r = Way(l.src, l.core, j) /\ o = Exit(l.src, l.core, j)
      BY <3>2 DEF OutputOf
    <3>4. p = Entry(l.src, l.core, j)
      <4>1. OutputOf(l, j)[1] = r /\ OutputOf(l, j)[2] = o
        BY <3>2
      <4>2. routers[OutputOf(l, j)[1]].owner[OutputOf(l, j)[2]] = Entry(l.src, l.core, j)
        BY <1>0, <3>2 DEF OwnersRight
      <4> QED
        BY <2>2, <4>1, <4>2
    <3>5. l = flit /\ gone[l] = ToBuffer(j)
      <4>1. j \in Nat /\ Passes(l, e, j)
        BY <3>2
      <4>2. Contents[<<"buffer", r, p>>] = routers[r].buffer[p] /\ routers[r].buffer[p] # <<>>
        BY <1>1, <1>2
      <4>3. Contents[<<"buffer", r, p>>] # <<>>
        BY <4>2
      <4>4. l = Head(Contents[<<"buffer", r, p>>]) /\ gone[l] = ToBuffer(j)
        BY <3>3, <3>4, <4>1, <4>3, PassingIsHead
      <4> QED
        BY <4>2, <4>4 DEF flit
    <3>6. j = k
      BY <1>4, <1>5, <3>5 DEF ToBuffer
    <3> QED
      BY <3>3, <3>5, <3>6
  <2> QED
    BY <1>1, <2>1, <2>2
<1> QED
  BY <1>1, <1>3, <1>4, <1>6 DEF flit

TraverseBy(r, p, o) ==
  /\ routers[r].slot = None
  /\ routers' = [routers EXCEPT ![r] = Traversed(routers[r], p, o)]
  /\ Advance(Head(routers[r].buffer[p]))
  /\ traffic' = traffic /\ todo' = todo /\ got' = got

LEMMA TraverseGoes ==
  ASSUME OrderInv, NEW r \in Routers, NEW p \in Ports,
         NEW o \in Takers(routers[r], rX(r), rY(r), p), TraverseBy(r, p, o)
  PROVE  /\ Goes(Head(routers[r].buffer[p]), <<"buffer", r, p>>, <<"slot", r, o>>)
         /\ TypeOK'
         /\ \A q \in Routers, port \in Ports :
              routers'[q].owner[port] = IF q = r /\ port = o
                                        THEN OwnerAfter(Head(routers[r].buffer[p]), p)
                                        ELSE routers[q].owner[port]
<1> DEFINE flit == Head(routers[r].buffer[p])
           from == <<"buffer", r, p>>
           to == <<"slot", r, o>>
<1>0. TypeOK /\ EachInPlace(Contents, gone)
  BY DEF OrderInv
<1>1. /\ routers[r].slot = None
      /\ routers' = [routers EXCEPT ![r] = Traversed(routers[r], p, o)]
      /\ Advance(flit) /\ traffic' = traffic /\ todo' = todo /\ got' = got
  BY DEF TraverseBy
<1>2. /\ RouterOK(routers[r]) /\ DOMAIN routers = Routers
      /\ todo \in [Routers -> Seq(Flits)] /\ got \in [Routers -> Seq(Flits)]
      /\ traffic \in Traffics
  BY <1>0, RoutersAreOK DEF TypeOK
<1>3. /\ routers[r].buffer[p] # <<>> /\ o \in Ports
      /\ flit \in Flits /\ flit.src \in Routers /\ flit.core \in Routers
      /\ \E k \in 0 .. Hops(flit.src, flit.core) :
           /\ gone[flit] = ToBuffer(k)
           /\ r = Way(flit.src, flit.core, k)
           /\ p = Entry(flit.src, flit.core, k)
           /\ o = Exit(flit.src, flit.core, k)
  BY TakerIsOnWay
<1>4. /\ RouterOK(Traversed(routers[r], p, o))
      /\ \A q \in Ports : Traversed(routers[r], p, o).buffer[q] =
           IF q = p THEN Tail(routers[r].buffer[p]) ELSE routers[r].buffer[q]
      /\ Traversed(routers[r], p, o).slot # None
      /\ Traversed(routers[r], p, o).slot.flit = flit
      /\ Traversed(routers[r], p, o).slot.out = o
      /\ Traversed(routers[r], p, o).latch = routers[r].latch
      /\ \A q \in Ports : Traversed(routers[r], p, o).owner[q] =
           IF q = o THEN OwnerAfter(flit, p) ELSE routers[r].owner[q]
  <2>1. /\ traffic \in Traffics /\ RouterOK(routers[r]) /\ o \in Ports
        /\ routers[r].buffer[p] # <<>>
    BY <1>2, <1>3
  <2> QED
    BY <2>1, TraversedChanges
<1>5. /\ from \in Places /\ to \in Places
      /\ Contents[from] = routers[r].buffer[p] /\ Contents[to] = <<>>
  BY <1>1, <1>3, PlaceThere, ContentsNow
<1>6. Head(Contents[from]) = flit /\ Contents[from] # <<>>
  BY <1>3, <1>5
<1> HIDE DEF flit
<1>7. PICK k \in 0 .. Hops(flit.src, flit.core) :
           /\ gone[flit] = ToBuffer(k)
           /\ r = Way(flit.src, flit.core, k)
           /\ p = Entry(flit.src, flit.core, k)
           /\ o = Exit(flit.src, flit.core, k)
  BY <1>3
<1>8. PlaceOf(flit, gone[flit] + 1) = to /\ gone[flit] + 1 <= Arrived(flit.src, flit.core)
  <2>1. /\ Hops(flit.src, flit.core) \in 0 .. 4
        /\ Arrived(flit.src, flit.core) = 3 * Hops(flit.src, flit.core) + 4
    BY <1>3, HopsFew
  <2>2. gone[flit] + 1 = ToSlot(k) /\ ToSlot(k) <= Arrived(flit.src, flit.core)
    BY <1>7, <2>1 DEF ToSlot, ToBuffer
  <2>3. Place(flit.src, flit.core, ToSlot(k)) = <<"slot", r, o>>
    BY <1>3, <1>7, PlaceValues
  <2> QED
    BY <2>2, <2>3 DEF PlaceOf
<1>9. /\ \A q \in Routers : routers'[q] = IF q = r THEN Traversed(routers[r], p, o) ELSE routers[q]
      /\ DOMAIN routers' = Routers
  BY <1>1, <1>2
<1>10. Moves(flit, from, to)
  <2> SUFFICES MovesPiecewise(flit, "buffer", r, p, "slot", r, o)
    BY MovesByPieces
  <2> SUFFICES ASSUME NEW kind \in {"todo", "got", "buffer", "slot", "latch"},
                      NEW q \in Routers, NEW port \in Ports
               PROVE  Contents'[<<kind, q, port>>] =
                        IF kind = "buffer" /\ q = r /\ port = p THEN Tail(Contents[<<kind, q, port>>])
                        ELSE IF kind = "slot" /\ q = r /\ port = o
                        THEN Append(Contents[<<kind, q, port>>], flit)
                        ELSE Contents[<<kind, q, port>>]
    BY DEF MovesPiecewise
  <2>1. KindsAt(q, port) /\ KindsAt(q, port)'
    BY KindsNowAndThen
  <2>2. CASE kind = "todo"
    BY <1>1, <2>1, <2>2 DEF KindsAt
  <2>3. CASE kind = "buffer"
    BY <1>4, <1>9, <2>1, <2>3 DEF KindsAt
  <2>4. CASE kind = "slot"
    <3>1. CASE q = r
      <4>1. Contents[<<"slot", q, port>>] = <<>>
        BY <1>1, <2>1, <3>1 DEF KindsAt
      <4>2. Contents'[<<"slot", q, port>>] = IF port = o THEN <<flit>> ELSE <<>>
        BY <1>4, <1>9, <2>1, <3>1 DEF KindsAt
      <4>3. Append(<<>>, flit) = <<flit>>
        OBVIOUS
      <4> QED
        BY <2>4, <3>1, <4>1, <4>2, <4>3
    <3>2. CASE q # r
      BY <1>9, <2>1, <2>4, <3>2 DEF KindsAt
    <3> QED
      BY <3>1, <3>2
  <2>5. CASE kind = "latch"
    BY <1>4, <1>9, <2>1, <2>5 DEF KindsAt
  <2>6. CASE kind = "got"
    BY <1>1, <2>1, <2>6 DEF KindsAt
  <2> QED
    BY <2>2, <2>3, <2>4, <2>5, <2>6
<1>11. Goes(flit, from, to)
  BY <1>0, <1>1, <1>5, <1>6, <1>8, <1>10, GoesWhenMoves
<1>12. \A q \in Routers : RouterOK(routers'[q])
  BY <1>0, <1>4, <1>9, RoutersAreOK
<1>13. TypeOK'
  BY <1>0, <1>1, <1>2, <1>3, <1>9, <1>12, TypesAfter
<1>14. \A q \in Routers, port \in Ports :
         routers'[q].owner[port] = IF q = r /\ port = o THEN OwnerAfter(flit, p)
                                   ELSE routers[q].owner[port]
  BY <1>4, <1>9
<1> QED
  BY <1>11, <1>13, <1>14 DEF flit

-----------------------------------------------------------------------------
\* Flits that come to a place, other than a crossbar, come from one place.
LEMMA OwnWayOutside ==
  ASSUME TypeOK, EachInPlace(Contents, gone), NEW flit, NEW from, NEW to,
         Goes(flit, from, to), to[1] # "slot"
  PROVE  OwnWay(gone, from, to)
<1> SUFFICES ASSUME NEW l \in Flits, NEW e \in Flits, Follows(l, e),
                    NEW s \in gone[l] + 1 .. gone[e], PlaceOf(l, s) = to
             PROVE  PlaceOf(l, s - 1) = from
  BY DEF OwnWay
<1>1. /\ traffic \in Traffics /\ flit \in Flits
      /\ gone[flit] + 1 \in 1 .. Arrived(flit.src, flit.core) /\ gone[flit] \in Nat
      /\ from = PlaceOf(flit, gone[flit]) /\ to = PlaceOf(flit, gone[flit] + 1)
  BY DEF TypeOK, Goes, Advances
<1>2. /\ l.src \in Routers /\ l.core \in Routers /\ l.src = e.src /\ l.core = e.core
      /\ flit.src \in Routers /\ flit.core \in Routers
  BY <1>1, FlitFacts, FollowsFacts
<1>3. s \in 1 .. Arrived(l.src, l.core)
  <2>1. gone[l] \in 0 .. Arrived(l.src, l.core) /\ gone[e] \in 0 .. Arrived(e.src, e.core)
    BY DEF EachInPlace
  <2>2. Arrived(l.src, l.core) \in Nat
    BY <1>1, WayOfFlit
  <2> QED
    BY <1>2, <2>1, <2>2
<1>4. /\ Place(l.src, l.core, s) = Place(flit.src, flit.core, gone[flit] + 1)
      /\ Place(l.src, l.core, s)[1] # "slot"
  BY <1>1 DEF PlaceOf
<1>5. Place(l.src, l.core, s - 1) = Place(flit.src, flit.core, (gone[flit] + 1) - 1)
  BY <1>1, <1>2, <1>3, <1>4, PlaceBack
<1>6. (gone[flit] + 1) - 1 = gone[flit]
  BY <1>1
<1> QED
  BY <1>1, <1>5, <1>6 DEF PlaceOf

\* Into a crossbar an output takes flits from the input it belongs to.
LEMMA OwnWayInside ==
  ASSUME OrderInv, NEW r \in Routers, NEW p \in Ports,
         NEW o \in Takers(routers[r], rX(r), rY(r), p)
  PROVE  OwnWay(gone, <<"buffer", r, p>>, <<"slot", r, o>>)
<1> SUFFICES ASSUME NEW l \in Flits, NEW e \in Flits, Follows(l, e),
                    NEW s \in gone[l] + 1 .. gone[e], PlaceOf(l, s) = <<"slot", r, o>>
             PROVE  PlaceOf(l, s - 1) = <<"buffer", r, p>>
  BY DEF OwnWay
<1>1. /\ TypeOK /\ traffic \in Traffics /\ EachInPlace(Contents, gone) /\ OwnersRight
  BY DEF OrderInv, TypeOK
<1>2. /\ l.src \in Routers /\ l.core \in Routers /\ l.src = e.src /\ l.core = e.core
      /\ gone[l] \in Nat /\ gone[e] \in Nat
  BY <1>1, FlitFacts, FollowsFacts DEF TypeOK
<1>3. s \in 0 .. Arrived(l.src, l.core)
  <2>1. gone[l] \in 0 .. Arrived(l.src, l.core) /\ gone[e] \in 0 .. Arrived(e.src, e.core)
    BY <1>1 DEF EachInPlace
  <2>2. Arrived(l.src, l.core) \in Nat
    BY <1>1, WayOfFlit
  <2> QED
    BY <1>2, <2>1, <2>2
<1>4. TellsStep(l.src, l.core, s)
  BY <1>2, <1>3, StepOfPlace
<1>5. PICK k \in 0 .. Hops(l.src, l.core) :
         s = ToSlot(k) /\ r = Way(l.src, l.core, k) /\ o = Exit(l.src, l.core, k)
  <2>1. /\ Place(l.src, l.core, s)[1] = "slot"
        /\ Place(l.src, l.core, s)[2] = r
        /\ Place(l.src, l.core, s)[3] = o
    BY DEF PlaceOf
  <2> QED
    BY <1>4, <2>1 DEF TellsStep
<1>6. k \in 0 .. 4
  BY <1>2, HopsFew
<1>7. s - 1 = ToBuffer(k)
  BY <1>5, <1>6 DEF ToSlot, ToBuffer
<1>8. Passes(l, e, k)
  <2>1. gone[l] <= s - 1 /\ gone[e] > s - 1
    BY <1>2
  <2> QED
    BY <1>7, <2>1 DEF Passes
<1>9. routers[r].owner[o] = Entry(l.src, l.core, k)
  <2>1. OutputOf(l, k)[1] = r /\ OutputOf(l, k)[2] = o
    BY <1>5 DEF OutputOf
  <2> QED
    BY <1>1, <1>6, <1>8, <2>1 DEF OwnersRight
<1>10. Entry(l.src, l.core, k) = p
  <2>1. Entry(l.src, l.core, k) \in Ports /\ Entry(l.src, l.core, k) # None
    BY <1>2, EntryFacts, MeshAssumption
  <2>2. routers[r].owner[o] = p \/ routers[r].owner[o] = None
    BY DEF Takers
  <2> QED
    BY <1>9, <2>1, <2>2
<1>11. Place(l.src, l.core, ToBuffer(k)) = <<"buffer", r, p>>
  BY <1>2, <1>5, <1>10, PlaceValues
<1> QED
  BY <1>7, <1>11 DEF PlaceOf

-----------------------------------------------------------------------------
\* Which messages pass which outputs after a step.
PassesThen(l, e, k) == /\ Follows(l, e)
                       /\ k \in 0 .. Hops(l.src, l.core)
                       /\ gone'[l] <= ToBuffer(k) /\ gone'[e] > ToBuffer(k)

OwnersThen ==
  /\ \A l, e \in Flits : \A k \in 0 .. 4 : PassesThen(l, e, k) =>
       /\ routers'[OutputOf(l, k)[1]].owner[OutputOf(l, k)[2]] = Entry(l.src, l.core, k)
       /\ \A other, before \in Flits : \A j \in 0 .. 4 :
            PassesThen(other, before, j) /\ OutputOf(other, j) = OutputOf(l, k) => other = l
  /\ \A r \in Routers : \A o \in Ports : routers'[r].owner[o] # None =>
       \E l, e \in Flits : \E k \in 0 .. 4 : PassesThen(l, e, k) /\ OutputOf(l, k) = <<r, o>>

LEMMA OwnersAfter == ASSUME traffic' = traffic, OwnersThen PROVE OwnersRight'
<1>1. Flits' = Flits
  BY DEF Flits
<1>2. \A l, e, k : Passes(l, e, k)' <=> PassesThen(l, e, k)
  BY DEF Passes, PassesThen
<1> QED
  BY <1>1, <1>2 DEF OwnersThen, OwnersRight

\* The outputs of a way are outputs.
LEMMA OutputsThere ==
  ASSUME traffic \in Traffics, NEW l \in Flits, NEW k \in Nat
  PROVE  /\ OutputOf(l, k)[1] \in Routers /\ OutputOf(l, k)[2] \in Ports
         /\ OutputOf(l, k) = <<OutputOf(l, k)[1], OutputOf(l, k)[2]>>
<1>1. l.src \in Routers /\ l.core \in Routers
  BY FlitFacts
<1>2. Way(l.src, l.core, k) \in Routers /\ Exit(l.src, l.core, k) \in Ports
  BY <1>1, WayFacts
<1> QED
  BY <1>2 DEF OutputOf

\* The numbers of a step that lets flit go on.
LEMMA StepsThen ==
  ASSUME TypeOK, NEW flit, NEW from, NEW to, Goes(flit, from, to)
  PROVE  /\ flit \in Flits /\ flit.src \in Routers /\ flit.core \in Routers
         /\ gone[flit] \in Nat /\ gone'[flit] = gone[flit] + 1
         /\ \A other \in Flits : gone[other] \in Nat /\ gone'[other] \in Nat
         /\ \A other \in Flits : other # flit => gone'[other] = gone[other]
<1>1. /\ flit \in Flits /\ traffic \in Traffics /\ gone \in [Flits -> Nat]
      /\ gone' = [gone EXCEPT ![flit] = gone[flit] + 1]
  BY DEF TypeOK, Goes, Advances
<1> QED
  BY <1>1, FlitFacts

LEMMA OwnersOutside ==
  ASSUME TypeOK, EachInPlace(Contents, gone), OwnersRight, OwnersStay,
         NEW flit, NEW from, NEW to, Goes(flit, from, to), to[1] # "slot"
  PROVE  OwnersThen
<1>1. /\ flit \in Flits /\ flit.src \in Routers /\ flit.core \in Routers
      /\ gone[flit] \in Nat /\ gone'[flit] = gone[flit] + 1
      /\ \A other \in Flits : gone[other] \in Nat /\ gone'[other] \in Nat
      /\ \A other \in Flits : other # flit => gone'[other] = gone[other]
      /\ traffic \in Traffics
  BY StepsThen DEF TypeOK
<1>2. ASSUME NEW k \in 0 .. Hops(flit.src, flit.core) PROVE gone[flit] # ToBuffer(k)
  <2> SUFFICES ASSUME gone[flit] = ToBuffer(k) PROVE FALSE
    OBVIOUS
  <2>1. Hops(flit.src, flit.core) \in 0 .. 4
    BY <1>1, HopsFew
  <2>2. gone[flit] + 1 = ToSlot(k)
    BY <2>1 DEF ToBuffer, ToSlot
  <2>3. Place(flit.src, flit.core, ToSlot(k))
          = <<"slot", Way(flit.src, flit.core, k), Exit(flit.src, flit.core, k)>>
    BY <1>1, PlaceValues
  <2>4. to = Place(flit.src, flit.core, ToSlot(k))
    BY <2>2 DEF Goes, Advances, PlaceOf
  <2> QED
    BY <2>3, <2>4
<1>3. ASSUME NEW l \in Flits, NEW e \in Flits, NEW k \in 0 .. 4
      PROVE  PassesThen(l, e, k) <=> Passes(l, e, k)
  <2> SUFFICES ASSUME Follows(l, e), k \in 0 .. Hops(l.src, l.core)
               PROVE  gone'[l] <= ToBuffer(k) /\ gone'[e] > ToBuffer(k)
                        <=> gone[l] <= ToBuffer(k) /\ gone[e] > ToBuffer(k)
    BY DEF Passes, PassesThen
  <2>1. l.src = e.src /\ l.core = e.core /\ l # e
    BY <1>1, FollowsFacts
  <2>2. ToBuffer(k) \in Nat
    BY DEF ToBuffer
  <2>3. CASE l = flit
    <3>1. gone[l] # ToBuffer(k)
      BY <1>2, <2>3
    <3> QED
      BY <1>1, <2>1, <2>2, <2>3, <3>1
  <2>4. CASE e = flit
    <3>1. gone[e] # ToBuffer(k)
      BY <1>2, <2>1, <2>4
    <3> QED
      BY <1>1, <2>1, <2>2, <2>4, <3>1
  <2>5. CASE l # flit /\ e # flit
    BY <1>1, <2>5
  <2> QED
    BY <2>3, <2>4, <2>5
<1>4. ASSUME NEW l \in Flits, NEW e \in Flits, NEW k \in 0 .. 4, PassesThen(l, e, k)
      PROVE  /\ routers'[OutputOf(l, k)[1]].owner[OutputOf(l, k)[2]] = Entry(l.src, l.core, k)
             /\ \A other, before \in Flits : \A j \in 0 .. 4 :
                  PassesThen(other, before, j) /\ OutputOf(other, j) = OutputOf(l, k) => other = l
  <2>1. Passes(l, e, k)
    BY <1>3, <1>4
  <2>2. OutputOf(l, k)[1] \in Routers
    BY <1>1, OutputsThere
  <2>3. routers'[OutputOf(l, k)[1]].owner = routers[OutputOf(l, k)[1]].owner
    BY <2>2 DEF OwnersStay
  <2> QED
    BY <1>3, <2>1, <2>3 DEF OwnersRight
<1>5. ASSUME NEW r \in Routers, NEW o \in Ports, routers'[r].owner[o] # None
      PROVE  \E l, e \in Flits : \E k \in 0 .. 4 : PassesThen(l, e, k) /\ OutputOf(l, k) = <<r, o>>
  <2>1. routers[r].owner[o] # None
    BY <1>5 DEF OwnersStay
  <2>2. PICK l \in Flits, e \in Flits, k \in 0 .. 4 : Passes(l, e, k) /\ OutputOf(l, k) = <<r, o>>
    BY <2>1 DEF OwnersRight
  <2> QED
    BY <1>3, <2>2
<1> QED
  BY <1>4, <1>5 DEF OwnersThen

\* When a flit enters the crossbar the output is that of its message, until
\* its TAIL has passed.
LEMMA OwnersInside ==
  ASSUME OrderInv, NEW r \in Routers, NEW p \in Ports,
         NEW o \in Takers(routers[r], rX(r), rY(r), p), TraverseBy(r, p, o)
  PROVE  OwnersThen
<1> DEFINE flit == Head(routers[r].buffer[p])
<1>0. /\ TypeOK /\ traffic \in Traffics /\ EachInPlace(Contents, gone) /\ OwnersRight
      /\ NoneOvertakes(Contents, gone)
  BY DEF OrderInv, TypeOK
<1>1. /\ Goes(flit, <<"buffer", r, p>>, <<"slot", r, o>>)
      /\ \A q \in Routers, port \in Ports :
           routers'[q].owner[port] = IF q = r /\ port = o THEN OwnerAfter(flit, p)
                                     ELSE routers[q].owner[port]
  BY TraverseGoes
<1>2. /\ routers[r].buffer[p] # <<>> /\ o \in Ports
      /\ \E k \in 0 .. Hops(flit.src, flit.core) :
           /\ gone[flit] = ToBuffer(k)
           /\ r = Way(flit.src, flit.core, k)
           /\ p = Entry(flit.src, flit.core, k)
           /\ o = Exit(flit.src, flit.core, k)
  BY TakerIsOnWay
<1>3. Contents[<<"buffer", r, p>>] = routers[r].buffer[p]
  BY ContentsNow
<1>4. flit = Head(Contents[<<"buffer", r, p>>]) /\ Contents[<<"buffer", r, p>>] # <<>>
  BY <1>2, <1>3
<1> HIDE DEF flit
<1>5. /\ flit \in Flits /\ flit.src \in Routers /\ flit.core \in Routers
      /\ gone[flit] \in Nat /\ gone'[flit] = gone[flit] + 1
      /\ \A other \in Flits : gone[other] \in Nat /\ gone'[other] \in Nat
      /\ \A other \in Flits : other # flit => gone'[other] = gone[other]
  BY <1>0, <1>1, StepsThen
<1>6. PICK at \in 0 .. Hops(flit.src, flit.core) :
           /\ gone[flit] = ToBuffer(at)
           /\ r = Way(flit.src, flit.core, at)
           /\ p = Entry(flit.src, flit.core, at)
           /\ o = Exit(flit.src, flit.core, at)
  BY <1>2
<1>7. /\ at \in 0 .. 4 /\ OutputOf(flit, at) = <<r, o>>
      /\ \A k \in Nat : ToBuffer(k) \in Nat /\ (ToBuffer(k) = ToBuffer(at) => k = at)
      /\ p # None
  <2>1. at \in 0 .. 4
    BY <1>5, HopsFew
  <2>2. OutputOf(flit, at) = <<r, o>>
    BY <1>6 DEF OutputOf
  <2>3. \A k \in Nat : ToBuffer(k) \in Nat /\ (ToBuffer(k) = ToBuffer(at) => k = at)
    BY <2>1 DEF ToBuffer
  <2> QED
    BY <2>1, <2>2, <2>3, MeshAssumption
\* The flit behind this one has the same way.
<1>8. ASSUME NEW l \in Flits, Follows(l, flit)
      PROVE  /\ l # flit /\ l.src = flit.src /\ l.core = flit.core
             /\ OutputOf(l, at) = <<r, o>> /\ Entry(l.src, l.core, at) = p
             /\ PassesThen(l, flit, at)
  <2>1. l # flit /\ l.src = flit.src /\ l.core = flit.core /\ l.number = flit.number + 1
        /\ flit.number \in Int
    BY <1>0, <1>5, <1>8, FollowsFacts, FlitFacts
  <2>2. gone[l] <= gone[flit]
    <3>1. flit.number < l.number
      BY <2>1
    <3> QED
      BY <1>0, <1>5, <2>1, <3>1 DEF NoneOvertakes
  <2>3. gone'[l] <= ToBuffer(at) /\ gone'[flit] > ToBuffer(at)
    BY <1>5, <1>6, <2>1, <2>2
  <2>4. OutputOf(l, at) = <<r, o>> /\ Entry(l.src, l.core, at) = p
    BY <1>6, <2>1 DEF OutputOf
  <2>5. at \in 0 .. Hops(l.src, l.core)
    BY <2>1
  <2> QED
    BY <1>8, <2>1, <2>3, <2>4, <2>5 DEF PassesThen
\* What begins or ends to pass passes this output.
<1>9. ASSUME NEW l \in Flits, NEW e \in Flits, NEW k \in 0 .. 4,
             ~(PassesThen(l, e, k) <=> Passes(l, e, k))
      PROVE  /\ k = at /\ OutputOf(l, k) = <<r, o>> /\ Follows(l, e)
             /\ \/ l = flit /\ ~PassesThen(l, e, k)
                \/ e = flit
  <2>1. /\ Follows(l, e) /\ k \in 0 .. Hops(l.src, l.core)
        /\ ~(gone'[l] <= ToBuffer(k) /\ gone'[e] > ToBuffer(k)
               <=> gone[l] <= ToBuffer(k) /\ gone[e] > ToBuffer(k))
    BY <1>9 DEF Passes, PassesThen
  <2>2. l # e /\ l.src = e.src /\ l.core = e.core /\ ToBuffer(k) \in Nat
    BY <1>0, <1>7, <2>1, FollowsFacts
  <2>3. CASE l = flit
    <3>1. gone'[e] = gone[e] /\ gone[e] \in Nat
      BY <1>5, <2>2, <2>3
    <3>2. gone[flit] = ToBuffer(k) /\ ~(gone'[l] <= ToBuffer(k))
      BY <1>5, <2>1, <2>2, <2>3, <3>1
    <3>3. k = at
      BY <1>6, <1>7, <3>2
    <3>4. ~PassesThen(l, e, k)
      BY <3>2 DEF PassesThen
    <3> QED
      BY <1>7, <2>1, <2>3, <3>3, <3>4
  <2>4. CASE e = flit
    <3>1. gone'[l] = gone[l] /\ gone[l] \in Nat
      BY <1>5, <2>2, <2>4
    <3>2. gone[flit] = ToBuffer(k)
      BY <1>5, <2>1, <2>2, <2>4, <3>1
    <3>3. k = at
      BY <1>6, <1>7, <3>2
    <3>4. OutputOf(l, k) = <<r, o>>
      BY <1>8, <2>1, <2>4, <3>3
    <3> QED
      BY <2>1, <2>4, <3>3, <3>4
  <2>5. CASE l # flit /\ e # flit
    BY <1>5, <2>1, <2>5
  <2> QED
    BY <2>3, <2>4, <2>5
\* After the step only the flit behind this one passes this output.
<1>10. ASSUME NEW l \in Flits, NEW e \in Flits, NEW k \in 0 .. 4,
              PassesThen(l, e, k), OutputOf(l, k) = <<r, o>>
       PROVE  e = flit /\ k = at /\ Follows(l, flit)
  <2>1. CASE Passes(l, e, k)
    <3>1. /\ r = Way(l.src, l.core, k) /\ o = Exit(l.src, l.core, k)
          /\ k \in 0 .. Hops(l.src, l.core) /\ l.src \in Routers /\ l.core \in Routers
      BY <1>0, <1>10, <2>1, FlitFacts DEF OutputOf, Passes
    <3>2. routers[r].owner[o] = Entry(l.src, l.core, k)
      <4>1. OutputOf(l, k)[1] = r /\ OutputOf(l, k)[2] = o
        BY <1>10
      <4> QED
        BY <1>0, <2>1, <4>1 DEF OwnersRight
    <3>3. Entry(l.src, l.core, k) = p
      <4>1. Entry(l.src, l.core, k) # None
        BY <3>1, EntryFacts, MeshAssumption
      <4>2. routers[r].owner[o] = p \/ routers[r].owner[o] = None
        BY DEF Takers
      <4> QED
        BY <3>2, <4>1, <4>2
    <3>4. l = flit /\ gone[l] = ToBuffer(k)
      BY <1>4, <2>1, <3>1, <3>3, PassingIsHead
    <3>5. ~(gone'[l] <= ToBuffer(k))
      BY <1>5, <1>7, <3>4
    <3> QED
      BY <1>10, <3>5 DEF PassesThen
  <2>2. CASE ~Passes(l, e, k)
    BY <1>9, <1>10, <2>2
  <2> QED
    BY <2>1, <2>2
<1>11. ASSUME NEW l \in Flits, NEW e \in Flits, NEW k \in 0 .. 4, OutputOf(l, k) # <<r, o>>
       PROVE  /\ PassesThen(l, e, k) <=> Passes(l, e, k)
              /\ routers'[OutputOf(l, k)[1]].owner[OutputOf(l, k)[2]]
                   = routers[OutputOf(l, k)[1]].owner[OutputOf(l, k)[2]]
  <2>1. PassesThen(l, e, k) <=> Passes(l, e, k)
    BY <1>9, <1>11
  <2>2. /\ OutputOf(l, k)[1] \in Routers /\ OutputOf(l, k)[2] \in Ports
        /\ OutputOf(l, k) = <<OutputOf(l, k)[1], OutputOf(l, k)[2]>>
    BY <1>0, OutputsThere
  <2>3. ~(OutputOf(l, k)[1] = r /\ OutputOf(l, k)[2] = o)
    BY <1>11, <2>2
  <2> QED
    BY <1>1, <2>1, <2>2, <2>3
<1>12. ASSUME NEW l \in Flits, NEW e \in Flits, NEW k \in 0 .. 4, PassesThen(l, e, k)
       PROVE  /\ routers'[OutputOf(l, k)[1]].owner[OutputOf(l, k)[2]] = Entry(l.src, l.core, k)
              /\ \A other, before \in Flits : \A j \in 0 .. 4 :
                   PassesThen(other, before, j) /\ OutputOf(other, j) = OutputOf(l, k) => other = l
  <2>1. CASE OutputOf(l, k) = <<r, o>>
    <3>1. e = flit /\ k = at /\ Follows(l, flit)
      BY <1>10, <1>12, <2>1
    <3>2. flit.flitType # "TAIL" /\ \A other \in Flits : Follows(other, flit) => other = l
      BY <1>0, <1>5, <3>1, FollowsFacts
    <3>3. OutputOf(l, k)[1] = r /\ OutputOf(l, k)[2] = o
      BY <2>1
    <3>4. routers'[r].owner[o] = p
      BY <1>1, <1>2, <3>2 DEF OwnerAfter
    <3>5. Entry(l.src, l.core, k) = p
      BY <1>8, <3>1
    <3>6. ASSUME NEW other \in Flits, NEW before \in Flits, NEW j \in 0 .. 4,
                 PassesThen(other, before, j), OutputOf(other, j) = OutputOf(l, k)
          PROVE  other = l
      <4>1. Follows(other, flit)
        BY <1>10, <2>1, <3>6
      <4> QED
        BY <3>2, <4>1
    <3> QED
      BY <3>3, <3>4, <3>5, <3>6
  <2>2. CASE OutputOf(l, k) # <<r, o>>
    <3>1. /\ Passes(l, e, k)
          /\ routers'[OutputOf(l, k)[1]].owner[OutputOf(l, k)[2]]
               = routers[OutputOf(l, k)[1]].owner[OutputOf(l, k)[2]]
      BY <1>11, <1>12, <2>2
    <3>2. routers[OutputOf(l, k)[1]].owner[OutputOf(l, k)[2]] = Entry(l.src, l.core, k)
      BY <1>0, <3>1 DEF OwnersRight
    <3>3. ASSUME NEW other \in Flits, NEW before \in Flits, NEW j \in 0 .. 4,
                 PassesThen(other, before, j), OutputOf(other, j) = OutputOf(l, k)
          PROVE  other = l
      <4>1. Passes(other, before, j)
        BY <1>11, <2>2, <3>3
      <4> QED
        BY <1>0, <3>1, <3>3, <4>1 DEF OwnersRight
    <3> QED
      BY <3>1, <3>2, <3>3
  <2> QED
    BY <2>1, <2>2
<1>13. ASSUME NEW q \in Routers, NEW port \in Ports, routers'[q].owner[port] # None
       PROVE  \E l, e \in Flits : \E k \in 0 .. 4 :
                PassesThen(l, e, k) /\ OutputOf(l, k) = <<q, port>>
  <2>1. CASE q = r /\ port = o
    <3>1. flit.flitType # "TAIL"
      BY <1>1, <1>13, <2>1 DEF OwnerAfter
    <3>2. PICK l \in Flits : Follows(l, flit)
      BY <1>0, <1>5, <3>1, Neighbours
    <3>3. PassesThen(l, flit, at) /\ OutputOf(l, at) = <<q, port>>
      BY <1>8, <2>1, <3>2
    <3> QED
      BY <1>5, <1>7, <3>3
  <2>2. CASE ~(q = r /\ port = o)
    <3>1. routers[q].owner[port] # None
      BY <1>1, <1>13, <2>2
    <3>2. PICK l \in Flits, e \in Flits, k \in 0 .. 4 :
            Passes(l, e, k) /\ OutputOf(l, k) = <<q, port>>
      BY <1>0, <3>1 DEF OwnersRight
    <3>3. OutputOf(l, k) # <<r, o>>
      BY <2>2, <3>2
    <3> QED
      BY <1>11, <3>2, <3>3
  <2> QED
    BY <2>1, <2>2
<1> QED
  BY <1>12, <1>13 DEF OwnersThen

-----------------------------------------------------------------------------
\* What one flit's going on keeps.
LEMMA GoingKeepsOrder ==
  ASSUME OrderInv, TypeOK', traffic' = traffic, OwnersThen,
         NEW flit, NEW from, NEW to, Goes(flit, from, to), OwnWay(gone, from, to)
  PROVE  OrderInv'
<1>1. /\ TypeOK /\ traffic \in Traffics /\ EachInPlace(Contents, gone)
      /\ NoneOvertakes(Contents, gone) /\ Reserved(Contents, gone) /\ NothingBetween(Contents, gone)
      /\ Holds(Contents, gone)
  BY ContentsValues DEF OrderInv, TypeOK
<1>2. flit \in Flits /\ Advances(Contents, Contents', gone, gone', flit, from, to)
  BY DEF Goes
<1>3. EachInPlace(Contents', gone')
  BY <1>1, <1>2, AdvanceKeepsPlaces
<1>4. NoneOvertakes(Contents', gone')
  BY <1>1, <1>2, AdvanceKeepsOrder
<1>5. Reserved(Contents', gone')
  BY <1>1, <1>2, AdvanceKeepsReserved
<1>6. NothingBetween(Contents', gone')
  BY <1>1, <1>2, AdvanceKeepsTogether
<1>7. Flits' = Flits
  BY DEF Flits
<1>8. EachInPlace(Contents, gone)'
  BY <1>3, <1>7 DEF EachInPlace
<1>9. NoneOvertakes(Contents, gone)'
  BY <1>4, <1>7 DEF NoneOvertakes
<1>10. Reserved(Contents, gone)'
  BY <1>5, <1>7 DEF Reserved
<1>11. NothingBetween(Contents, gone)'
  BY <1>6, <1>7 DEF NothingBetween
<1>12. OwnersRight'
  BY OwnersAfter
<1> QED
  BY <1>8, <1>9, <1>10, <1>11, <1>12 DEF OrderInv

LEMMA NextOrder == OrderInv /\ [Next]_vars => OrderInv'
<1> SUFFICES ASSUME OrderInv, [Next]_vars PROVE OrderInv'
  OBVIOUS
<1>0. TypeOK /\ EachInPlace(Contents, gone) /\ OwnersRight
  BY DEF OrderInv
<1>1. ASSUME NEW r \in Routers, Send(r) PROVE OrderInv'
  <2> DEFINE flit == Head(todo[r])
             from == <<"todo", r, dIdxLocal>>
             to == <<"buffer", r, dIdxLocal>>
  <2>1. Goes(flit, from, to) /\ TypeOK' /\ OwnersStay
    BY <1>0, <1>1, SendGoes
  <2>2. to[1] # "slot" /\ traffic' = traffic
    BY <1>1 DEF Send
  <2> HIDE DEF flit, from, to
  <2> QED
    BY <1>0, <2>1, <2>2, OwnWayOutside, OwnersOutside, GoingKeepsOrder
<1>2. ASSUME NEW r \in Routers, Receive(r) PROVE OrderInv'
  <2> DEFINE flit == Head(routers[r].latch[dIdxLocal])
             from == <<"latch", r, dIdxLocal>>
             to == <<"got", r, dIdxLocal>>
  <2>1. Goes(flit, from, to) /\ TypeOK' /\ OwnersStay
    BY <1>0, <1>2, ReceiveGoes
  <2>2. to[1] # "slot" /\ traffic' = traffic
    BY <1>2 DEF Receive
  <2> HIDE DEF flit, from, to
  <2> QED
    BY <1>0, <2>1, <2>2, OwnWayOutside, OwnersOutside, GoingKeepsOrder
<1>3. ASSUME NEW r \in Routers, Traverse(r) PROVE OrderInv'
  <2>1. PICK p \in Ports : \E o \in Takers(routers[r], rX(r), rY(r), p) : TraverseBy(r, p, o)
    BY <1>3 DEF Traverse, TraverseBy
  <2>2. PICK o \in Takers(routers[r], rX(r), rY(r), p) : TraverseBy(r, p, o)
    BY <2>1
  <2> DEFINE flit == Head(routers[r].buffer[p])
             from == <<"buffer", r, p>>
             to == <<"slot", r, o>>
  <2>3. Goes(flit, from, to) /\ TypeOK'
    BY <2>2, TraverseGoes
  <2>4. OwnWay(gone, from, to)
    BY OwnWayInside
  <2>5. OwnersThen
    BY <2>2, OwnersInside
  <2>6. traffic' = traffic
    BY <2>2 DEF TraverseBy
  <2> HIDE DEF flit, from, to
  <2> QED
    BY <2>3, <2>4, <2>5, <2>6, GoingKeepsOrder
<1>4. ASSUME NEW r \in Routers, Latch(r) PROVE OrderInv'
  <2> DEFINE flit == routers[r].slot.flit
             from == <<"slot", r, routers[r].slot.out>>
             to == <<"latch", r, routers[r].slot.out>>
  <2>1. Goes(flit, from, to) /\ TypeOK' /\ OwnersStay
    BY <1>0, <1>4, LatchGoes
  <2>2. to[1] # "slot" /\ traffic' = traffic
    BY <1>4 DEF Latch
  <2> HIDE DEF flit, from, to
  <2> QED
    BY <1>0, <2>1, <2>2, OwnWayOutside, OwnersOutside, GoingKeepsOrder
<1>5. ASSUME NEW r \in Routers, NEW o \in Links(r), Link(r, o) PROVE OrderInv'
  <2> DEFINE flit == Head(routers[r].latch[o])
             from == <<"latch", r, o>>
             to == <<"buffer", Neighbour(r, o), Opposite(o)>>
  <2>1. Goes(flit, from, to) /\ TypeOK' /\ OwnersStay
    BY <1>0, <1>5, LinkGoes
  <2>2. to[1] # "slot" /\ traffic' = traffic
    BY <1>5 DEF Link
  <2> HIDE DEF flit, from, to
  <2> QED
    BY <1>0, <2>1, <2>2, OwnWayOutside, OwnersOutside, GoingKeepsOrder
<1>6. CASE UNCHANGED vars
  <2>1. /\ Flits' = Flits /\ Contents' = Contents /\ gone' = gone /\ routers' = routers
        /\ traffic' = traffic /\ todo' = todo /\ got' = got
    BY <1>6 DEF vars, Flits, Contents, Held
  <2>2. TypeOK'
    BY <1>0, <2>1 DEF TypeOK, RouterOK
  <2>3. OwnersRight'
    BY <1>0, <2>1 DEF OwnersRight, Passes
  <2>4. /\ EachInPlace(Contents, gone)' /\ NoneOvertakes(Contents, gone)'
        /\ Reserved(Contents, gone)' /\ NothingBetween(Contents, gone)'
    BY <2>1 DEF OrderInv, EachInPlace, NoneOvertakes, Reserved, NothingBetween
  <2> QED
    BY <2>2, <2>3, <2>4 DEF OrderInv
<1> QED
  BY <1>1, <1>2, <1>3, <1>4, <1>5, <1>6 DEF Next

\* At the start all flits are with their cores.
LEMMA InitOrder == Init => OrderInv
<1> SUFFICES ASSUME Init PROVE OrderInv
  OBVIOUS
<1>1. /\ traffic \in Traffics /\ routers = [r \in Routers |-> Idle] /\ todo = traffic
      /\ got = [c \in Routers |-> <<>>] /\ gone = [flit \in Flits |-> 0]
  BY DEF Init
<1>2. /\ traffic \in [Routers -> Seq(Flit)]
      /\ \A c \in Routers : traffic[c] \in Seq(Flits) /\ IsMessages(traffic[c], c)
      /\ \A flit \in Flits : /\ flit.src \in Routers /\ flit.core \in Routers
                             /\ flit.number \in 1 .. Len(traffic[flit.src])
                             /\ flit = traffic[flit.src][flit.number]
  BY <1>1, FlitFacts, MeshAssumption
<1>3. RouterOK(Idle)
  BY MeshAssumption DEF RouterOK, Idle
<1>4. TypeOK
  <2>1. traffic \in [Routers -> Seq(Flits)]
    BY <1>2
  <2>2. got \in [Routers -> Seq(Flits)]
    BY <1>1
  <2> QED
    BY <1>1, <1>3, <2>1, <2>2 DEF TypeOK
<1>5. ASSUME NEW r \in Routers, NEW o \in Ports
      PROVE  /\ Contents[<<"todo", r, o>>] = IF o = dIdxLocal THEN traffic[r] ELSE <<>>
             /\ Contents[<<"got", r, o>>] = <<>> /\ Contents[<<"buffer", r, o>>] = <<>>
             /\ Contents[<<"slot", r, o>>] = <<>> /\ Contents[<<"latch", r, o>>] = <<>>
  <2>1. KindsAt(r, o)
    BY KindsNowAndThen
  <2>2. /\ routers[r].buffer[o] = <<>> /\ routers[r].latch[o] = <<>> /\ routers[r].slot = None
        /\ got[r] = <<>> /\ todo[r] = traffic[r]
    BY <1>1 DEF Idle
  <2> QED
    BY <2>1, <2>2 DEF KindsAt
<1>6. dIdxLocal \in Ports /\ \A flit \in Flits : gone[flit] = 0
  BY <1>1 DEF dIdxLocal, Ports
<1>7. ASSUME NEW flit \in Flits
      PROVE  /\ PlaceOf(flit, 0) = <<"todo", flit.src, dIdxLocal>>
             /\ PlaceOf(flit, 0) \in Places
             /\ Contents[PlaceOf(flit, 0)] = traffic[flit.src]
             /\ 0 \in 0 .. Arrived(flit.src, flit.core)
  <2>1. PlaceOf(flit, 0) = <<"todo", flit.src, dIdxLocal>>
    BY <1>2, PlaceValues DEF PlaceOf
  <2>2. Contents[<<"todo", flit.src, dIdxLocal>>] = traffic[flit.src]
    BY <1>2, <1>5, <1>6
  <2>3. <<"todo", flit.src, dIdxLocal>> \in Places
    BY <1>2, <1>6, PlaceThere
  <2>4. 0 \in 0 .. Arrived(flit.src, flit.core)
    BY <1>1, WayOfFlit
  <2> QED
    BY <2>1, <2>2, <2>3, <2>4
\* Only what waits to be sent is not empty.
<1>8. ASSUME NEW place \in Places, NEW i \in 1 .. Len(Contents[place])
      PROVE  \E r \in Routers : /\ place = <<"todo", r, dIdxLocal>>
                                /\ Contents[place] = traffic[r]
                                /\ i \in 1 .. Len(traffic[r])
                                /\ traffic[r][i] \in Flits
                                /\ traffic[r][i].src = r /\ traffic[r][i].number = i
  <2>1. PICK kind \in {"todo", "got", "buffer", "slot", "latch"}, r \in Routers, o \in Ports :
          place = <<kind, r, o>>
    BY PlacesByKind
  <2>2. Contents[place] # <<>>
    <3>1. CASE Contents[place] = <<>>
      <4>1. Len(Contents[place]) = 0
        BY <3>1
      <4> QED
        BY <4>1
    <3> QED
      BY <3>1
  <2>3. kind = "todo" /\ o = dIdxLocal /\ Contents[place] = traffic[r]
    <3>1. /\ Contents[<<"todo", r, o>>] = IF o = dIdxLocal THEN traffic[r] ELSE <<>>
          /\ Contents[<<"got", r, o>>] = <<>> /\ Contents[<<"buffer", r, o>>] = <<>>
          /\ Contents[<<"slot", r, o>>] = <<>> /\ Contents[<<"latch", r, o>>] = <<>>
      BY <1>5
    <3>2. kind = "todo"
      BY <2>1, <2>2, <3>1
    <3> QED
      BY <2>1, <2>2, <3>1, <3>2
  <2>4. traffic[r] \in Seq(Flits) /\ IsMessages(traffic[r], r) /\ i \in 1 .. Len(traffic[r])
    BY <1>2, <2>3
  <2>5. traffic[r][i] \in Flits /\ traffic[r][i].src = r /\ traffic[r][i].number = i
    BY <2>4 DEF IsMessages
  <2> QED
    BY <2>1, <2>3, <2>4, <2>5
<1>9. EachInPlace(Contents, gone)
  <2>1. ASSUME NEW flit \in Flits
        PROVE  /\ gone[flit] \in 0 .. Arrived(flit.src, flit.core)
               /\ \E i \in 1 .. Len(Contents[PlaceOf(flit, gone[flit])]) :
                    Contents[PlaceOf(flit, gone[flit])][i] = flit
    <3>1. gone[flit] = 0 /\ 0 \in 0 .. Arrived(flit.src, flit.core)
          /\ Contents[PlaceOf(flit, 0)] = traffic[flit.src]
      BY <1>6, <1>7
    <3>2. flit.number \in 1 .. Len(traffic[flit.src]) /\ traffic[flit.src][flit.number] = flit
      BY <1>2
    <3> QED
      BY <3>1, <3>2
  <2>2. ASSUME NEW place \in Places, NEW i \in 1 .. Len(Contents[place])
        PROVE  /\ PlaceOf(Contents[place][i], gone[Contents[place][i]]) = place
               /\ \A j \in 1 .. Len(Contents[place]) : Contents[place][i] = Contents[place][j] => i = j
    <3>1. PICK r \in Routers : /\ place = <<"todo", r, dIdxLocal>>
                               /\ Contents[place] = traffic[r]
                               /\ i \in 1 .. Len(traffic[r])
                               /\ traffic[r][i] \in Flits
                               /\ traffic[r][i].src = r /\ traffic[r][i].number = i
      BY <1>8
    <3>2. PlaceOf(traffic[r][i], 0) = place
      BY <1>7, <3>1
    <3>3. \A j \in 1 .. Len(traffic[r]) : traffic[r][j].number = j
      BY <1>2 DEF IsMessages
    <3> QED
      BY <1>6, <3>1, <3>2, <3>3
  <2> QED
    BY <2>1, <2>2 DEF EachInPlace
<1>10. NoneOvertakes(Contents, gone)
  <2>1. ASSUME NEW e \in Flits, NEW l \in Flits PROVE gone[l] <= gone[e]
    BY <1>6
  <2>2. ASSUME NEW e \in Flits, NEW l \in Flits, e.number < l.number,
               NEW i \in 1 .. Len(Contents[PlaceOf(e, gone[e])]),
               NEW j \in 1 .. Len(Contents[PlaceOf(e, gone[e])]),
               Contents[PlaceOf(e, gone[e])][i] = e, Contents[PlaceOf(e, gone[e])][j] = l
        PROVE  i < j
    <3>1. Contents[PlaceOf(e, gone[e])] = traffic[e.src] /\ e.src \in Routers
      BY <1>2, <1>6, <1>7
    <3>2. \A m \in 1 .. Len(traffic[e.src]) : traffic[e.src][m].number = m
      BY <1>2, <3>1 DEF IsMessages
    <3> QED
      BY <2>2, <3>1, <3>2
  <2> QED
    BY <2>1, <2>2 DEF NoneOvertakes
<1>11. Reserved(Contents, gone)
  BY <1>6 DEF Reserved
<1>12. NothingBetween(Contents, gone)
  <2> SUFFICES ASSUME NEW place \in Places, NEW i \in 1 .. Len(Contents[place]), NEW e \in Flits,
                      Follows(Contents[place][i], e)
               PROVE  i # 1 /\ Contents[place][i - 1] = e
    BY DEF NothingBetween
  <2>1. PICK r \in Routers : /\ place = <<"todo", r, dIdxLocal>>
                             /\ Contents[place] = traffic[r]
                             /\ i \in 1 .. Len(traffic[r])
                             /\ traffic[r][i] \in Flits
                             /\ traffic[r][i].src = r /\ traffic[r][i].number = i
    BY <1>8
  <2>2. e.src = r /\ i = e.number + 1
    BY <2>1 DEF Follows
  <2>3. e.number \in 1 .. Len(traffic[r]) /\ e = traffic[r][e.number]
    BY <1>2, <2>2
  <2>4. i # 1 /\ i - 1 = e.number
    BY <2>2, <2>3
  <2> QED
    BY <2>1, <2>3, <2>4
<1>13. OwnersRight
  <2>1. ASSUME NEW l \in Flits, NEW e \in Flits, NEW k \in 0 .. 4 PROVE ~Passes(l, e, k)
    BY <1>6 DEF Passes, ToBuffer
  <2>2. \A r \in Routers : \A o \in Ports : routers[r].owner[o] = None
    BY <1>1 DEF Idle
  <2> QED
    BY <2>1, <2>2 DEF OwnersRight
<1> QED
  BY <1>4, <1>9, <1>10, <1>11, <1>12, <1>13 DEF OrderInv

-----------------------------------------------------------------------------
\* In every state of the mesh each flit is once in it, where its steps have
\* led it on the way that XY routing gives it; none overtakes; the flits of
\* a message stay together; an output belongs to the input of the message
\* that is passing it; and what the cores have received is in order, once
\* and in whole messages.  (Send, Receive, Traverse, Latch, Link: the rules
\* of MeshNxN.bsv and Router.bsv.)
THEOREM MeshInvariant == Spec => []IInv
<1>1. Init => OrderInv
  BY InitOrder
<1>2. OrderInv /\ [Next]_vars => OrderInv'
  BY NextOrder
<1>3. OrderInv => IInv
  BY OrderDelivers DEF IInv
<1> QED
  BY <1>1, <1>2, <1>3, PTL DEF Spec

\* Messages arrive whole, in order, once and where they are to go, and no
\* buffer holds more than it has room for.
THEOREM MessagesArriveWholeAndInOrder == Spec => []MeshInv
<1>1. IInv => MeshInv
  BY DEF IInv
<1> QED
  BY <1>1, MeshInvariant, PTL

=============================================================================
