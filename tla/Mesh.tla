-------------------------------- MODULE Mesh --------------------------------
(***************************************************************************)
(* hw/network/MeshNxN.bsv: nine routers in rows of three, a link rule for  *)
(* each direction between neighbours, and a core at the local port of      *)
(* each.                                                                   *)
(*                                                                         *)
(* The traffic is chosen at the start: for each core, the flits it will    *)
(* send, one message after the other.  A flit is abstracted to its type,   *)
(* the core its HEAD names, the core it comes from and its number there.   *)
(***************************************************************************)
EXTENDS WormholeRouter, FiniteSets, SequencesExt

CONSTANTS Traffics   \* each: for every core the flits it will send

n == 3
Routers == 0 .. n * n - 1

Flit == [flitType : {"HEAD", "BODY", "TAIL"}, core : Routers, src : Routers, number : Nat]

\* What core c hands to the network: whole messages, one behind the other.
IsMessages(flits, c) ==
  \A i \in 1 .. Len(flits) :
    /\ flits[i].src = c /\ flits[i].number = i
    /\ IF i = 1 \/ flits[i - 1].flitType = "TAIL" THEN flits[i].flitType = "HEAD"
       ELSE flits[i].flitType # "HEAD" /\ flits[i].core = flits[i - 1].core
    /\ i = Len(flits) => flits[i].flitType = "TAIL"

ASSUME MeshAssumption ==
  /\ BufferDepth \in Nat \ {0}
  /\ None \notin Ports \cup [flit : Flit, out : Ports]
  /\ Traffics \subseteq [Routers -> Seq(Flit)]
  /\ \A sent \in Traffics : \A c \in Routers : IsMessages(sent[c], c)

VARIABLES routers,   \* per core, the router beside it
          traffic,
          todo,      \* per core, the flits it has yet to send
          got,       \* history: per core, the flits it has received
          gone       \* history: per flit, the steps it has made on its way

vars == <<routers, traffic, todo, got, gone>>

Flits == UNION {Range(traffic[c]) : c \in Routers}

-----------------------------------------------------------------------------
rX(r) == r % n
rY(r) == r \div n

\* Wrong variant: no eastbound connection to the last column.
LinksShort(r) == {o \in Ports : \/ o = dIdxSouth /\ rY(r) < n - 1
                                \/ o = dIdxNorth /\ rY(r) > 0
                                \/ o = dIdxEast  /\ rX(r) < n - 2
                                \/ o = dIdxWest  /\ rX(r) > 0}

\* The sides on which router r has a neighbour: the bounds of the loops that
\* make the link rules.
Links(r) == {o \in Ports : \/ o = dIdxSouth /\ rY(r) < n - 1
                           \/ o = dIdxNorth /\ rY(r) > 0
                           \/ o = dIdxEast  /\ rX(r) < n - 1
                           \/ o = dIdxWest  /\ rX(r) > 0}

Neighbour(r, o) == CASE o = dIdxSouth -> r + n
                     [] o = dIdxNorth -> r - n
                     [] o = dIdxEast  -> r + 1
                     [] o = dIdxWest  -> r - 1

\* The port by which what left by o comes in.
Opposite(o) == (o + 2) % 4

Init == /\ routers = [r \in Routers |-> Idle]
        /\ traffic \in Traffics
        /\ todo = traffic
        /\ got = [c \in Routers |-> <<>>]
        /\ gone = [flit \in Flits |-> 0]

\* Each rule takes one flit to the next place on its way.
Advance(flit) == gone' = [gone EXCEPT ![flit] = @ + 1]

\* The core beside r puts its next flit into the local port.
Send(r) ==
  /\ todo[r] # <<>>
  /\ HasRoom(routers[r], dIdxLocal)
  /\ routers' = [routers EXCEPT ![r] = Received(@, dIdxLocal, Head(todo[r]))]
  /\ todo' = [todo EXCEPT ![r] = Tail(@)]
  /\ Advance(Head(todo[r]))
  /\ UNCHANGED <<traffic, got>>

\* The core beside r takes a flit from the local port.
Receive(r) ==
  /\ CanLeave(routers[r], dIdxLocal)
  /\ got' = [got EXCEPT ![r] = Append(@, Head(routers[r].latch[dIdxLocal]))]
  /\ routers' = [routers EXCEPT ![r] = Left(@, dIdxLocal)]
  /\ Advance(Head(routers[r].latch[dIdxLocal]))
  /\ UNCHANGED <<traffic, todo>>

Traverse(r) ==
  /\ routers[r].slot = None
  /\ \E p \in Ports : \E o \in Takers(routers[r], rX(r), rY(r), p) :
       /\ routers' = [routers EXCEPT ![r] = Traversed(@, p, o)]
       /\ Advance(Head(routers[r].buffer[p]))
  /\ UNCHANGED <<traffic, todo, got>>

Latch(r) ==
  /\ CanLatch(routers[r])
  /\ routers' = [routers EXCEPT ![r] = Latched(@)]
  /\ Advance(routers[r].slot.flit)
  /\ UNCHANGED <<traffic, todo, got>>

\* Wrong variant: the flit stays in the latch it is taken from.
LinkCopying(r, o) ==
  /\ CanLeave(routers[r], o)
  /\ HasRoom(routers[Neighbour(r, o)], Opposite(o))
  /\ routers' = [routers EXCEPT ![Neighbour(r, o)] =
                   Received(@, Opposite(o), Head(routers[r].latch[o]))]
  /\ Advance(Head(routers[r].latch[o]))
  /\ UNCHANGED <<traffic, todo, got>>

\* southbound-, northbound-, eastbound- and westboundConnection.
Link(r, o) ==
  /\ CanLeave(routers[r], o)
  /\ HasRoom(routers[Neighbour(r, o)], Opposite(o))
  /\ routers' = [routers EXCEPT
                   ![r] = Left(@, o),
                   ![Neighbour(r, o)] = Received(@, Opposite(o), Head(routers[r].latch[o]))]
  /\ Advance(Head(routers[r].latch[o]))
  /\ UNCHANGED <<traffic, todo, got>>

Next == \E r \in Routers : \/ Send(r)
                           \/ Receive(r)
                           \/ Traverse(r)
                           \/ Latch(r)
                           \/ \E o \in Links(r) : Link(r, o)

Spec == Init /\ [][Next]_vars

\* As long as some rule can fire one does.  The traffic is finite, so no
\* fairness among the rules is needed.
FairSpec == Spec /\ WF_vars(Next)

-----------------------------------------------------------------------------
\* Type invariant: buffers, slots and latches hold no more than they have
\* room for, and only flits that some core sends.
RouterOK(router) ==
  /\ DOMAIN router = {"buffer", "slot", "latch", "owner"}
  /\ router.buffer \in [Ports -> Seq(Flits)]
  /\ \A p \in Ports : Len(router.buffer[p]) <= BufferDepth
  /\ router.slot \in {None} \cup [flit : Flits, out : Ports]
  /\ router.latch \in [Ports -> {<<>>} \cup {<<flit>> : flit \in Flits}]
  /\ router.owner \in [Ports -> Ports \cup {None}]

TypeOK == /\ traffic \in Traffics
          /\ DOMAIN routers = Routers
          /\ \A r \in Routers : RouterOK(routers[r])
          /\ todo \in [Routers -> Seq(Flits)]
          /\ got \in [Routers -> Seq(Flits)]
          /\ gone \in [Flits -> Nat]

\* What a core has received from another is the beginning of what that one
\* has for it, in order and once, whatever crossed it on the way; and a core
\* has nothing that is not for it.
DeliveredInOrder ==
  \A d \in Routers : \A k \in 1 .. Len(got[d]) :
    LET flit == got[d][k]
    IN  /\ flit.core = d
        /\ \A j \in 1 .. k - 1 : got[d][j].src = flit.src => got[d][j].number < flit.number
        /\ \A i \in 1 .. flit.number - 1 :
             LET earlier == traffic[flit.src][i]
             IN  earlier.core = d => \E j \in 1 .. k - 1 : got[d][j] = earlier

\* later comes right behind earlier in one message.
Follows(later, earlier) == /\ later.flitType # "HEAD"
                           /\ later.src = earlier.src
                           /\ later.number = earlier.number + 1

\* Messages reach a core one at a time: FlitEngine tells whose a flit is by
\* its coming between a HEAD and its TAIL, and not otherwise.
DeliveredWhole ==
  \A d \in Routers : \A k \in 1 .. Len(got[d]) :
    IF got[d][k].flitType = "HEAD" THEN k > 1 => got[d][k - 1].flitType = "TAIL"
    ELSE k > 1 /\ Follows(got[d][k], got[d][k - 1])

\* What every core receives is whole messages, in order, from within bounds.
MeshInv == TypeOK /\ DeliveredInOrder /\ DeliveredWhole

Delivered == \A flit \in Flits : \E k \in 1 .. Len(got[flit.core]) : got[flit.core][k] = flit

Senders == {c \in Routers : traffic[c] # <<>>}
Receivers == {flit.core : flit \in Flits}

\* The traffic of the programs in sw/progs: the master to the others
\* (distribution) or the others to the master (results), a sync between.
OneWay == Cardinality(Senders) = 1 \/ Cardinality(Receivers) = 1

\* One-way traffic always arrives, although the five ports of a router share
\* one slot.
EverythingDelivered == OneWay => <>Delivered

\* Router r cannot pass on the flit in its slot to the neighbour at o: the
\* latch on that side and the neighbour's buffer behind it are full.
Blocked(r, o) == /\ o \in Links(r)
                 /\ routers[r].slot # None
                 /\ routers[r].slot.out = o
                 /\ ~CanLatch(routers[r])
                 /\ ~HasRoom(routers[Neighbour(r, o)], Opposite(o))

Stuck == ~Delivered /\ ~ENABLED Next

\* When messages cross on a line the network may stop for ever, and only in
\* one way: two neighbours, each with the one slot of its crossbar taken by a
\* flit for the other.  (XY routing is no help where all directions share a
\* slot; a slot per output would be.  Traffic round a square can also stop in
\* a ring: README.md.)
StuckOnlyFaceToFace ==
  Stuck => \E r \in Routers : \E o \in Links(r) :
             Blocked(r, o) /\ Blocked(Neighbour(r, o), Opposite(o))

-----------------------------------------------------------------------------
\* The way of a flit from core c to core d: along the row, then along the
\* column.  Steps(a, b, k) is where k steps on a line lead from a to b.
Apart(a, b) == IF a <= b THEN b - a ELSE a - b

Steps(a, b, k) == IF k >= Apart(a, b) THEN b ELSE IF a <= b THEN a + k ELSE a - k

Hops(c, d) == Apart(rX(c), getXCoordinate(d)) + Apart(rY(c), getYCoordinate(d))

WayX(c, d, k) == Steps(rX(c), getXCoordinate(d), k)
WayY(c, d, k) == LET inRow == Apart(rX(c), getXCoordinate(d))
                 IN  Steps(rY(c), getYCoordinate(d), IF k <= inRow THEN 0 ELSE k - inRow)

\* The router after k hops, the port to leave it by and the one it is entered by.
Way(c, d, k)   == n * WayY(c, d, k) + WayX(c, d, k)
Exit(c, d, k)  == computeDestinationPort(d, WayX(c, d, k), WayY(c, d, k))
Entry(c, d, k) == IF k = 0 THEN dIdxLocal ELSE Opposite(Exit(c, d, k - 1))

\* The steps of a flit: each router takes three.
ToBuffer(k) == 3 * k + 1
ToSlot(k)   == 3 * k + 2
ToLatch(k)  == 3 * k + 3
Arrived(c, d) == 3 * Hops(c, d) + 4

\* The place that flits from c to d reach with step s.
Place(c, d, s) ==
  LET k == (s - 1) \div 3
  IN  IF s = 0 THEN <<"todo", c, dIdxLocal>>
      ELSE IF s = Arrived(c, d) THEN <<"got", d, dIdxLocal>>
      ELSE IF s = ToBuffer(k) THEN <<"buffer", Way(c, d, k), Entry(c, d, k)>>
      ELSE IF s = ToSlot(k) THEN <<"slot", Way(c, d, k), Exit(c, d, k)>>
      ELSE <<"latch", Way(c, d, k), Exit(c, d, k)>>

PlaceOf(flit, s) == Place(flit.src, flit.core, s)

Places == {"todo", "got", "buffer", "slot", "latch"} \X Routers \X Ports

\* The flits at a place, the one that goes on first at its head.
Held(place) ==
  LET r == place[2]  o == place[3]
  IN  CASE place[1] = "buffer" -> routers[r].buffer[o]
        [] place[1] = "slot"   -> IF routers[r].slot = None THEN <<>>
                                  ELSE IF routers[r].slot.out = o THEN <<routers[r].slot.flit>>
                                  ELSE <<>>
        [] place[1] = "latch"  -> routers[r].latch[o]
        [] place[1] = "todo"   -> IF o = dIdxLocal THEN todo[r] ELSE <<>>
        [] place[1] = "got"    -> IF o = dIdxLocal THEN got[r] ELSE <<>>

Contents == [place \in Places |-> Held(place)]

\* Every flit is once in the mesh, where its steps have led it.
EachInPlace(held, steps) ==
  /\ \A flit \in Flits : /\ steps[flit] \in 0 .. Arrived(flit.src, flit.core)
                         /\ \E i \in 1 .. Len(held[PlaceOf(flit, steps[flit])]) :
                              held[PlaceOf(flit, steps[flit])][i] = flit
  /\ \A place \in Places : \A i \in 1 .. Len(held[place]) :
       /\ PlaceOf(held[place][i], steps[held[place][i]]) = place
       /\ \A j \in 1 .. Len(held[place]) : held[place][i] = held[place][j] => i = j

\* Of two flits with the same way the later one is not ahead.
NoneOvertakes(held, steps) ==
  \A e, l \in Flits : e.src = l.src /\ e.core = l.core /\ e.number < l.number =>
    /\ steps[l] <= steps[e]
    /\ steps[l] = steps[e] =>
         LET there == held[PlaceOf(e, steps[e])]
         IN  \A i, j \in 1 .. Len(there) : there[i] = e /\ there[j] = l => i < j

\* A place that a flit has reached and the next of its message has not is
\* theirs: nothing is behind the one there, or nothing is there.
Reserved(held, steps) ==
  \A l, e \in Flits : Follows(l, e) =>
    \A s \in steps[l] + 1 .. steps[e] :
      LET there == held[PlaceOf(l, s)]
      IN  there # <<>> => steps[e] = s /\ there[Len(there)] = e

\* The flits of a message are next to each other wherever they wait.
NothingBetween(held, steps) ==
  \A place \in Places : \A i \in 1 .. Len(held[place]) : \A e \in Flits :
    Follows(held[place][i], e) => IF i = 1 THEN steps[e] > steps[held[place][i]]
                                  ELSE held[place][i - 1] = e

\* The router that e has crossed as its k-th is still to be crossed by l,
\* the next flit of its message.
Passes(l, e, k) == /\ Follows(l, e)
                   /\ k \in 0 .. Hops(l.src, l.core)
                   /\ gone[l] <= ToBuffer(k) /\ gone[e] > ToBuffer(k)

OutputOf(flit, k) == <<Way(flit.src, flit.core, k), Exit(flit.src, flit.core, k)>>

\* An output belongs to the input of the one message that is passing it.
OwnersRight ==
  /\ \A l, e \in Flits : \A k \in 0 .. 4 : Passes(l, e, k) =>
       /\ routers[OutputOf(l, k)[1]].owner[OutputOf(l, k)[2]] = Entry(l.src, l.core, k)
       /\ \A other, before \in Flits : \A j \in 0 .. 4 :
            Passes(other, before, j) /\ OutputOf(other, j) = OutputOf(l, k) => other = l
  /\ \A r \in Routers : \A o \in Ports : routers[r].owner[o] # None =>
       \E l, e \in Flits : \E k \in 0 .. 4 : Passes(l, e, k) /\ OutputOf(l, k) = <<r, o>>

\* The inductive invariant, from which MeshInv follows.
OrderInv == /\ TypeOK
            /\ EachInPlace(Contents, gone)
            /\ NoneOvertakes(Contents, gone)
            /\ Reserved(Contents, gone)
            /\ NothingBetween(Contents, gone)
            /\ OwnersRight

IInv == MeshInv /\ OrderInv

=============================================================================
