--------------------------- MODULE WormholeRouter ---------------------------
(***************************************************************************)
(* What a router of the mesh does, seen from its links: what Router.bsv    *)
(* promises when grants, arbiters and the clearing of the crossbar's       *)
(* registers are left out.  A router is a record:                          *)
(*                                                                         *)
(*   buffer[p]   the flits that have come in by port p                     *)
(*   slot        the one flit in the crossbar, with its output, or None    *)
(*   latch[o]    the flit that waits to leave by port o, if any            *)
(*   owner[o]    the input whose message o is passing, or None             *)
(*                                                                         *)
(* Router implements this; Mesh composes nine of these.                    *)
(***************************************************************************)
EXTENDS Integers, Sequences

CONSTANTS BufferDepth,   \* places in an input buffer (4 in the source)
          None           \* no flit, no port

Ports == 0 .. 4
dIdxNorth == 0
dIdxEast  == 1
dIdxSouth == 2
dIdxWest  == 3
dIdxLocal == 4

getXCoordinate(core) == core % 3
getYCoordinate(core) == core \div 3

\* Wrong variant: north and south changed over.
computeDestinationPortMixed(core, routerX, routerY) ==
  LET destinationX == getXCoordinate(core)
      destinationY == getYCoordinate(core)
  IN  CASE destinationX > routerX -> dIdxEast
        [] destinationX < routerX -> dIdxWest
        [] destinationX = routerX /\ destinationY > routerY -> dIdxNorth
        [] destinationX = routerX /\ destinationY < routerY -> dIdxSouth
        [] OTHER -> dIdxLocal

\* Route computation: XY_ is the algorithm NetworkTypes.bsv selects.
computeDestinationPort(core, routerX, routerY) ==
  LET destinationX == getXCoordinate(core)
      destinationY == getYCoordinate(core)
  IN  CASE destinationX > routerX -> dIdxEast
        [] destinationX < routerX -> dIdxWest
        [] destinationX = routerX /\ destinationY > routerY -> dIdxSouth
        [] destinationX = routerX /\ destinationY < routerY -> dIdxNorth
        [] OTHER -> dIdxLocal

Idle == [buffer |-> [p \in Ports |-> <<>>],
         slot   |-> None,
         latch  |-> [o \in Ports |-> <<>>],
         owner  |-> [o \in Ports |-> None]]

\* Wrong variant: off by one.
HasRoomForOneMore(router, p) == Len(router.buffer[p]) <= BufferDepth

HasRoom(router, p) == Len(router.buffer[p]) < BufferDepth

Received(router, p, flit) == [router EXCEPT !.buffer[p] = Append(@, flit)]

\* The output that will take the first flit of input p: the one that passes
\* p's message, or, for a HEAD, the one on its way when it is free.
Takers(router, x, y, p) ==
  IF router.buffer[p] = <<>> THEN {}
  ELSE LET flit == Head(router.buffer[p])
       IN  {o \in Ports : \/ router.owner[o] = p
                          \/ /\ router.owner[o] = None
                             /\ flit.flitType = "HEAD"
                             /\ computeDestinationPort(flit.core, x, y) = o}

\* Wrong variant: an output is never taken.
OwnerNone(flit, p) == None

\* Whom an output belongs to when it has let a flit of p through.
OwnerAfter(flit, p) == IF flit.flitType = "TAIL" THEN None ELSE p

Traversed(router, p, o) ==
  LET flit == Head(router.buffer[p])
  IN  [router EXCEPT !.buffer[p] = Tail(@),
                     !.slot = [flit |-> flit, out |-> o],
                     !.owner[o] = OwnerAfter(flit, p)]

CanLatch(router) == router.slot # None /\ router.latch[router.slot.out] = <<>>

Latched(router) == [router EXCEPT !.latch[router.slot.out] = <<router.slot.flit>>,
                                  !.slot = None]

CanLeave(router, o) == router.latch[o] # <<>>

Left(router, o) == [router EXCEPT !.latch[o] = <<>>]

\* One rule or one method call of the router at (x, y).
Step(router, after, x, y) ==
  \/ \E p \in Ports :
       /\ HasRoom(router, p)
       /\ after.buffer[p] # <<>>
       /\ after = Received(router, p, after.buffer[p][Len(after.buffer[p])])
  \/ /\ router.slot = None
     /\ \E p \in Ports : \E o \in Takers(router, x, y, p) :
          after = Traversed(router, p, o)
  \/ CanLatch(router) /\ after = Latched(router)
  \/ \E o \in Ports : CanLeave(router, o) /\ after = Left(router, o)

=============================================================================
