------------------------------- MODULE Router -------------------------------
(***************************************************************************)
(* hw/network/Router.bsv: one router of the mesh.  Messages are worms of   *)
(* flits (a HEAD that names a core, BODY flits, a TAIL); an output that    *)
(* has let a HEAD through belongs to its input until the TAIL has passed.  *)
(*                                                                         *)
(* A flit's data is abstracted to the core its HEAD names and to a tag     *)
(* (the input it came by, the number of its message there, its place in    *)
(* the message).  Each rule of the source is an action: the semantics of   *)
(* Bluespec is that of one rule at a time.  The crossbar is OneFlitSwitch, *)
(* which CrossbarSwitch implements; the arbiters are PriorityMatrix.       *)
(***************************************************************************)
EXTENDS FlitStreams, SequencesExt

CONSTANTS routerX, routerY,   \* the router's place in the mesh
          BufferDepth,        \* places in an input buffer (4 in the source)
          InPorts,            \* ports that something is attached to
          Dests,              \* Dests[p]: cores that HEADs coming in by p may name
          MaxMessages,        \* MaxMessages[p]: bound on the messages that come in by p
          MaxLen,             \* MaxLen[p]: bound on the flits of each (at least 2)
          None                \* no port, no flit

W == INSTANCE WormholeRouter

Ports == W!Ports

ASSUME RouterAssumption == /\ InPorts \subseteq Ports
                           /\ BufferDepth \in Nat \ {0}
                           /\ \A p \in InPorts : Dests[p] \subseteq 0 .. 15
                           /\ None \notin Ports

VARIABLES inited,
          inputBuffer,        \* per port, a FIFO of flits
          arbResBuf,          \* per output, the pending grant: an input or None
          priorityBits,       \* per output, the matrix of its arbiter
          cbSlot, cbDraining, \* the crossbar
          outputLatch,        \* per output, a FIFO of one flit
          outputPortSource,   \* per output, the input it belongs to, or None
          sent, got           \* histories: flits put in by p, flits taken at o

vars == <<inited, inputBuffer, arbResBuf, priorityBits, cbSlot, cbDraining,
          outputLatch, outputPortSource, sent, got>>

Flit == [flitType : {"HEAD", "BODY", "TAIL"}, core : 0 .. 15,
         src : Ports, msg : Nat, place : Nat]

Slot == [in : Ports, flit : Flit, out : Ports]

ASSUME NoneAssumption == None \notin Slot \cup [flit : Flit, out : Ports]

M  == INSTANCE PriorityMatrix WITH NumReq <- 5
cb == INSTANCE OneFlitSwitch WITH Flits <- Flit, NoPort <- None, NoFlit <- None,
        slot <- cbSlot, draining <- cbDraining, delivered <- None

-----------------------------------------------------------------------------
computeDestinationPort(core) == W!computeDestinationPort(core, routerX, routerY)

Init == /\ inited = FALSE
        /\ inputBuffer = [p \in Ports |-> <<>>]
        /\ arbResBuf = [o \in Ports |-> None]
        /\ priorityBits = [o \in Ports |-> M!ResetBits]
        /\ cbSlot = None
        /\ cbDraining = [o \in Ports |-> None]
        /\ outputLatch = [o \in Ports |-> <<>>]
        /\ outputPortSource = [o \in Ports |-> None]
        /\ sent = [p \in Ports |-> <<>>]
        /\ got = [o \in Ports |-> <<>>]

doInitialize ==
  /\ ~inited
  /\ inited' = TRUE
  /\ priorityBits' = [o \in Ports |-> M!ClearDiagonal(priorityBits[o])]
  /\ UNCHANGED <<inputBuffer, arbResBuf, cbSlot, cbDraining, outputLatch,
                 outputPortSource, sent, got>>

notEmpty(p) == inputBuffer[p] # <<>>

newHeadFlit(p) == notEmpty(p) /\ Head(inputBuffer[p]).flitType = "HEAD"

\* Wrong variant: a HEAD asks for every output.
RequestEverywhere(o) == {p \in Ports : newHeadFlit(p)}

\* The inputs whose first flit is a HEAD that has to leave by o.
Request(o) == {p \in Ports : newHeadFlit(p)
                 /\ computeDestinationPort(Head(inputBuffer[p]).core) = o}

\* A free output asks its arbiter; with no request the rule has no effect.
\* An output that is taken renews the grant of its input when that input has
\* a flit.  Either way a grant must fit into arbResBuf for the rule to fire.
rl_Switch_Arbitration(o) ==
  /\ inited
  /\ arbResBuf[o] = None
  /\ \/ /\ outputPortSource[o] = None
        /\ Request(o) # {}
        /\ \E idx \in M!getGrantIdx(priorityBits[o], Request(o)) :
             /\ arbResBuf' = [arbResBuf EXCEPT ![o] = idx]
             /\ priorityBits' = [priorityBits EXCEPT ![o] = M!updatePriorityBits(@, idx)]
     \/ /\ outputPortSource[o] # None
        /\ notEmpty(outputPortSource[o])
        /\ arbResBuf' = [arbResBuf EXCEPT ![o] = outputPortSource[o]]
        /\ UNCHANGED priorityBits
  /\ UNCHANGED <<inited, inputBuffer, cbSlot, cbDraining, outputLatch,
                 outputPortSource, sent, got>>

\* Wrong variants: an output is not given back at a TAIL; or given back at a
\* BODY.
NewSourceKept(flit, winner) == winner
NewSourceOfHead(flit, winner) == IF flit.flitType = "HEAD" THEN winner ELSE None

\* Whom an output belongs to when it has let a flit of winner through.
NewSource(flit, winner) == IF flit.flitType = "TAIL" THEN None ELSE winner

\* The first flit of the winner goes into the crossbar.
rl_Switch_Traversal(o) ==
  /\ inited
  /\ arbResBuf[o] # None
  /\ LET winner == arbResBuf[o]
     IN  /\ notEmpty(winner)
         /\ LET flit == Head(inputBuffer[winner])
            IN  /\ cb!Put(winner, flit, o)
                /\ inputBuffer' = [inputBuffer EXCEPT ![winner] = Tail(@)]
                /\ outputPortSource' = [outputPortSource EXCEPT ![o] =
                                         NewSource(flit, winner)]
         /\ arbResBuf' = [arbResBuf EXCEPT ![o] = None]
  /\ UNCHANGED <<inited, priorityBits, outputLatch, sent, got>>

\* Wrong variant: the latch is overwritten.
rl_enqOutLatchOverwriting(o) ==
  /\ inited
  /\ cb!Take(o)
  /\ outputLatch' = [outputLatch EXCEPT ![o] = <<cbSlot.flit>>]
  /\ UNCHANGED <<inited, inputBuffer, arbResBuf, priorityBits,
                 outputPortSource, sent, got>>

rl_enqOutLatch(o) ==
  /\ inited
  /\ outputLatch[o] = <<>>
  /\ cb!Take(o)
  /\ outputLatch' = [outputLatch EXCEPT ![o] = <<cbSlot.flit>>]
  /\ UNCHANGED <<inited, inputBuffer, arbResBuf, priorityBits,
                 outputPortSource, sent, got>>

clearingIndexRule(o) ==
  /\ cb!Clear(o)
  /\ UNCHANGED <<inited, inputBuffer, arbResBuf, priorityBits, outputLatch,
                 outputPortSource, sent, got>>

\* dataLinks[o].getFlit, called by the link or the core on that side.
getFlit(o) ==
  /\ outputLatch[o] # <<>>
  /\ got' = [got EXCEPT ![o] = Append(@, Head(outputLatch[o]))]
  /\ outputLatch' = [outputLatch EXCEPT ![o] = Tail(@)]
  /\ UNCHANGED <<inited, inputBuffer, arbResBuf, priorityBits, cbSlot,
                 cbDraining, outputPortSource, sent>>

\* Wrong variant: notFull is not asked.
putFlitUnguarded(p, flit) ==
  /\ inputBuffer' = [inputBuffer EXCEPT ![p] = Append(@, flit)]
  /\ sent' = [sent EXCEPT ![p] = Append(@, flit)]
  /\ UNCHANGED <<inited, arbResBuf, priorityBits, cbSlot, cbDraining,
                 outputLatch, outputPortSource, got>>

\* dataLinks[p].putFlit, called by the link or the core on that side.
putFlit(p, flit) ==
  /\ Len(inputBuffer[p]) < BufferDepth
  /\ inputBuffer' = [inputBuffer EXCEPT ![p] = Append(@, flit)]
  /\ sent' = [sent EXCEPT ![p] = Append(@, flit)]
  /\ UNCHANGED <<inited, arbResBuf, priorityBits, cbSlot, cbDraining,
                 outputLatch, outputPortSource, got>>

\* What comes in by a port: one whole message after another.
BetweenMessages(p) == IF sent[p] = <<>> THEN TRUE ELSE Last(sent[p]).flitType = "TAIL"

NewMessage(p) ==
  /\ BetweenMessages(p)
  /\ LET number == IF sent[p] = <<>> THEN 1 ELSE Last(sent[p]).msg + 1
     IN  /\ number <= MaxMessages[p]
         /\ \E core \in Dests[p] :
              putFlit(p, [flitType |-> "HEAD", core |-> core, src |-> p,
                          msg |-> number, place |-> 1])

NextFlit(p) ==
  /\ ~BetweenMessages(p)
  /\ \E type \in {"BODY", "TAIL"} :
       /\ type = "BODY" => Last(sent[p]).place + 1 < MaxLen[p]
       /\ putFlit(p, [Last(sent[p]) EXCEPT !.flitType = type, !.place = @ + 1])

Next == \/ doInitialize
        \/ \E o \in Ports : \/ rl_Switch_Arbitration(o)
                            \/ rl_Switch_Traversal(o)
                            \/ rl_enqOutLatch(o)
                            \/ clearingIndexRule(o)
                            \/ getFlit(o)
        \/ \E p \in InPorts : NewMessage(p) \/ NextFlit(p)

Spec == Init /\ [][Next]_vars

\* A rule that stays enabled fires: the compiler's schedule tries every rule
\* in every cycle, and of two that conflict the loser is disabled by the
\* winner.  The neighbours take what is offered, and finish a message once
\* they have started it; they need not start one.
Fairness == /\ WF_vars(doInitialize)
            /\ \A o \in Ports : /\ WF_vars(rl_Switch_Arbitration(o))
                                /\ WF_vars(rl_Switch_Traversal(o))
                                /\ WF_vars(rl_enqOutLatch(o))
                                /\ WF_vars(clearingIndexRule(o))
                                /\ WF_vars(getFlit(o))
            /\ \A p \in InPorts : WF_vars(NextFlit(p))

FairSpec == Spec /\ Fairness

-----------------------------------------------------------------------------
\* Type invariant: FIFOs within their capacity, indices that name ports.
TypeOK ==
  /\ inited \in BOOLEAN
  /\ {inputBuffer, outputLatch, sent, got} \subseteq [Ports -> Seq(Flit)]
  /\ \A p \in Ports : Len(inputBuffer[p]) <= BufferDepth /\ Len(outputLatch[p]) <= 1
  /\ {arbResBuf, outputPortSource, cbDraining} \subseteq [Ports -> Ports \cup {None}]
  /\ cbSlot \in Slot \cup {None}
  /\ priorityBits \in [Ports -> M!Matrix]

\* What the crossbar holds for output o.
InCrossbar(o) == IF cbSlot # None /\ cbSlot.out = o THEN <<cbSlot.flit>> ELSE <<>>

\* All that has left an input buffer for o, in the order it leaves the router.
Departed(o) == got[o] \o outputLatch[o] \o InCrossbar(o)

\* The flits that have left input buffer p.
Consumed(p) == SubSeq(sent[p], 1, Len(sent[p]) - Len(inputBuffer[p]))

FlitsOf(p) == {f \in Flit : f.src = p}
FlitsTo(o) == {f \in Flit : computeDestinationPort(f.core) = o}

\* Every flit that has left its input buffer is once, unaltered, on the way
\* to the output its HEAD asked for or beyond it, and the flits of an input
\* leave by an output in the order they came: no flit is lost, duplicated,
\* misrouted or overtaken inside a router.
ExactlyOnceInOrder ==
  \A p, o \in Ports : Picked(Departed(o), FlitsOf(p)) = Picked(Consumed(p), FlitsTo(o))

\* Wormhole switching: at an output a message is never cut in two by flits
\* of another one.  FlitEngine, at the receiving end, counts on it: it knows
\* a message's flits only by their coming between its HEAD and its TAIL.
NoInterleaving == \A o \in Ports : WholeMessages(Departed(o))

\* The outputs that hold a grant for input p or belong to it.
Claims(p) == {o \in Ports : arbResBuf[o] = p \/ outputPortSource[o] = p}

\* An input is never granted to, or held by, two outputs at a time (both
\* would take the first flit of its buffer), a pending grant always finds a
\* flit, and it is for the message the output is passing or for a HEAD that
\* asked for this output.
GrantsConsistent ==
  \A p \in Ports :
    /\ \A o1, o2 \in Claims(p) : o1 = o2
    /\ \A o \in Ports : arbResBuf[o] = p =>
         /\ notEmpty(p)
         /\ computeDestinationPort(Head(inputBuffer[p]).core) = o
         /\ IF outputPortSource[o] = None THEN newHeadFlit(p)
            ELSE outputPortSource[o] = p /\ ~newHeadFlit(p)

\* Buffers and grants are what they are declared for and agree with each other.
RouterInv == TypeOK /\ GrantsConsistent

-----------------------------------------------------------------------------
\* What makes them inductive.  The input buffers hold the end of what was put
\* in, which is whole messages of the input's own.
BuffersHoldTheRest ==
  \A p \in Ports :
    /\ sent[p] = Consumed(p) \o inputBuffer[p]
    /\ WholeMessages(sent[p])
    /\ \A k \in 1 .. Len(sent[p]) : sent[p][k].src = p

\* A message of input p has begun to leave its buffer and not finished.
UnderWay(p) == Consumed(p) # <<>> /\ Last(Consumed(p)).flitType # "TAIL"

\* The outputs belong to exactly these messages, each to one on its way.
OwnersUnderWay ==
  \A o, p \in Ports : outputPortSource[o] = p <=>
    UnderWay(p) /\ computeDestinationPort(Last(Consumed(p)).core) = o

\* The last flit that went to an output is the last that its owner gave, or
\* the end of a message.
LastDepartedIsOwners ==
  \A o \in Ports :
    IF outputPortSource[o] = None THEN Departed(o) # <<>> => Last(Departed(o)).flitType = "TAIL"
    ELSE Departed(o) # <<>> /\ Last(Departed(o)) = Last(Consumed(outputPortSource[o]))

\* The arbiters have a strict order of the inputs, so that they grant what
\* was asked for (MatrixArbiter).
ArbitersOrdered ==
  \A o \in Ports :
    /\ \A a, b \in M!Idx : M!Beats(priorityBits[o], a, b) =>
         \A c \in M!Idx : M!Beats(priorityBits[o], b, c) => M!Beats(priorityBits[o], a, c)
    /\ inited => \A a \in M!Idx : priorityBits[o][a][a] = 0

IInv == /\ RouterInv /\ BuffersHoldTheRest /\ OwnersUnderWay
        /\ LastDepartedIsOwners /\ ArbitersOrdered

\* As long as the neighbours take what is offered and finish what they
\* start, all that was put into the router leaves it: no schedule of the
\* five ports, which share the one slot of the crossbar, blocks for ever.
NothingInside == /\ cbSlot = None
                 /\ \A p \in Ports : inputBuffer[p] = <<>> /\ outputLatch[p] = <<>>
EverythingLeaves == <>[]NothingInside

\* Seen from its links the router is a WormholeRouter: grants and arbiters,
\* made and used in steps of their own, never let a flit go another way.
Wormhole == [buffer |-> inputBuffer,
             slot   |-> IF cbSlot = None THEN None
                        ELSE [flit |-> cbSlot.flit, out |-> cbSlot.out],
             latch  |-> outputLatch,
             owner  |-> outputPortSource]

ImplementsWormholeRouter ==
  /\ Wormhole = W!Idle
  /\ [][W!Step(Wormhole, Wormhole', routerX, routerY)]_Wormhole

=============================================================================
