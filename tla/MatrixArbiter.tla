---------------------------- MODULE MatrixArbiter ----------------------------
(***************************************************************************)
(* hw/network/MatrixArbiter.bsv, the arbiter each output port of a router  *)
(* owns.  The router calls initialize once (Router.bsv, doInitialize, which *)
(* sets the router's own inited flag in the same step) and getArbit only   *)
(* after that, so getArbit is guarded here by inited.                      *)
(***************************************************************************)
EXTENDS PriorityMatrix

VARIABLES inited,        \* Reg#(Bool) inited
          priorityBits,  \* the matrix of 1-bit registers
          request,       \* argument of the last getArbit
          response,      \* its result, as a set of at most one requester
          waits          \* history: getArbit calls each requester has lost in a row

vars == <<inited, priorityBits, request, response, waits>>

Init == /\ inited = FALSE
        /\ priorityBits = ResetBits
        /\ request = {}
        /\ response = {}
        /\ waits = [i \in Idx |-> 0]

initialize == /\ ~inited
              /\ inited' = TRUE
              /\ priorityBits' = ClearDiagonal(priorityBits)
              /\ UNCHANGED <<request, response, waits>>

\* A requester that asks and is not served has lost once more.
CountLosses(reqs, granted) ==
  waits' = [i \in Idx |-> IF i \in reqs \ granted THEN waits[i] + 1 ELSE 0]

doArbit(reqs) ==
  /\ request' = reqs
  /\ \/ /\ reqs = {}
        /\ response' = {}
        /\ UNCHANGED priorityBits
     \/ /\ reqs # {}
        /\ \E idx \in getGrantIdx(priorityBits, reqs) :
             /\ response' = packGrantIdx(idx)
             /\ priorityBits' = updatePriorityBits(priorityBits, idx)
  /\ CountLosses(reqs, response')

getArbit(reqs) == inited /\ doArbit(reqs) /\ UNCHANGED inited

Next == initialize \/ \E reqs \in SUBSET Idx : getArbit(reqs)

Spec == Init /\ [][Next]_vars

-----------------------------------------------------------------------------
\* Type invariant: the registers keep their width, a grant names a port of
\* the arbiter (packGrantIdx sets a bit of a num-bit vector).
TypeOK == /\ inited \in BOOLEAN
          /\ priorityBits \in Matrix
          /\ request \in SUBSET Idx
          /\ response \in SUBSET Idx
          /\ waits \in [Idx -> Nat]

\* Whoever asks, exactly one requester is permitted: getGrantIdx never
\* returns its uninitialized "?", and the order in which its loop visits the
\* permitted requesters does not matter.  (This is what makes the result a
\* one-hot vector that names one of those that asked.)
ExactlyOneWinner ==
  inited => \A reqs \in SUBSET Idx :
              reqs # {} => \E w \in reqs : Permitted(priorityBits, reqs) = {w}

\* No starvation: a requester that keeps asking loses at most NumReq - 1
\* calls of getArbit in a row.
BoundedWaiting == \A i \in Idx : waits[i] <= NumReq - 1

\* The strengthening that makes ExactlyOneWinner and BoundedWaiting
\* inductive: the triangle of bits encodes a strict total order (totality
\* and antisymmetry come with the encoding), and every lost call has moved
\* its loser one place up in that order.
Transitive ==
  \A a, b, c \in Idx :
    Beats(priorityBits, a, b) /\ Beats(priorityBits, b, c) => Beats(priorityBits, a, c)
DiagonalClear == inited => \A i \in Idx : priorityBits[i][i] = 0
LossesMoveUp ==
  \A i \in Idx : waits[i] + Cardinality(Above(priorityBits, i)) <= NumReq - 1

IInv == TypeOK /\ Transitive /\ DiagonalClear /\ LossesMoveUp

\* The arbiter is a least-recently-granted queue: the requester with k
\* others above it stands at place k + 1.
QueueOf(P) ==
  [k \in 1 .. NumReq |-> CHOOSE i \in Idx : Cardinality(Above(P, i)) = k - 1]

LRG == INSTANCE LeastRecentlyGranted
         WITH ready <- inited, queue <- QueueOf(priorityBits)

\* Every behaviour of the bit matrix is a behaviour of the queue.
ImplementsQueue == LRG!Spec

=============================================================================
