------------------------ MODULE LeastRecentlyGranted ------------------------
(***************************************************************************)
(* What an arbiter of the network promises: the requesters stand in a      *)
(* queue, the first one of those that ask is granted, and it goes to the   *)
(* back.  MatrixArbiter implements this with a triangle of bits.           *)
(***************************************************************************)
EXTENDS Integers

CONSTANT NumReq

VARIABLES ready,       \* has initialize been called?
          queue,       \* all requesters, the least recently granted first
          request,     \* argument of the last getArbit
          response     \* its result

vars == <<ready, queue, request, response>>

Requesters == 0 .. NumReq - 1

Init == /\ ready = FALSE
        /\ queue = [k \in 1 .. NumReq |-> k - 1]
        /\ request = {}
        /\ response = {}

BecomeReady == /\ ~ready
               /\ ready' = TRUE
               /\ UNCHANGED <<queue, request, response>>

\* The one at place k goes to the back, and those behind it move up.
ToTheBack(k) ==
  [j \in 1 .. NumReq |-> IF j < k THEN queue[j]
                         ELSE IF j < NumReq THEN queue[j + 1] ELSE queue[k]]

Grant(reqs) ==
  \E k \in 1 .. NumReq :
    /\ ready
    /\ queue[k] \in reqs
    /\ \A j \in 1 .. k - 1 : queue[j] \notin reqs
    /\ request' = reqs
    /\ response' = {queue[k]}
    /\ queue' = ToTheBack(k)
    /\ UNCHANGED ready

NoGrant == /\ ready
           /\ request' = {}
           /\ response' = {}
           /\ UNCHANGED <<ready, queue>>

Next == \/ BecomeReady
        \/ \E reqs \in SUBSET Requesters : Grant(reqs)
        \/ NoGrant

Spec == Init /\ [][Next]_vars

=============================================================================
