--------------------------- MODULE PriorityMatrix ---------------------------
(***************************************************************************)
(* The combinational part of hw/network/MatrixArbiter.bsv: pure functions  *)
(* of the priority matrix.  A request vector (Bit#(num) in the source) is  *)
(* the set of the requesters whose bit is 1; a one-hot grant vector is a   *)
(* set with at most one element.                                           *)
(***************************************************************************)
EXTENDS Integers, FiniteSetsExt

CONSTANT NumReq        \* number of requesters (5 in the router: N, E, S, W, L)

ASSUME NumReqAssumption == NumReq \in Nat \ {0}

Idx == 0 .. NumReq - 1

Matrix == [Idx -> [Idx -> 0 .. 1]]

\* priorityBits <- replicateM(replicateM(mkReg(1))).
ResetBits == [i \in Idx |-> [j \in Idx |-> 1]]

\* Wrong variants, which the properties have to tell from the right ones:
\* the diagonal is left as the reset value is,
ClearDiagonalSkipped(P) == P

\* only the row of the requester just served is cleared,
ClearRowOnly(P, target) == [P EXCEPT ![target] = [j \in Idx |-> 0]]

\* row and column are exchanged,
SetRowClearColumn(P, target) ==
  [i \in Idx |-> [j \in Idx |-> IF i = target THEN (IF j = i THEN 0 ELSE 1)
                                ELSE IF j = target THEN 0 ELSE P[i][j]]]

\* the test i != target is missing,
SetDiagonalToo(P, target) ==
  [i \in Idx |-> [j \in Idx |-> IF j = target THEN 1
                                ELSE IF i = target THEN 0 ELSE P[i][j]]]

\* the bit after the right one is set.
packGrantIdxOffByOne(idx) == {idx + 1}

\* initialize_func: the diagonal is cleared, nothing else.
ClearDiagonal(P) == [i \in Idx |-> [P[i] EXCEPT ![i] = 0]]

\* The bit priBits[i] that getPermitSignal computes for requester idx: only
\* the upper triangle and the diagonal of the matrix are ever read.
PriBit(P, i, idx) == IF i > idx THEN 1 - P[idx][i] ELSE P[i][idx]

\* No requester that is asking has priority over idx.
getPermitSignal(P, reqs, idx) == \A i \in reqs : PriBit(P, i, idx) = 0

Permitted(P, reqs) == {idx \in reqs : getPermitSignal(P, reqs, idx)}

\* The loop keeps the last permitted requester; with none the result is the
\* uninitialized "?", that is, any index.
getGrantIdx(P, reqs) ==
  IF Permitted(P, reqs) = {} THEN Idx ELSE {Max(Permitted(P, reqs))}

\* Row target is cleared, column target is set (but for the diagonal): the
\* requester just served now loses to everybody.
updatePriorityBits(P, target) ==
  [i \in Idx |-> [j \in Idx |-> IF i = target THEN 0
                                ELSE IF j = target THEN 1 ELSE P[i][j]]]

packGrantIdx(idx) == {idx}

\* a has priority over b, as the two wires read it.  (For a # b this is the
\* same as PriBit(P, a, b) = 1.)
Beats(P, a, b) == a # b /\ PriBit(P, a, b) = 1

\* The requesters that come before b.
Above(P, b) == {a \in Idx : Beats(P, a, b)}

=============================================================================
