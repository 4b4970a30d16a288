----------------------------- MODULE FlitStreams -----------------------------
(***************************************************************************)
(* Sequences of flits, as they pass a place in the network one after       *)
(* another: what of them is looked at, and when they are whole messages.   *)
(***************************************************************************)
EXTENDS Integers, Sequences

\* The elements of s that are in S, in their order.  (SelectSeq, for a set
\* and as a recursive function, which is what the proofs can look into.)
Picked(s, S) ==
  LET upTo[k \in 0 .. Len(s)] == IF k = 0 THEN <<>>
                                 ELSE IF s[k] \in S THEN Append(upTo[k - 1], s[k])
                                 ELSE upTo[k - 1]
  IN  upTo[Len(s)]

\* flit is of the message of last, and comes behind it.
Continues(flit, last) ==
  /\ last.flitType # "TAIL"
  /\ flit = [last EXCEPT !.flitType = flit.flitType, !.place = @ + 1]

\* One whole message after another, the last one perhaps not at its end yet:
\* a HEAD comes first or behind a TAIL, and every other flit continues the
\* message of the flit before it.
WholeMessages(s) ==
  \A k \in 1 .. Len(s) :
    IF s[k].flitType = "HEAD" THEN k > 1 => s[k - 1].flitType = "TAIL"
    ELSE k > 1 /\ Continues(s[k], s[k - 1])

=============================================================================
