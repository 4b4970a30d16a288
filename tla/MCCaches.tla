------------------------------ MODULE MCCaches ------------------------------
(***************************************************************************)
(* Two lines that want the same place in each cache, so that every line    *)
(* asked for drives the other out.  Offset 0 of a line is an instruction,  *)
(* offset 1 data; both lines are stored to and executed.                   *)
(***************************************************************************)
EXTENDS Caches

MCBytes == {0, 1}

MCLines == {1, 5}

MCContents == [line \in MCLines |-> [offset \in {0, 1} |->
                 [b \in MCBytes |-> IF offset = 0 THEN line ELSE 0]]]

Request(line, offset, bytes, value) ==
  [line |-> line, offset |-> offset, bytes |-> bytes, data |-> [b \in MCBytes |-> value]]

MCDataRequests == {Request(line, 1, {}, 0) : line \in MCLines}
                    \cup {Request(1, 1, {0}, 1), Request(1, 1, {0, 1}, 0), Request(5, 1, {1}, 1)}

MCInstrRequests == {Request(line, 0, {}, 0) : line \in MCLines}

=============================================================================
