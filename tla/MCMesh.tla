------------------------------- MODULE MCMesh -------------------------------
(***************************************************************************)
(* Mesh with the traffic of the programs (distribution by the master,      *)
(* results to it), and with messages that cross on a line.                 *)
(***************************************************************************)
EXTENDS Mesh, TLC

\* len flits for core to.
Message(to, len) ==
  [i \in 1 .. len |-> [core |-> to, flitType |-> CASE i = 1   -> "HEAD"
                                                  [] i = len -> "TAIL"
                                                  [] OTHER   -> "BODY"]]

\* Where the messages of the cores of sent are known, the flits of all cores.
TrafficOf(sent) ==
  [c \in Routers |->
     LET flits == IF c \in DOMAIN sent THEN FlattenSeq(sent[c]) ELSE <<>>
     IN  [i \in 1 .. Len(flits) |-> [flitType |-> flits[i].flitType, core |-> flits[i].core,
                                     src |-> c, number |-> i]]]

Distribution == TrafficOf(0 :> <<Message(1, 3), Message(4, 2), Message(2, 2), Message(3, 2)>>)

Results == TrafficOf(1 :> <<Message(0, 2)>> @@ 3 :> <<Message(0, 2)>>
                       @@ 4 :> <<Message(0, 2)>>)

Crossing == TrafficOf(0 :> <<Message(2, 3)>> @@ 2 :> <<Message(0, 3)>>)

MCTraffics == {Distribution, Results, Crossing}

=============================================================================
