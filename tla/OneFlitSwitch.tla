--------------------------- MODULE OneFlitSwitch ---------------------------
(***************************************************************************)
(* What a router's crossbar does, seen from its ports: it holds one flit   *)
(* at a time, for all inputs and outputs together, gives it once to the    *)
(* output it was put for, and then keeps that output from taking and that  *)
(* input from putting until the register it used has been cleared.         *)
(* CrossbarSwitch implements this; Router is built on it.                  *)
(***************************************************************************)
CONSTANTS Ports,       \* port indices
          Flits,       \* what the ports exchange
          NoPort,      \* 3'b111: no register to clear
          NoFlit       \* the switch is empty

VARIABLES slot,        \* NoFlit, or the flit inside with its input and output
          draining,    \* draining[out]: input whose register out has just read
          delivered    \* last result of getFlit, with the port it was given to

vars == <<slot, draining, delivered>>

Slots == [in : Ports, flit : Flits, out : Ports]

Init == /\ slot = NoFlit
        /\ draining = [o \in Ports |-> NoPort]
        /\ delivered = NoFlit

CanPut(in) == slot = NoFlit /\ \A o \in Ports : draining[o] # in

CanTake(out) == slot # NoFlit /\ slot.out = out /\ draining[out] = NoPort

Put(in, flit, out) == /\ CanPut(in)
                      /\ slot' = [in |-> in, flit |-> flit, out |-> out]
                      /\ UNCHANGED draining

Take(out) == /\ CanTake(out)
             /\ slot' = NoFlit
             /\ draining' = [draining EXCEPT ![out] = slot.in]

Clear(out) == /\ draining[out] # NoPort
              /\ draining' = [draining EXCEPT ![out] = NoPort]
              /\ UNCHANGED slot

putFlit(in, flit, out) == Put(in, flit, out) /\ UNCHANGED delivered

getFlit(out) == Take(out) /\ delivered' = [flit |-> slot.flit, out |-> out]

clear(out) == Clear(out) /\ UNCHANGED delivered

Next == \/ \E in, out \in Ports, flit \in Flits : putFlit(in, flit, out)
        \/ \E out \in Ports : getFlit(out)
        \/ \E out \in Ports : clear(out)

Spec == Init /\ [][Next]_vars

=============================================================================
