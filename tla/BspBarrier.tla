----------------------------- MODULE BspBarrier -----------------------------
(***************************************************************************)
(* What bsp_sync() promises (README.md, "Synchronization"): two barriers.  *)
(* Nobody communicates before all have stopped computing, and nobody       *)
(* computes again before all have stopped communicating.  BspSync, the     *)
(* registers, wires and firmware that do it, implements this.              *)
(***************************************************************************)
EXTENDS Naturals

CONSTANTS Cores, MaxRounds

VARIABLES stage,   \* where each core is
          round    \* calls of bsp_sync it has begun

vars == <<stage, round>>

Stages == {"computing", "waiting", "communicating", "done"}

Init == /\ stage = [c \in Cores |-> "computing"]
        /\ round = [c \in Cores |-> 0]

Enter(c) == /\ stage[c] = "computing"
            /\ round[c] < MaxRounds
            /\ stage' = [stage EXCEPT ![c] = "waiting"]
            /\ round' = [round EXCEPT ![c] = @ + 1]

Communicate(c) == /\ stage[c] = "waiting"
                  /\ \A d \in Cores : round[d] = round[c] /\ stage[d] # "computing"
                  /\ stage' = [stage EXCEPT ![c] = "communicating"]
                  /\ UNCHANGED round

Finish(c) == /\ stage[c] = "communicating"
             /\ stage' = [stage EXCEPT ![c] = "done"]
             /\ UNCHANGED round

\* Those that have left may already wait for the next round.
Leave(c) == /\ stage[c] = "done"
            /\ \A d \in Cores : \/ round[d] = round[c] /\ stage[d] \in {"done", "computing"}
                                \/ round[d] = round[c] + 1 /\ stage[d] = "waiting"
            /\ stage' = [stage EXCEPT ![c] = "computing"]
            /\ UNCHANGED round

Next == \E c \in Cores : Enter(c) \/ Communicate(c) \/ Finish(c) \/ Leave(c)

Spec == Init /\ [][Next]_vars

=============================================================================
