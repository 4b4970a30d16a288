------------------------------ MODULE BspSync ------------------------------
(***************************************************************************)
(* The barrier of the BSP machine: bsp_sync() in the firmware (bsp.h), the *)
(* registers it reads and writes (Core.bsv) and the rules of the top level *)
(* that collect the cores' signals and send the result back (TopCore.bsv). *)
(*                                                                         *)
(* One action per rule, and per memory-mapped access of the firmware; the  *)
(* rules fire one at a time and in any order, which allows every schedule  *)
(* the compiler may choose and any number of cycles between two            *)
(* instructions of a core.  BspSyncClock has the actual clock.             *)
(*                                                                         *)
(* A flit is abstracted to the core it is for, the mesh to the number of   *)
(* flits inside that are on the way to each core.                          *)
(***************************************************************************)
EXTENDS Naturals

CONSTANTS Cores,        \* nine in the source
          FifoDepth,    \* places of outgoingFlits (mkFIFOF: 2)
          MaxFlits,     \* bound on the flits a core has queued with bsp_put
          MaxRounds     \* bound on the calls of bsp_sync

ASSUME BspSyncAssumption == /\ Cores # {}
                            /\ FifoDepth \in Nat
                            /\ MaxFlits \in Nat
                            /\ MaxRounds \in Nat

VARIABLES pc,                  \* the next memory-mapped access of bsp_sync
          queued,              \* flits left between bspRdPtr and bspQueuePtr
          bsp_my_sync, bsp_sync_all_start, bsp_sync_all_end,  \* Core.bsv
          outgoingFlits,       \* per core, the number of flits in the FIFO
          csync_r, allsync_r,  \* TopCore.bsv
          inMesh,              \* flits in the network for each core
          round                \* history: calls of bsp_sync begun

coreVars == <<pc, queued, bsp_my_sync, bsp_sync_all_start, bsp_sync_all_end, round>>
vars == <<coreVars, outgoingFlits, csync_r, allsync_r, inMesh>>

Init == /\ pc = [c \in Cores |-> "compute"]
        /\ queued = [c \in Cores |-> 0]
        /\ bsp_my_sync = [c \in Cores |-> FALSE]
        /\ bsp_sync_all_start = [c \in Cores |-> FALSE]
        /\ bsp_sync_all_end = [c \in Cores |-> FALSE]
        /\ outgoingFlits = [c \in Cores |-> 0]
        /\ csync_r = [c \in Cores |-> FALSE]
        /\ allsync_r = "Unsync"
        /\ inMesh = [c \in Cores |-> 0]
        /\ round = [c \in Cores |-> 0]

-----------------------------------------------------------------------------
\* The top level.

\* Wrong variant: getLocalSync without the OR.
getLocalSyncNoFifo(c) == bsp_my_sync[c]

getLocalSync(c) == bsp_my_sync[c] \/ outgoingFlits[c] > 0

\* Wrong variants: one core is enough.
AnySet   == \E c \in Cores : csync_r[c]
AnyClear == \E c \in Cores : ~csync_r[c]

AllSet   == \A c \in Cores : csync_r[c]
AllClear == \A c \in Cores : ~csync_r[c]

regSyncs == /\ csync_r' = [c \in Cores |-> getLocalSync(c)]
            /\ UNCHANGED <<coreVars, outgoingFlits, allsync_r, inMesh>>

updateSync == /\ allsync_r' = IF AllSet THEN "Start"
                              ELSE IF AllClear THEN "Finish" ELSE "Unsync"
              /\ UNCHANGED <<coreVars, outgoingFlits, csync_r, inMesh>>

\* Wrong variant: what is not Start ends the phase.
propogateAllSyncNoUnsync ==
  /\ bsp_sync_all_start' = [c \in Cores |-> allsync_r = "Start"]
  /\ bsp_sync_all_end' = [c \in Cores |-> allsync_r # "Start"]
  /\ UNCHANGED <<pc, queued, bsp_my_sync, round, outgoingFlits, csync_r, allsync_r, inMesh>>

\* setAllSync of every core.
propogateAllSync ==
  /\ bsp_sync_all_start' = [c \in Cores |-> allsync_r = "Start"]
  /\ bsp_sync_all_end' = [c \in Cores |-> allsync_r = "Finish"]
  /\ UNCHANGED <<pc, queued, bsp_my_sync, round, outgoingFlits, csync_r, allsync_r, inMesh>>

\* corePut and coreGet: a flit goes into the mesh at its sender, for some
\* core, and comes out at that core.
corePut(c) == /\ outgoingFlits[c] > 0
              /\ outgoingFlits' = [outgoingFlits EXCEPT ![c] = @ - 1]
              /\ \E d \in Cores : inMesh' = [inMesh EXCEPT ![d] = @ + 1]
              /\ UNCHANGED <<coreVars, csync_r, allsync_r>>

coreGet(d) == /\ inMesh[d] > 0
              /\ inMesh' = [inMesh EXCEPT ![d] = @ - 1]
              /\ UNCHANGED <<coreVars, outgoingFlits, csync_r, allsync_r>>

-----------------------------------------------------------------------------
\* bsp_sync.

topVars == <<csync_r, allsync_r, inMesh>>

Goto(c, label) == pc' = [pc EXCEPT ![c] = label]

\* *BSP_MY_SYNC = 1, after a computation that called bsp_put for n flits.
SetMySync(c, n) ==
  /\ pc[c] = "compute" /\ round[c] < MaxRounds
  /\ Goto(c, "pollStart")
  /\ queued' = [queued EXCEPT ![c] = n]
  /\ bsp_my_sync' = [bsp_my_sync EXCEPT ![c] = TRUE]
  /\ round' = [round EXCEPT ![c] = @ + 1]
  /\ UNCHANGED <<bsp_sync_all_start, bsp_sync_all_end, outgoingFlits, topVars>>

\* while (!*BSP_ALL_SYNC_START) -- the read that ends the loop.
SeeStart(c) ==
  /\ pc[c] = "pollStart" /\ bsp_sync_all_start[c]
  /\ Goto(c, "clearStart")
  /\ UNCHANGED <<queued, bsp_my_sync, bsp_sync_all_start, bsp_sync_all_end, round,
                 outgoingFlits, topVars>>

\* *BSP_ALL_SYNC_START = 0
ClearStart(c) ==
  /\ pc[c] = "clearStart"
  /\ Goto(c, "send")
  /\ bsp_sync_all_start' = [bsp_sync_all_start EXCEPT ![c] = FALSE]
  /\ UNCHANGED <<queued, bsp_my_sync, bsp_sync_all_end, round, outgoingFlits, topVars>>

\* Wrong variant: the store does not wait for room in the FIFO.
SendFlitUnguarded(c) ==
  /\ pc[c] = "send" /\ queued[c] > 0
  /\ queued' = [queued EXCEPT ![c] = @ - 1]
  /\ outgoingFlits' = [outgoingFlits EXCEPT ![c] = @ + 1]
  /\ UNCHANGED <<pc, bsp_my_sync, bsp_sync_all_start, bsp_sync_all_end, round, topVars>>

\* *(ROUTER_SEND_FLIT_H+type) = data
SendFlit(c) ==
  /\ pc[c] = "send" /\ queued[c] > 0
  /\ outgoingFlits[c] < FifoDepth
  /\ queued' = [queued EXCEPT ![c] = @ - 1]
  /\ outgoingFlits' = [outgoingFlits EXCEPT ![c] = @ + 1]
  /\ UNCHANGED <<pc, bsp_my_sync, bsp_sync_all_start, bsp_sync_all_end, round, topVars>>

\* *BSP_MY_SYNC = 0
ClearMySync(c) ==
  /\ pc[c] = "send" /\ queued[c] = 0
  /\ Goto(c, "pollEnd")
  /\ bsp_my_sync' = [bsp_my_sync EXCEPT ![c] = FALSE]
  /\ UNCHANGED <<queued, bsp_sync_all_start, bsp_sync_all_end, round, outgoingFlits, topVars>>

\* Wrong variant: bsp_sync does not poll for END.
SeeEndNoPoll(c) ==
  /\ pc[c] = "pollEnd"
  /\ Goto(c, "clearEnd")
  /\ UNCHANGED <<queued, bsp_my_sync, bsp_sync_all_start, bsp_sync_all_end, round,
                 outgoingFlits, topVars>>

\* while (!*BSP_ALL_SYNC_END) -- the read that ends the loop.
SeeEnd(c) ==
  /\ pc[c] = "pollEnd" /\ bsp_sync_all_end[c]
  /\ Goto(c, "clearEnd")
  /\ UNCHANGED <<queued, bsp_my_sync, bsp_sync_all_start, bsp_sync_all_end, round,
                 outgoingFlits, topVars>>

\* *BSP_ALL_SYNC_END = 0, and bsp_sync returns.
ClearEnd(c) ==
  /\ pc[c] = "clearEnd"
  /\ Goto(c, "compute")
  /\ bsp_sync_all_end' = [bsp_sync_all_end EXCEPT ![c] = FALSE]
  /\ UNCHANGED <<queued, bsp_my_sync, bsp_sync_all_start, round, outgoingFlits, topVars>>

Next == \/ regSyncs \/ updateSync \/ propogateAllSync
        \/ \E c \in Cores : \/ corePut(c) \/ coreGet(c)
                            \/ \E n \in 0 .. MaxFlits : SetMySync(c, n)
                            \/ SeeStart(c) \/ ClearStart(c)
                            \/ SendFlit(c) \/ ClearMySync(c)
                            \/ SeeEnd(c) \/ ClearEnd(c)

Spec == Init /\ [][Next]_vars

-----------------------------------------------------------------------------
Labels == {"compute", "pollStart", "clearStart", "send", "pollEnd", "clearEnd"}

\* Type invariant.
TypeOK == /\ pc \in [Cores -> Labels]
          /\ queued \in [Cores -> 0 .. MaxFlits]
          /\ bsp_my_sync \in [Cores -> BOOLEAN]
          /\ bsp_sync_all_start \in [Cores -> BOOLEAN]
          /\ bsp_sync_all_end \in [Cores -> BOOLEAN]
          /\ outgoingFlits \in [Cores -> 0 .. FifoDepth]
          /\ csync_r \in [Cores -> BOOLEAN]
          /\ allsync_r \in {"Unsync", "Start", "Finish"}
          /\ inMesh \in [Cores -> Nat]
          /\ round \in [Cores -> 0 .. MaxRounds]

\* A core that has seen START finds every other core in the same call of
\* bsp_sync, although START may have been computed from values that were
\* old when it read them.
StartBarrier ==
  \A c, d \in Cores : pc[c] \in {"clearStart", "send"} =>
    round[d] = round[c] /\ pc[d] \in {"pollStart", "clearStart", "send", "pollEnd"}

\* A core that has seen END and not yet entered bsp_sync again finds that
\* every other core has cleared its MY_SYNC in that call and that none has a
\* flit left that is not in the network: END is not one of the zeroes the
\* wires carried before the phase began.
EndBarrier ==
  \A c, d \in Cores : pc[c] \in {"clearEnd", "compute"} =>
    /\ outgoingFlits[d] = 0
    /\ \/ round[d] = round[c] /\ pc[d] \in {"pollEnd", "clearEnd", "compute"}
       \/ round[d] = round[c] + 1 /\ pc[d] = "pollStart"

\* Flits go into the network only while every core is inside bsp_sync: the
\* assumption of getLocalSync's NOTE (Core.bsv:301) as the firmware keeps it.
SendOnlyInside ==
  \A c, d \in Cores : outgoingFlits[c] > 0 => pc[d] \notin {"compute", "clearEnd"}

-----------------------------------------------------------------------------
\* The inductive invariant.  At any time the cores are all in call R, between
\* entering it and seeing END ...
CommIn(R) ==
  \A c \in Cores : /\ round[c] = R
                   /\ pc[c] \in {"pollStart", "clearStart", "send", "pollEnd"}

\* ... or all between having cleared MY_SYNC in call R and seeing START of
\* the next call, with nothing left to send.
GatherIn(R) ==
  \A c \in Cores : /\ outgoingFlits[c] = 0
                   /\ \/ round[c] = R /\ pc[c] \in {"pollEnd", "clearEnd", "compute"}
                      \/ round[c] = R + 1 /\ pc[c] = "pollStart"

Comm   == \E R \in 0 .. MaxRounds : CommIn(R)
Gather == \E R \in 0 .. MaxRounds : GatherIn(R)

MySyncWhileInside ==
  \A c \in Cores : bsp_my_sync[c] <=> pc[c] \in {"pollStart", "clearStart", "send"}

StartSeen == \E c \in Cores : bsp_sync_all_start[c]
EndSeen   == \E c \in Cores : bsp_sync_all_end[c]

\* Whatever stage of the wires says "all set", all are communicating; whatever
\* stage says "all clear", all are gathering.
SaysSet   == AllSet   \/ allsync_r = "Start"  \/ StartSeen
SaysClear == AllClear \/ allsync_r = "Finish" \/ EndSeen

WiresTellPhase == (SaysSet => Comm) /\ (SaysClear => Gather)

\* News overtakes nothing: while a core still waits for START, a START that
\* has come through is not followed by the zeroes of the phase before; while
\* a core still waits for END, an END is not followed by the ones before.
NoStaleClear ==
  (\E c \in Cores : pc[c] = "pollStart") =>
    /\ allsync_r = "Start" \/ StartSeen => ~AllClear
    /\ StartSeen => allsync_r # "Finish" /\ ~EndSeen
NoStaleSet ==
  (\E c \in Cores : pc[c] = "pollEnd") =>
    /\ allsync_r = "Finish" \/ EndSeen => ~AllSet
    /\ EndSeen => allsync_r # "Start" /\ ~StartSeen

IInv == /\ TypeOK /\ MySyncWhileInside
        /\ Comm \/ Gather
        /\ WiresTellPhase /\ NoStaleClear /\ NoStaleSet

-----------------------------------------------------------------------------
\* What README.md:65 asks of END: "that the network does not have any packets
\* in flight.  Otherwise, memory could be overwritten by packets which are
\* finally handled during computation" (Core.bsv:79: "emptied out all network
\* queues").
NothingArrivesWhileComputing ==
  \A c \in Cores : pc[c] = "compute" => inMesh[c] = 0

\* The refinement: where the core stands in the two barriers.
Stage(label) == CASE label = "pollStart"              -> "waiting"
                  [] label \in {"clearStart", "send"} -> "communicating"
                  [] label = "pollEnd"                -> "done"
                  [] label \in {"clearEnd", "compute"} -> "computing"

StageOf == [c \in Cores |-> Stage(pc[c])]

Barrier == INSTANCE BspBarrier WITH stage <- StageOf

\* The wires and the firmware together are the two barriers.
ImplementsBarrier == Barrier!Spec

=============================================================================
