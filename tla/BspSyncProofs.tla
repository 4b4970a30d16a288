---------------------------- MODULE BspSyncProofs ----------------------------
(***************************************************************************)
(* For any set of cores, any number of flits and of rounds: the two        *)
(* barriers of bsp_sync hold whatever the delays of the cores, of the two  *)
(* stages of registers on the wires, and of the network.                   *)
(***************************************************************************)
EXTENDS BspSync, TLAPS

-----------------------------------------------------------------------------
\* Type correctness.

LEMMA InitType == Init => TypeOK
  BY BspSyncAssumption DEF Init, TypeOK, Labels

LEMMA FirmwareType ==
  ASSUME TypeOK, NEW c \in Cores,
         \/ \E n \in 0 .. MaxFlits : SetMySync(c, n)
         \/ SeeStart(c) \/ ClearStart(c) \/ SendFlit(c) \/ ClearMySync(c)
         \/ SeeEnd(c) \/ ClearEnd(c)
  PROVE  TypeOK'
<1>1. ASSUME NEW n \in 0 .. MaxFlits, SetMySync(c, n) PROVE TypeOK'
  <2>1. round[c] + 1 \in 0 .. MaxRounds
    BY <1>1, BspSyncAssumption DEF SetMySync, TypeOK
  <2> QED
    BY <1>1, <2>1 DEF SetMySync, Goto, TypeOK, Labels, topVars
<1>2. CASE SeeStart(c)
  BY <1>2 DEF SeeStart, Goto, TypeOK, Labels, topVars
<1>3. CASE ClearStart(c)
  BY <1>3 DEF ClearStart, Goto, TypeOK, Labels, topVars
<1>4. CASE SendFlit(c)
  <2>1. queued[c] - 1 \in 0 .. MaxFlits /\ outgoingFlits[c] + 1 \in 0 .. FifoDepth
    BY <1>4, BspSyncAssumption DEF SendFlit, TypeOK
  <2> QED
    BY <1>4, <2>1 DEF SendFlit, TypeOK, topVars
<1>5. CASE ClearMySync(c)
  BY <1>5 DEF ClearMySync, Goto, TypeOK, Labels, topVars
<1>6. CASE SeeEnd(c)
  BY <1>6 DEF SeeEnd, Goto, TypeOK, Labels, topVars
<1>7. CASE ClearEnd(c)
  BY <1>7 DEF ClearEnd, Goto, TypeOK, Labels, topVars
<1> QED
  BY <1>1, <1>2, <1>3, <1>4, <1>5, <1>6, <1>7

LEMMA NextType == TypeOK /\ [Next]_vars => TypeOK'
<1> SUFFICES ASSUME TypeOK, [Next]_vars PROVE TypeOK'
  OBVIOUS
<1>1. CASE regSyncs
  BY <1>1 DEF regSyncs, getLocalSync, coreVars, TypeOK
<1>2. CASE updateSync
  BY <1>2 DEF updateSync, coreVars, TypeOK
<1>3. CASE propogateAllSync
  BY <1>3 DEF propogateAllSync, TypeOK
<1>4. ASSUME NEW c \in Cores, corePut(c) PROVE TypeOK'
  <2>1. outgoingFlits[c] - 1 \in 0 .. FifoDepth /\ \A d \in Cores : inMesh[d] + 1 \in Nat
    BY <1>4, BspSyncAssumption DEF corePut, TypeOK
  <2> QED
    BY <1>4, <2>1 DEF corePut, coreVars, TypeOK
<1>5. ASSUME NEW d \in Cores, coreGet(d) PROVE TypeOK'
  <2>1. inMesh[d] - 1 \in Nat
    BY <1>5 DEF coreGet, TypeOK
  <2> QED
    BY <1>5, <2>1 DEF coreGet, coreVars, TypeOK
<1>6. CASE UNCHANGED vars
  BY <1>6 DEF vars, coreVars, TypeOK
<1> QED
  BY <1>1, <1>2, <1>3, <1>4, <1>5, <1>6, FirmwareType DEF Next

\* The registers of the cores and of the top level keep their types, and the
\* FIFO of flits never holds more than its depth.
THEOREM BspSyncTypeOK == Spec => []TypeOK
  BY InitType, NextType, PTL DEF Spec

-----------------------------------------------------------------------------
\* What the two phases say of one core.

LEMMA CommCore ==
  ASSUME Comm, NEW c \in Cores
  PROVE  pc[c] \in {"pollStart", "clearStart", "send", "pollEnd"}
  BY DEF Comm, CommIn

LEMMA GatherCore ==
  ASSUME Gather, NEW c \in Cores
  PROVE  outgoingFlits[c] = 0 /\ pc[c] \in {"pollEnd", "clearEnd", "compute", "pollStart"}
  BY DEF Gather, GatherIn

\* Facts about the wires: a value is not both "all set" and "all clear".
LEMMA NotBoth == ~(AllSet /\ AllClear)
  BY BspSyncAssumption DEF AllSet, AllClear

-----------------------------------------------------------------------------
\* The invariant is inductive.

LEMMA InitIInv == Init => IInv
<1> SUFFICES ASSUME Init PROVE IInv
  OBVIOUS
<1>1. Gather
  <2>1. GatherIn(0)
    BY DEF Init, GatherIn
  <2> QED
    BY <2>1, BspSyncAssumption DEF Gather
<1>2. ~SaysSet /\ ~EndSeen
  BY BspSyncAssumption DEF Init, SaysSet, AllSet, StartSeen, EndSeen
<1>3. MySyncWhileInside
  BY DEF Init, MySyncWhileInside
<1>4. NoStaleClear /\ NoStaleSet
  BY DEF Init, NoStaleClear, NoStaleSet
<1> QED
  BY <1>1, <1>2, <1>3, <1>4, InitType DEF IInv, WiresTellPhase

\* Sampling the cores: all set only while they communicate, all clear only
\* when they gather.
LEMMA RegSyncsIInv == IInv /\ regSyncs => IInv'
<1> SUFFICES ASSUME IInv, regSyncs PROVE IInv'
  OBVIOUS
<1> USE DEF IInv
<1>1. /\ \A c \in Cores : csync_r'[c] <=> getLocalSync(c)
      /\ UNCHANGED <<pc, queued, bsp_my_sync, bsp_sync_all_start, bsp_sync_all_end,
                     round, outgoingFlits, allsync_r, inMesh>>
  BY DEF regSyncs, coreVars
<1>2. /\ Comm' <=> Comm
      /\ Gather' <=> Gather
      /\ StartSeen' <=> StartSeen
      /\ EndSeen' <=> EndSeen
  BY <1>1 DEF Comm, CommIn, Gather, GatherIn, StartSeen, EndSeen
<1>3. ASSUME AllSet' PROVE Comm
  <2> SUFFICES ASSUME Gather PROVE Comm
    OBVIOUS
  <2>1. \A c \in Cores : pc[c] = "pollStart"
    <3> SUFFICES ASSUME NEW c \in Cores PROVE pc[c] = "pollStart"
      OBVIOUS
    <3>1. getLocalSync(c) /\ outgoingFlits[c] = 0
      BY <1>1, <1>3, GatherCore DEF AllSet
    <3> QED
      BY <3>1, GatherCore DEF getLocalSync, MySyncWhileInside
  <2>2. PICK R \in 0 .. MaxRounds : GatherIn(R)
    BY DEF Gather
  <2>3. \A c \in Cores : round[c] = R + 1
    BY <2>1, <2>2 DEF GatherIn
  <2>4. R + 1 \in 0 .. MaxRounds
    BY <2>3, BspSyncAssumption DEF TypeOK
  <2>5. CommIn(R + 1)
    BY <2>1, <2>3 DEF CommIn
  <2> QED
    BY <2>4, <2>5 DEF Comm
<1>4. ASSUME AllClear' PROVE Gather
  <2> SUFFICES ASSUME Comm PROVE Gather
    OBVIOUS
  <2>1. PICK R \in 0 .. MaxRounds : CommIn(R)
    BY DEF Comm
  <2>2. ASSUME NEW c \in Cores
        PROVE  outgoingFlits[c] = 0 /\ round[c] = R /\ pc[c] = "pollEnd"
    <3>1. ~getLocalSync(c)
      BY <1>1, <1>4 DEF AllClear
    <3>2. outgoingFlits[c] = 0
      BY <3>1 DEF getLocalSync, TypeOK
    <3> QED
      BY <2>1, <3>1, <3>2 DEF getLocalSync, MySyncWhileInside, CommIn
  <2> QED
    BY <2>2 DEF Gather, GatherIn
<1>5. TypeOK'
  BY NextType DEF Next
<1>6. WiresTellPhase'
  BY <1>1, <1>2, <1>3, <1>4 DEF WiresTellPhase, SaysSet, SaysClear
<1>7. NoStaleClear'
  <2>1. ASSUME NEW c \in Cores, pc[c] = "pollStart" PROVE ~AllClear'
    BY <1>1, <2>1 DEF AllClear, getLocalSync, MySyncWhileInside
  <2> QED
    BY <1>1, <1>2, <2>1 DEF NoStaleClear
<1>8. NoStaleSet'
  <2>1. ASSUME NEW c \in Cores, pc[c] = "pollEnd", Gather PROVE ~AllSet'
    <3>1. ~getLocalSync(c)
      BY <2>1, GatherCore DEF getLocalSync, MySyncWhileInside
    <3> QED
      BY <1>1, <3>1 DEF AllSet
  <2>2. allsync_r = "Finish" \/ EndSeen => Gather
    BY DEF WiresTellPhase, SaysClear
  <2> QED
    BY <1>1, <1>2, <2>1, <2>2 DEF NoStaleSet
<1>9. MySyncWhileInside'
  BY <1>1 DEF MySyncWhileInside
<1> QED
  BY <1>2, <1>5, <1>6, <1>7, <1>8, <1>9

LEMMA UpdateSyncIInv == IInv /\ updateSync => IInv'
<1> SUFFICES ASSUME IInv, updateSync PROVE IInv'
  OBVIOUS
<1> USE DEF IInv
<1>1. /\ allsync_r' = "Start" => AllSet
      /\ allsync_r' = "Finish" => AllClear
      /\ UNCHANGED <<pc, queued, bsp_my_sync, bsp_sync_all_start, bsp_sync_all_end,
                     round, outgoingFlits, csync_r, inMesh>>
  BY DEF updateSync, coreVars
<1>2. /\ Comm' <=> Comm
      /\ Gather' <=> Gather
      /\ StartSeen' <=> StartSeen
      /\ EndSeen' <=> EndSeen
      /\ AllSet' <=> AllSet
      /\ AllClear' <=> AllClear
  BY <1>1 DEF Comm, CommIn, Gather, GatherIn, StartSeen, EndSeen, AllSet, AllClear
<1>3. TypeOK'
  BY NextType DEF Next
<1>4. WiresTellPhase'
  BY <1>1, <1>2 DEF WiresTellPhase, SaysSet, SaysClear
<1>5. NoStaleClear' /\ NoStaleSet'
  BY <1>1, <1>2, NotBoth DEF NoStaleClear, NoStaleSet
<1>6. MySyncWhileInside'
  BY <1>1 DEF MySyncWhileInside
<1> QED
  BY <1>2, <1>3, <1>4, <1>5, <1>6

LEMMA PropogateIInv == IInv /\ propogateAllSync => IInv'
<1> SUFFICES ASSUME IInv, propogateAllSync PROVE IInv'
  OBVIOUS
<1> USE DEF IInv
<1>1. /\ \A c \in Cores : bsp_sync_all_start'[c] <=> allsync_r = "Start"
      /\ \A c \in Cores : bsp_sync_all_end'[c] <=> allsync_r = "Finish"
      /\ UNCHANGED <<pc, queued, bsp_my_sync, round, outgoingFlits,
                     csync_r, allsync_r, inMesh>>
  BY DEF propogateAllSync
<1>2. /\ Comm' <=> Comm
      /\ Gather' <=> Gather
      /\ AllSet' <=> AllSet
      /\ AllClear' <=> AllClear
  BY <1>1 DEF Comm, CommIn, Gather, GatherIn, AllSet, AllClear
<1>3. (StartSeen' => allsync_r = "Start") /\ (EndSeen' => allsync_r = "Finish")
  BY <1>1 DEF StartSeen, EndSeen
<1>4. TypeOK'
  BY NextType DEF Next
<1>5. WiresTellPhase'
  BY <1>1, <1>2, <1>3 DEF WiresTellPhase, SaysSet, SaysClear
<1>6. NoStaleClear' /\ NoStaleSet'
  BY <1>1, <1>2, <1>3 DEF NoStaleClear, NoStaleSet
<1>7. MySyncWhileInside'
  BY <1>1 DEF MySyncWhileInside
<1> QED
  BY <1>2, <1>4, <1>5, <1>6, <1>7

\* While a flit is still to leave its core, no stage of the wires says "all
\* clear", so that taking it changes nothing they say.
LEMMA CorePutIInv == ASSUME IInv, NEW c \in Cores, corePut(c) PROVE IInv'
<1> USE DEF IInv
<1>1. /\ outgoingFlits[c] > 0
      /\ UNCHANGED <<pc, queued, bsp_my_sync, bsp_sync_all_start, bsp_sync_all_end,
                     round, csync_r, allsync_r>>
  BY DEF corePut, coreVars
<1>2. ~Gather
  BY <1>1, GatherCore
<1>3. /\ Comm' <=> Comm
      /\ SaysSet' <=> SaysSet
      /\ SaysClear' <=> SaysClear
      /\ NoStaleClear' <=> NoStaleClear
      /\ NoStaleSet' <=> NoStaleSet
  BY <1>1 DEF Comm, CommIn, SaysSet, SaysClear, StartSeen, EndSeen, AllSet, AllClear,
              NoStaleClear, NoStaleSet
<1>4. TypeOK'
  BY NextType DEF Next
<1>5. MySyncWhileInside'
  BY <1>1 DEF MySyncWhileInside
<1> QED
  BY <1>2, <1>3, <1>4, <1>5 DEF WiresTellPhase

\* A core enters bsp_sync while all gather: nothing on the wires says "all
\* set".
LEMMA SetMySyncIInv ==
  ASSUME IInv, NEW c \in Cores, NEW n \in 0 .. MaxFlits, SetMySync(c, n)
  PROVE  IInv'
<1> USE DEF IInv
<1>1. /\ pc[c] = "compute"
      /\ pc' = [pc EXCEPT ![c] = "pollStart"]
      /\ bsp_my_sync' = [bsp_my_sync EXCEPT ![c] = TRUE]
      /\ round' = [round EXCEPT ![c] = @ + 1]
      /\ UNCHANGED <<bsp_sync_all_start, bsp_sync_all_end, outgoingFlits,
                     csync_r, allsync_r, inMesh>>
  BY DEF SetMySync, Goto, topVars
<1>2. ~Comm
  BY <1>1, CommCore
<1>3. Gather'
  <2>1. PICK R \in 0 .. MaxRounds : GatherIn(R)
    BY <1>2 DEF Gather
  <2>2. GatherIn(R)'
    BY <1>1, <2>1 DEF GatherIn, TypeOK
  <2> QED
    BY <2>2 DEF Gather
<1>4. /\ SaysSet' <=> SaysSet
      /\ AllSet' <=> AllSet
      /\ StartSeen' <=> StartSeen
      /\ EndSeen' <=> EndSeen
  BY <1>1 DEF SaysSet, AllSet, StartSeen, EndSeen
<1>5. ~SaysSet
  BY <1>2 DEF WiresTellPhase
<1>6. TypeOK'
  <2> HIDE DEF IInv
  <2> QED
    BY NextType DEF Next, IInv
<1>7. NoStaleClear'
  BY <1>1, <1>4, <1>5 DEF NoStaleClear, SaysSet
<1>8. NoStaleSet'
  BY <1>1, <1>4, <1>5 DEF NoStaleSet, SaysSet
<1>9. MySyncWhileInside'
  BY <1>1 DEF MySyncWhileInside, TypeOK
<1> QED
  BY <1>3, <1>4, <1>5, <1>6, <1>7, <1>8, <1>9 DEF WiresTellPhase

\* A step of a core that stays inside bsp_sync, between seeing START and
\* clearing MY_SYNC, leaves the cores communicating; the wires do not say
\* "all clear", neither before nor after.
LEMMA InsideIInv ==
  ASSUME IInv, NEW c \in Cores,
         SeeStart(c) \/ ClearStart(c) \/ SendFlit(c) \/ ClearMySync(c)
  PROVE  IInv'
<1> USE DEF IInv
<1>1. /\ pc[c] \in {"pollStart", "clearStart", "send"}
      /\ pc'[c] \in {"clearStart", "send", "pollEnd"}
      /\ \A d \in Cores \ {c} : pc'[d] = pc[d] /\ (bsp_my_sync'[d] <=> bsp_my_sync[d])
      /\ bsp_my_sync'[c] <=> pc'[c] \in {"clearStart", "send"}
      /\ \A d \in Cores : bsp_sync_all_start'[d] => bsp_sync_all_start[d]
      /\ UNCHANGED <<bsp_sync_all_end, round, csync_r, allsync_r, inMesh>>
  BY DEF SeeStart, ClearStart, SendFlit, ClearMySync, Goto, topVars, TypeOK, MySyncWhileInside
<1>2. Comm /\ ~SaysClear
  <2>1. CASE SeeStart(c)
    <3>1. pc[c] = "pollStart" /\ StartSeen
      BY <2>1 DEF SeeStart, StartSeen
    <3> QED
      BY <3>1 DEF WiresTellPhase, SaysSet, SaysClear, NoStaleClear
  <2>2. CASE ~SeeStart(c)
    <3>1. pc[c] \in {"clearStart", "send"}
      BY <2>2 DEF ClearStart, SendFlit, ClearMySync
    <3>2. ~Gather
      BY <3>1, GatherCore
    <3> QED
      BY <3>2 DEF WiresTellPhase
  <2> QED
    BY <2>1, <2>2
<1>3. Comm'
  <2>1. PICK R \in 0 .. MaxRounds : CommIn(R)
    BY <1>2 DEF Comm
  <2>2. CommIn(R)'
    BY <1>1, <2>1 DEF CommIn
  <2> QED
    BY <2>2 DEF Comm
<1>4. /\ AllSet' <=> AllSet
      /\ AllClear' <=> AllClear
      /\ StartSeen' => StartSeen
      /\ EndSeen' <=> EndSeen
  BY <1>1 DEF AllSet, AllClear, StartSeen, EndSeen
<1>5. ~SaysClear'
  BY <1>1, <1>2, <1>4 DEF SaysClear
<1>6. TypeOK'
  BY FirmwareType
<1>7. NoStaleClear' /\ NoStaleSet'
  BY <1>1, <1>2, <1>4, <1>5 DEF NoStaleClear, NoStaleSet, SaysClear
<1>8. MySyncWhileInside'
  BY <1>1 DEF MySyncWhileInside
<1> QED
  BY <1>3, <1>5, <1>6, <1>7, <1>8 DEF WiresTellPhase

\* Leaving bsp_sync leaves the cores gathering; the wires do not say "all
\* set".
LEMMA LeaveIInv ==
  ASSUME IInv, NEW c \in Cores, SeeEnd(c) \/ ClearEnd(c)
  PROVE  IInv'
<1> USE DEF IInv
<1>1. /\ pc[c] \in {"pollEnd", "clearEnd"}
      /\ pc'[c] \in {"clearEnd", "compute"}
      /\ \A d \in Cores \ {c} : pc'[d] = pc[d]
      /\ \A d \in Cores : bsp_sync_all_end'[d] => bsp_sync_all_end[d]
      /\ UNCHANGED <<bsp_my_sync, bsp_sync_all_start, round, outgoingFlits,
                     csync_r, allsync_r, inMesh>>
  BY DEF SeeEnd, ClearEnd, Goto, topVars, TypeOK
<1>2. Gather /\ ~SaysSet
  <2>1. CASE SeeEnd(c)
    <3>1. pc[c] = "pollEnd" /\ EndSeen
      BY <2>1 DEF SeeEnd, EndSeen
    <3> QED
      BY <3>1 DEF WiresTellPhase, SaysSet, SaysClear, NoStaleSet
  <2>2. CASE ClearEnd(c)
    <3>1. ~Comm
      BY <2>2, CommCore DEF ClearEnd
    <3> QED
      BY <3>1 DEF WiresTellPhase
  <2> QED
    BY <2>1, <2>2
<1>3. Gather'
  <2>1. PICK R \in 0 .. MaxRounds : GatherIn(R)
    BY <1>2 DEF Gather
  <2>2. GatherIn(R)'
    BY <1>1, <2>1 DEF GatherIn
  <2> QED
    BY <2>2 DEF Gather
<1>4. /\ AllSet' <=> AllSet
      /\ StartSeen' <=> StartSeen
      /\ EndSeen' => EndSeen
  BY <1>1 DEF AllSet, StartSeen, EndSeen
<1>5. ~SaysSet'
  BY <1>1, <1>2, <1>4 DEF SaysSet
<1>6. TypeOK'
  BY FirmwareType
<1>7. NoStaleClear' /\ NoStaleSet'
  BY <1>1, <1>2, <1>4, <1>5 DEF NoStaleClear, NoStaleSet, SaysSet
<1>8. MySyncWhileInside'
  BY <1>1 DEF MySyncWhileInside
<1> QED
  BY <1>3, <1>5, <1>6, <1>7, <1>8 DEF WiresTellPhase

\* What no part of the invariant but TypeOK reads.
LEMMA OtherIInv ==
  ASSUME IInv, [Next]_vars,
         UNCHANGED <<pc, bsp_my_sync, bsp_sync_all_start, bsp_sync_all_end,
                     outgoingFlits, csync_r, allsync_r, round>>
  PROVE  IInv'
<1>1. TypeOK'
  BY NextType DEF IInv
<1> QED
  BY <1>1 DEF IInv, MySyncWhileInside, Comm, CommIn, Gather, GatherIn, WiresTellPhase,
              SaysSet, SaysClear, AllSet, AllClear, StartSeen, EndSeen,
              NoStaleClear, NoStaleSet

LEMMA NextIInv == IInv /\ [Next]_vars => IInv'
<1> SUFFICES ASSUME IInv, [Next]_vars PROVE IInv'
  OBVIOUS
<1>1. CASE regSyncs
  BY <1>1, RegSyncsIInv
<1>2. CASE updateSync
  BY <1>2, UpdateSyncIInv
<1>3. CASE propogateAllSync
  BY <1>3, PropogateIInv
<1>4. ASSUME NEW c \in Cores, corePut(c) PROVE IInv'
  BY <1>4, CorePutIInv
<1>5. ASSUME NEW c \in Cores, coreGet(c) PROVE IInv'
  BY <1>5, OtherIInv DEF coreGet, coreVars
<1>6. ASSUME NEW c \in Cores, NEW n \in 0 .. MaxFlits, SetMySync(c, n) PROVE IInv'
  BY <1>6, SetMySyncIInv
<1>7. ASSUME NEW c \in Cores,
             SeeStart(c) \/ ClearStart(c) \/ SendFlit(c) \/ ClearMySync(c)
      PROVE  IInv'
  BY <1>7, InsideIInv
<1>8. ASSUME NEW c \in Cores, SeeEnd(c) \/ ClearEnd(c) PROVE IInv'
  BY <1>8, LeaveIInv
<1>9. CASE UNCHANGED vars
  BY <1>9, OtherIInv DEF vars, coreVars
<1> QED
  BY <1>1, <1>2, <1>3, <1>4, <1>5, <1>6, <1>7, <1>8, <1>9 DEF Next

\* The cores are always all in one phase, and what the wires say, however
\* old, is true of that phase.
THEOREM BspSyncIInv == Spec => []IInv
  BY InitIInv, NextIInv, PTL DEF Spec

-----------------------------------------------------------------------------
\* The barriers.

LEMMA Barriers == IInv => StartBarrier /\ EndBarrier /\ SendOnlyInside
<1> SUFFICES ASSUME IInv PROVE StartBarrier /\ EndBarrier /\ SendOnlyInside
  OBVIOUS
<1>1. CASE Comm
  <2>1. PICK R \in 0 .. MaxRounds : CommIn(R)
    BY <1>1 DEF Comm
  <2> QED
    BY <2>1 DEF CommIn, StartBarrier, EndBarrier, SendOnlyInside
<1>2. CASE Gather
  <2>1. PICK R \in 0 .. MaxRounds : GatherIn(R)
    BY <1>2 DEF Gather
  <2> QED
    BY <2>1 DEF GatherIn, StartBarrier, EndBarrier, SendOnlyInside
<1> QED
  BY <1>1, <1>2 DEF IInv

\* Nobody sends before all have entered bsp_sync.
THEOREM StartBarrierHolds == Spec => []StartBarrier
  BY BspSyncIInv, Barriers, PTL

\* Nobody returns from bsp_sync before all have sent all their flits.
THEOREM EndBarrierHolds == Spec => []EndBarrier
  BY BspSyncIInv, Barriers, PTL

\* No flit enters the network while a core computes.
THEOREM SendOnlyInsideHolds == Spec => []SendOnlyInside
  BY BspSyncIInv, Barriers, PTL

-----------------------------------------------------------------------------
\* The refinement.

LEMMA StageValues ==
  /\ Stage("compute") = "computing" /\ Stage("clearEnd") = "computing"
  /\ Stage("pollStart") = "waiting"
  /\ Stage("clearStart") = "communicating" /\ Stage("send") = "communicating"
  /\ Stage("pollEnd") = "done"
  BY DEF Stage

\* A step that moves one core along moves one stage along.
LEMMA StageMoves ==
  ASSUME TypeOK, NEW c \in Cores, NEW label, Goto(c, label)
  PROVE  StageOf' = [StageOf EXCEPT ![c] = Stage(label)]
  BY DEF TypeOK, Goto, StageOf

LEMMA StepImplements ==
  ASSUME IInv, Next PROVE [Barrier!Next]_(Barrier!vars)
<1> USE StageValues
<1>0. TypeOK /\ \A c \in Cores : StageOf[c] = Stage(pc[c])
  BY DEF IInv, StageOf
<1>1. ASSUME UNCHANGED <<pc, round>> PROVE UNCHANGED Barrier!vars
  BY <1>1 DEF Barrier!vars, StageOf
<1>2. ASSUME NEW c \in Cores, NEW n \in 0 .. MaxFlits, SetMySync(c, n)
      PROVE  Barrier!Enter(c)
  <2>1. StageOf' = [StageOf EXCEPT ![c] = "waiting"]
    BY <1>0, <1>2, StageMoves DEF SetMySync
  <2> QED
    BY <1>0, <1>2, <2>1 DEF SetMySync, Barrier!Enter
<1>3. ASSUME NEW c \in Cores, SeeStart(c) PROVE Barrier!Communicate(c)
  <2>1. StageOf' = [StageOf EXCEPT ![c] = "communicating"]
    BY <1>0, <1>3, StageMoves DEF SeeStart
  <2>2. Comm
    BY <1>3 DEF IInv, WiresTellPhase, SaysSet, StartSeen, SeeStart
  <2>3. PICK R \in 0 .. MaxRounds : CommIn(R)
    BY <2>2 DEF Comm
  <2>4. \A d \in Cores : round[d] = round[c] /\ StageOf[d] # "computing"
    BY <1>0, <2>3 DEF CommIn
  <2> QED
    BY <1>0, <1>3, <2>1, <2>4 DEF SeeStart, Barrier!Communicate
<1>4. ASSUME NEW c \in Cores, ClearMySync(c) PROVE Barrier!Finish(c)
  <2>1. StageOf' = [StageOf EXCEPT ![c] = "done"]
    BY <1>0, <1>4, StageMoves DEF ClearMySync
  <2> QED
    BY <1>0, <1>4, <2>1 DEF ClearMySync, Barrier!Finish
<1>5. ASSUME NEW c \in Cores, SeeEnd(c) PROVE Barrier!Leave(c)
  <2>1. StageOf' = [StageOf EXCEPT ![c] = "computing"]
    BY <1>0, <1>5, StageMoves DEF SeeEnd
  <2>2. Gather
    BY <1>5 DEF IInv, WiresTellPhase, SaysClear, EndSeen, SeeEnd
  <2>3. PICK R \in 0 .. MaxRounds : GatherIn(R)
    BY <2>2 DEF Gather
  <2>4. pc[c] = "pollEnd" /\ round[c] = R
    BY <1>5, <2>3 DEF SeeEnd, GatherIn
  <2>5. \A d \in Cores : \/ round[d] = round[c] /\ StageOf[d] \in {"done", "computing"}
                         \/ round[d] = round[c] + 1 /\ StageOf[d] = "waiting"
    <3> SUFFICES ASSUME NEW d \in Cores
                 PROVE  \/ round[d] = round[c] /\ StageOf[d] \in {"done", "computing"}
                        \/ round[d] = round[c] + 1 /\ StageOf[d] = "waiting"
      OBVIOUS
    <3>1. CASE round[d] = R /\ pc[d] \in {"pollEnd", "clearEnd", "compute"}
      BY <1>0, <2>4, <3>1
    <3>2. CASE round[d] = R + 1 /\ pc[d] = "pollStart"
      BY <1>0, <2>4, <3>2
    <3> QED
      BY <2>3, <3>1, <3>2 DEF GatherIn
  <2> QED
    BY <1>0, <1>5, <2>1, <2>4, <2>5 DEF SeeEnd, Barrier!Leave
<1>6. ASSUME NEW c \in Cores, ClearStart(c) \/ ClearEnd(c) PROVE UNCHANGED Barrier!vars
  <2>1. StageOf' = [StageOf EXCEPT ![c] = StageOf[c]]
    BY <1>0, <1>6, StageMoves DEF ClearStart, ClearEnd
  <2> QED
    BY <1>0, <1>6, <2>1 DEF ClearStart, ClearEnd, StageOf, Barrier!vars
<1>7. CASE regSyncs \/ updateSync \/ propogateAllSync
  BY <1>1, <1>7 DEF regSyncs, updateSync, propogateAllSync, coreVars
<1>8. ASSUME NEW c \in Cores, corePut(c) \/ coreGet(c) \/ SendFlit(c)
      PROVE  UNCHANGED Barrier!vars
  BY <1>1, <1>8 DEF corePut, coreGet, SendFlit, coreVars
<1> QED
  BY <1>2, <1>3, <1>4, <1>5, <1>6, <1>7, <1>8 DEF Next, Barrier!Next

\* The registers, the wires and the firmware implement the two barriers.
THEOREM BspSyncImplementsBarrier == Spec => ImplementsBarrier
<1>1. Init => Barrier!Init
  BY StageValues DEF Init, Barrier!Init, StageOf
<1>2. IInv /\ [Next]_vars => [Barrier!Next]_(Barrier!vars)
  <2>1. UNCHANGED vars => UNCHANGED Barrier!vars
    BY DEF vars, coreVars, StageOf, Barrier!vars
  <2> QED
    BY <2>1, StepImplements
<1> QED
  BY <1>1, <1>2, BspSyncIInv, PTL DEF Spec, ImplementsBarrier, Barrier!Spec

=============================================================================
