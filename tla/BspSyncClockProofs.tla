------------------------- MODULE BspSyncClockProofs -------------------------
(***************************************************************************)
(* For any set of cores, any number of flits and any access time: as long  *)
(* as no core polls less often than once in 2 * AccessTime + 3 cycles, no  *)
(* core misses START or END.                                               *)
(***************************************************************************)
EXTENDS BspSyncClock, TLAPS

-----------------------------------------------------------------------------
\* What one cycle does to a core.

\* A core that stays where it is, and lets time pass.
Waits(c) == /\ core'[c].pc = core[c].pc /\ core'[c].mySync = core[c].mySync
            /\ core[c].pc \in Polls => core[c].since < PollPeriod
            /\ core'[c].since = Tick(core[c]).since

\* A core that makes an access and goes on from one label to another.
Goes(c, from, to) == /\ core[c].pc = from /\ core'[c].pc = to /\ core'[c].since = 1
                     /\ core[c].since >= AccessTime

\* A core that polls for a level that is not there.
PollsAgain(c) == /\ \/ core[c].pc = "pollStart" /\ allsync_r # "Start"
                    \/ core[c].pc = "pollEnd" /\ allsync_r # "Finish"
                 /\ core'[c].pc = core[c].pc /\ core'[c].mySync = core[c].mySync
                 /\ core'[c].since = 1

Moves(c) ==
  \/ Waits(c)
  \/ PollsAgain(c)
  \/ Goes(c, "compute", "pollStart") /\ core'[c].mySync
  \/ Goes(c, "pollStart", "clearStart") /\ allsync_r = "Start" /\ core'[c].mySync = core[c].mySync
  \/ Goes(c, "clearStart", "send") /\ core'[c].mySync = core[c].mySync
  \/ Goes(c, "send", "send") /\ core'[c].mySync = core[c].mySync
  \/ Goes(c, "send", "pollEnd") /\ ~core'[c].mySync
  \/ Goes(c, "pollEnd", "clearEnd") /\ allsync_r = "Finish" /\ core'[c].mySync = core[c].mySync
  \/ Goes(c, "clearEnd", "compute") /\ core'[c].mySync = core[c].mySync

\* The same for the number of its flits.
FifoMoves(c) ==
  /\ core'[c].fifo \in 0 .. FifoDepth
  /\ core[c].pc # "send" => core'[c].fifo <= core[c].fifo

LEMMA CoreStep ==
  ASSUME TypeOK, NEW acting \in SUBSET Cores, NEW putting \in SUBSET Cores,
         Cycle(acting, putting), NEW c \in Cores
  PROVE  core'[c] \in Core /\ Moves(c) /\ FifoMoves(c)
<1> DEFINE k == core[c]
<1>1. /\ k \in Core
      /\ c \in acting => Ready(c)
      /\ Due(c) => c \in acting
      /\ c \in putting => k.fifo > 0
  BY DEF Cycle, TypeOK
<1>2. PICK n \in 0 .. MaxFlits :
        core'[c] = LET moved == IF c \in acting THEN [Access(k, n) EXCEPT !.since = 1] ELSE Tick(k)
                   IN  IF c \in putting THEN [moved EXCEPT !.fifo = @ - 1] ELSE moved
  BY DEF Cycle
<1> DEFINE moved == IF c \in acting THEN [Access(k, n) EXCEPT !.since = 1] ELSE Tick(k)
<1>0. core'[c] = IF c \in putting THEN [moved EXCEPT !.fifo = @ - 1] ELSE moved
  BY <1>2
<1>3. CASE c \notin acting
  <2>1. /\ moved \in Core /\ moved.pc = k.pc /\ moved.mySync = k.mySync /\ moved.fifo = k.fifo
        /\ moved.since = Tick(k).since
    BY <1>1, <1>3, ClockAssumption DEF Tick, Core
  <2>2. k.pc \in Polls => k.since < PollPeriod
    BY <1>1, <1>3, ClockAssumption DEF Due, Core
  <2> QED
    BY <1>1, <1>2, <1>3, <2>1, <2>2, ClockAssumption DEF Core, Moves, FifoMoves, Waits
<1>4. CASE c \in acting
  <2> DEFINE a == Access(k, n)
  <2>1. k.since >= AccessTime /\ (k.pc = "send" /\ k.queued > 0 => k.fifo < FifoDepth)
    BY <1>1, <1>4 DEF Ready
  <2> DEFINE Change ==
               \/ /\ (k.pc = "pollStart" /\ allsync_r # "Start") \/ (k.pc = "pollEnd" /\ allsync_r # "Finish")
                  /\ a.pc = k.pc /\ a.mySync = k.mySync
               \/ k.pc = "compute" /\ a.pc = "pollStart" /\ a.mySync
               \/ k.pc = "pollStart" /\ a.pc = "clearStart" /\ a.mySync = k.mySync /\ allsync_r = "Start"
               \/ k.pc = "clearStart" /\ a.pc = "send" /\ a.mySync = k.mySync
               \/ k.pc = "send" /\ a.pc = "send" /\ a.mySync = k.mySync
               \/ k.pc = "send" /\ a.pc = "pollEnd" /\ ~a.mySync
               \/ k.pc = "pollEnd" /\ a.pc = "clearEnd" /\ a.mySync = k.mySync /\ allsync_r = "Finish"
               \/ k.pc = "clearEnd" /\ a.pc = "compute" /\ a.mySync = k.mySync
  <2>0. k.fifo \in Nat /\ k.fifo >= k.fifo /\ k.fifo + 1 >= k.fifo
    BY <1>1, ClockAssumption DEF Core
  <2>2. a \in Core /\ (k.pc # "send" => a.fifo = k.fifo) /\ a.fifo >= k.fifo /\ Change
    <3>1. CASE k.pc = "compute"
      <4>1. a = [k EXCEPT !.pc = "pollStart", !.mySync = TRUE, !.queued = n]
        BY <3>1 DEF Access
      <4> HIDE DEF a
      <4> QED
        BY <1>1, <2>0, <3>1, <4>1 DEF Core, Labels
    <3>2. CASE k.pc = "pollStart" /\ allsync_r = "Start"
      <4>1. a = [k EXCEPT !.pc = "clearStart"]
        BY <3>2 DEF Access
      <4> HIDE DEF a
      <4> QED
        BY <1>1, <2>0, <3>2, <4>1, ClockAssumption DEF Core, Labels
    <3>3. CASE k.pc = "clearStart"
      <4>1. a = [k EXCEPT !.pc = "send"]
        BY <3>3 DEF Access
      <4> HIDE DEF a
      <4> QED
        BY <1>1, <2>0, <3>3, <4>1, ClockAssumption DEF Core, Labels
    <3>4. CASE k.pc = "send" /\ k.queued > 0
      <4>1. a = [k EXCEPT !.queued = @ - 1, !.fifo = @ + 1]
        BY <3>4 DEF Access
      <4>2. k.queued - 1 \in 0 .. MaxFlits /\ k.fifo + 1 \in 0 .. FifoDepth /\ k.fifo + 1 >= k.fifo
        BY <1>1, <2>1, <3>4, ClockAssumption DEF Core
      <4> HIDE DEF a
      <4> QED
        BY <1>1, <3>4, <4>1, <4>2 DEF Core, Labels
    <3>5. CASE k.pc = "send" /\ k.queued = 0
      <4>1. a = [k EXCEPT !.pc = "pollEnd", !.mySync = FALSE]
        BY <3>5 DEF Access
      <4> HIDE DEF a
      <4> QED
        BY <1>1, <2>0, <3>5, <4>1, ClockAssumption DEF Core, Labels
    <3>6. CASE k.pc = "pollEnd" /\ allsync_r = "Finish"
      <4>1. a = [k EXCEPT !.pc = "clearEnd"]
        BY <3>6 DEF Access
      <4> HIDE DEF a
      <4> QED
        BY <1>1, <2>0, <3>6, <4>1, ClockAssumption DEF Core, Labels
    <3>7. CASE k.pc = "clearEnd"
      <4>1. a = [k EXCEPT !.pc = "compute"]
        BY <3>7 DEF Access
      <4> HIDE DEF a
      <4> QED
        BY <1>1, <2>0, <3>7, <4>1, ClockAssumption DEF Core, Labels
    <3>8. CASE (k.pc = "pollStart" /\ allsync_r # "Start") \/ (k.pc = "pollEnd" /\ allsync_r # "Finish")
      <4>1. a = k
        BY <3>8 DEF Access
      <4> HIDE DEF a
      <4> QED
        BY <1>1, <2>0, <3>8, <4>1, ClockAssumption DEF Core, Labels
    <3> QED
      BY <1>1, <3>1, <3>2, <3>3, <3>4, <3>5, <3>6, <3>7, <3>8, ClockAssumption DEF Core, Labels
  <2> HIDE DEF a
  <2>3. /\ moved = [a EXCEPT !.since = 1]
        /\ moved \in Core /\ moved.pc = a.pc /\ moved.mySync = a.mySync /\ moved.fifo = a.fifo
        /\ moved.since = 1
    BY <1>4, <2>2, ClockAssumption DEF Core, a
  <2> HIDE DEF moved
  <2>4. /\ core'[c] \in Core /\ core'[c].pc = a.pc /\ core'[c].mySync = a.mySync /\ core'[c].since = 1
        /\ core'[c].fifo <= a.fifo
    <3>1. c \in putting => moved.fifo - 1 \in 0 .. FifoDepth /\ moved.fifo - 1 <= moved.fifo
      BY <1>1, <2>2, <2>3, ClockAssumption DEF Core
    <3>2. CASE c \in putting
      <4>1. core'[c] = [moved EXCEPT !.fifo = moved.fifo - 1]
        BY <1>0, <3>2
      <4> QED
        BY <2>3, <3>1, <3>2, <4>1 DEF Core
    <3>3. CASE c \notin putting
      <4>1. core'[c] = moved /\ moved.fifo <= moved.fifo
        BY <1>0, <2>3, <3>3, ClockAssumption DEF Core
      <4> QED
        BY <2>3, <4>1
    <3> QED
      BY <3>2, <3>3
  <2> QED
    BY <2>1, <2>2, <2>4 DEF Moves, FifoMoves, Goes, PollsAgain, Core
<1> QED
  BY <1>3, <1>4

-----------------------------------------------------------------------------
\* The invariant is inductive.

LEMMA InitIInv == Init => IInv
<1> SUFFICES ASSUME Init PROVE IInv
  OBVIOUS
<1>1. TypeOK
  <2>1. [pc |-> "compute", mySync |-> FALSE, queued |-> 0, fifo |-> 0, since |-> AccessTime] \in Core
    BY ClockAssumption DEF Core, Labels
  <2> QED
    BY <2>1 DEF Init, TypeOK
<1>2. \A c \in Cores : Pc(c) = "compute" /\ core[c].fifo = 0 /\ ~core[c].mySync
  BY DEF Init, Pc
<1>3. MySyncWhileInside /\ LevelHeld
  BY <1>2 DEF MySyncWhileInside, LevelHeld
<1>4. PhaseInv
  BY <1>2 DEF PhaseInv, Init, Comm, Gather, AllSet, AllClear
<1>5. StartTiming /\ EndTiming
  BY DEF StartTiming, EndTiming, Init
<1> QED
  BY <1>1, <1>3, <1>4, <1>5 DEF IInv

\* A core that still polls for START at the end of a cycle in which it was
\* there has not looked in that cycle: it may let this one pass, and START is
\* not going away.
LEMMA StartStays ==
  ASSUME IInv, NEW acting \in SUBSET Cores, NEW putting \in SUBSET Cores, Cycle(acting, putting),
         allsync_r = "Start", NEW c \in Cores, Pc(c)' = "pollStart"
  PROVE  /\ Pc(c) = "pollStart" /\ core'[c].since = core[c].since + 1
         /\ AllSet /\ allsync_r' = "Start"
<1>1. core[c] \in Core /\ Moves(c)
  BY CoreStep DEF IInv, TypeOK
<1>2. Comm
  BY DEF IInv, PhaseInv
<1>3. Pc(c) = "pollStart" /\ Waits(c)
  BY <1>1, <1>2 DEF Comm, Pc, Moves, Goes, PollsAgain, Waits
<1>4. core[c].since < PollPeriod
  BY <1>3 DEF Waits, Polls, Pc
<1>5. core'[c].since = core[c].since + 1
  BY <1>1, <1>3, <1>4 DEF Waits, Tick, Core
<1>6. ASSUME NEW d \in Cores, ~csync_r[d] PROVE FALSE
  <2>1. core[c].since >= 2 * AccessTime + 3
    BY <1>3, <1>6 DEF IInv, StartTiming
  <2> QED
    BY <1>1, <1>4, <2>1, ClockAssumption DEF Core
<1> QED
  BY <1>3, <1>5, <1>6 DEF AllSet, Cycle

LEMMA EndStays ==
  ASSUME IInv, NEW acting \in SUBSET Cores, NEW putting \in SUBSET Cores, Cycle(acting, putting),
         allsync_r = "Finish", NEW c \in Cores, Pc(c)' = "pollEnd"
  PROVE  /\ Pc(c) = "pollEnd" /\ core'[c].since = core[c].since + 1
         /\ AllClear /\ allsync_r' = "Finish"
<1>1. core[c] \in Core /\ Moves(c)
  BY CoreStep DEF IInv, TypeOK
<1>2. Gather
  BY DEF IInv, PhaseInv
<1>3. Pc(c) = "pollEnd" /\ Waits(c)
  BY <1>1, <1>2 DEF Gather, Pc, Moves, Goes, PollsAgain, Waits
<1>4. core[c].since < PollPeriod
  BY <1>3 DEF Waits, Polls, Pc
<1>5. core'[c].since = core[c].since + 1
  BY <1>1, <1>3, <1>4 DEF Waits, Tick, Core
<1>6. ASSUME NEW d \in Cores, csync_r[d] PROVE FALSE
  <2>1. core[c].since >= 2 * AccessTime + 3
    BY <1>3, <1>6 DEF IInv, EndTiming
  <2> QED
    BY <1>1, <1>4, <2>1, ClockAssumption DEF Core
<1> QED
  BY <1>3, <1>5, <1>6 DEF AllClear, AllSet, Cycle

LEMMA CycleIInv ==
  ASSUME IInv, NEW acting \in SUBSET Cores, NEW putting \in SUBSET Cores, Cycle(acting, putting)
  PROVE  IInv'
<1>1. \A c \in Cores : core[c] \in Core /\ core'[c] \in Core /\ Moves(c) /\ FifoMoves(c)
  BY CoreStep DEF IInv, TypeOK
<1>2. /\ \A c \in Cores : csync_r'[c] <=> (core[c].mySync \/ core[c].fifo > 0)
      /\ csync_r' \in [Cores -> BOOLEAN]
  BY <1>1 DEF Cycle, getLocalSync, Core
<1>3. allsync_r' = IF AllSet THEN "Start" ELSE IF AllClear THEN "Finish" ELSE "Unsync"
  BY DEF Cycle, AllSet, AllClear
<1>4. TypeOK'
  <2>1. core' \in [Cores -> Core]
    <3>1. core' = [c \in Cores |-> core'[c]]
      BY DEF Cycle
    <3> QED
      BY <1>1, <3>1
  <2> QED
    BY <1>2, <1>3, <2>1 DEF TypeOK
<1>5. \A c \in Cores : core[c].mySync <=> Pc(c) \in {"pollStart", "clearStart", "send"}
  BY DEF IInv, MySyncWhileInside
<1>6. MySyncWhileInside'
  <2> SUFFICES ASSUME NEW c \in Cores
               PROVE  core'[c].mySync <=> core'[c].pc \in {"pollStart", "clearStart", "send"}
    BY DEF MySyncWhileInside, Pc
  <2> QED
    BY <1>1, <1>5 DEF Moves, Waits, PollsAgain, Goes, Pc
<1>7. /\ Comm \/ Gather
      /\ AllSet \/ allsync_r = "Start" => Comm
      /\ AllClear \/ allsync_r = "Finish" => Gather
  BY DEF IInv, PhaseInv
<1>8. \A c, d \in Cores :
        /\ Pc(c) = "pollStart" /\ Pc(d) \in {"clearStart", "send"} => allsync_r = "Start"
        /\ Pc(c) = "pollEnd" /\ Pc(d) \in {"clearEnd", "compute"} => allsync_r = "Finish"
        /\ Pc(c) = "pollStart" /\ Pc(d) = "pollEnd" => allsync_r \in {"Start", "Finish"}
  BY DEF IInv, LevelHeld
<1>9. /\ allsync_r = "Start" => \A c \in Cores : Pc(c) = "pollStart" => csync_r[c]
      /\ allsync_r = "Finish" => \A c \in Cores : Pc(c) = "pollEnd" => ~csync_r[c]
  BY DEF IInv, StartTiming, EndTiming
\* Where a core in one of the phases can be after the cycle.
<1>10. \A c \in Cores : Pc(c) \in {"pollStart", "clearStart", "send", "pollEnd"} =>
         /\ Pc(c)' \in {"pollStart", "clearStart", "send", "pollEnd", "clearEnd"}
         /\ Pc(c)' = "clearEnd" => Pc(c) = "pollEnd" /\ allsync_r = "Finish"
  BY <1>1 DEF Moves, Waits, PollsAgain, Goes, Pc
<1>11. \A c \in Cores : Pc(c) \in {"pollEnd", "clearEnd", "compute", "pollStart"} =>
         /\ Pc(c)' \in {"pollEnd", "clearEnd", "compute", "pollStart", "clearStart"}
         /\ Pc(c)' = "clearStart" => Pc(c) = "pollStart" /\ allsync_r = "Start"
         /\ core[c].fifo = 0 => core'[c].fifo = 0
  BY <1>1, ClockAssumption DEF Moves, Waits, PollsAgain, Goes, Pc, FifoMoves, Core
<1>12. Gather /\ allsync_r # "Start" => Gather'
  BY <1>11 DEF Gather
<1>13. Comm /\ allsync_r # "Finish" => Comm'
  BY <1>10 DEF Comm
<1>14. PhaseInv'
  <2>1. (Comm \/ Gather)'
    BY <1>7, <1>12, <1>13
  <2>2. AllSet' => Comm'
    <3> SUFFICES ASSUME AllSet' PROVE Comm'
      OBVIOUS
    <3>1. \A c \in Cores : core[c].mySync \/ core[c].fifo > 0
      BY <1>2 DEF AllSet
    <3>2. Gather => \A c \in Cores : Pc(c) = "pollStart"
      BY <1>5, <3>1 DEF Gather
    <3>3. CASE Gather
      BY <1>10, <3>2, <3>3 DEF Comm
    <3>4. CASE ~Gather
      BY <1>7, <1>13, <3>4
    <3> QED
      BY <3>3, <3>4
  <2>3. allsync_r' = "Start" => Comm'
    <3> SUFFICES ASSUME AllSet PROVE Comm'
      BY <1>3
    <3>1. Comm
      BY <1>7
    <3>2. allsync_r = "Finish" => \A c \in Cores : Pc(c) # "pollEnd"
      BY <1>9 DEF AllSet
    <3> QED
      BY <1>10, <3>1, <3>2 DEF Comm
  <2>4. AllClear' => Gather'
    <3> SUFFICES ASSUME AllClear' PROVE Gather'
      OBVIOUS
    <3>1. \A c \in Cores : ~core[c].mySync /\ core[c].fifo = 0
      BY <1>1, <1>2, ClockAssumption DEF AllClear, Core
    <3>2. \A c \in Cores : Pc(c) \in {"pollEnd", "clearEnd", "compute"}
      BY <1>1, <1>5, <3>1 DEF Core, Labels, Pc
    <3> QED
      BY <1>11, <3>1, <3>2 DEF Gather
  <2>5. allsync_r' = "Finish" => Gather'
    <3> SUFFICES ASSUME AllClear PROVE Gather'
      BY <1>3
    <3>1. Gather
      BY <1>7
    <3>2. allsync_r = "Start" => \A c \in Cores : Pc(c) # "pollStart"
      BY <1>9 DEF AllClear
    <3> QED
      BY <1>11, <3>1, <3>2 DEF Gather
  <2> QED
    BY <2>1, <2>2, <2>3, <2>4, <2>5 DEF PhaseInv
<1>15. \A c \in Cores :
         /\ Pc(c)' = "pollStart" => \/ Pc(c) = "pollStart"
                                    \/ Pc(c) = "compute" /\ Gather /\ ~Comm
         /\ Pc(c)' = "pollEnd" => \/ Pc(c) = "pollEnd"
                                  \/ Pc(c) = "send" /\ Comm /\ ~Gather
         /\ Pc(c)' \in {"clearStart", "send"} => \/ Pc(c) \in {"clearStart", "send"}
                                                 \/ Pc(c) = "pollStart" /\ allsync_r = "Start"
         /\ Pc(c)' \in {"clearEnd", "compute"} => \/ Pc(c) \in {"clearEnd", "compute"}
                                                  \/ Pc(c) = "pollEnd" /\ allsync_r = "Finish"
  BY <1>1, <1>7 DEF Moves, Waits, PollsAgain, Goes, Pc, Comm, Gather
<1>16. \A c \in Cores :
         /\ Pc(c)' = "pollStart" /\ allsync_r = "Start" =>
              Pc(c) = "pollStart" /\ core'[c].since = core[c].since + 1
              /\ AllSet /\ allsync_r' = "Start"
         /\ Pc(c)' = "pollEnd" /\ allsync_r = "Finish" =>
              Pc(c) = "pollEnd" /\ core'[c].since = core[c].since + 1
              /\ AllClear /\ allsync_r' = "Finish"
  BY StartStays, EndStays
<1>17. LevelHeld'
  <2> SUFFICES ASSUME NEW c \in Cores, NEW d \in Cores
               PROVE  /\ Pc(c)' = "pollStart" /\ Pc(d)' \in {"clearStart", "send"} => allsync_r' = "Start"
                      /\ Pc(c)' = "pollEnd" /\ Pc(d)' \in {"clearEnd", "compute"} => allsync_r' = "Finish"
                      /\ Pc(c)' = "pollStart" /\ Pc(d)' = "pollEnd" => allsync_r' \in {"Start", "Finish"}
    BY DEF LevelHeld
  <2>1. ASSUME Pc(c)' = "pollStart", Pc(d)' \in {"clearStart", "send"} PROVE allsync_r' = "Start"
    <3>1. allsync_r = "Start"
      BY <1>7, <1>8, <1>15, <2>1 DEF Comm, Gather
    <3> QED
      BY <1>16, <2>1, <3>1
  <2>2. ASSUME Pc(c)' = "pollEnd", Pc(d)' \in {"clearEnd", "compute"} PROVE allsync_r' = "Finish"
    <3>1. allsync_r = "Finish"
      BY <1>7, <1>8, <1>15, <2>2 DEF Comm, Gather
    <3> QED
      BY <1>16, <2>2, <3>1
  <2>3. ASSUME Pc(c)' = "pollStart", Pc(d)' = "pollEnd" PROVE allsync_r' \in {"Start", "Finish"}
    <3>1. allsync_r \in {"Start", "Finish"}
      BY <1>8, <1>15, <2>3
    <3> QED
      BY <1>16, <2>3, <3>1
  <2> QED
    BY <2>1, <2>2, <2>3
<1>18. StartTiming'
  <2> SUFFICES ASSUME allsync_r' = "Start", NEW c \in Cores, NEW d \in Cores, Pc(c)' = "pollStart"
               PROVE  /\ csync_r'[c]
                      /\ Pc(d)' = "clearStart" => core'[c].since >= core'[d].since + 1
                      /\ Pc(d)' = "send"       => core'[c].since >= core'[d].since + AccessTime + 1
                      /\ Pc(d)' = "pollEnd"    => core'[c].since >= 2 * AccessTime + 2
                      /\ ~csync_r'[d]          => core'[c].since >= 2 * AccessTime + 3
    BY DEF StartTiming, Pc
  <2>1. AllSet /\ Comm
    BY <1>3, <1>7
  <2>2. Pc(c) = "pollStart" /\ csync_r'[c]
    BY <1>2, <1>5, <1>15, <2>1
  <2>3. ~csync_r'[d] => Pc(d) = "pollEnd"
    BY <1>2, <1>5, <2>1 DEF Comm
  <2>4. CASE allsync_r = "Start"
    <3>1. core'[c].since = core[c].since + 1
      BY <1>16, <2>4
    <3>2. /\ Pc(d) = "clearStart" => core[c].since >= core[d].since + 1
          /\ Pc(d) = "send"       => core[c].since >= core[d].since + AccessTime + 1
          /\ Pc(d) = "pollEnd"    => core[c].since >= 2 * AccessTime + 2
      BY <2>2, <2>4 DEF IInv, StartTiming
    <3>3. core[c].since \in Nat \ {0} /\ core[d].since \in Nat \ {0} /\ AccessTime \in Nat \ {0}
      BY <1>1, ClockAssumption DEF Core
    <3>4. /\ Waits(d) => core'[d].since <= core[d].since + 1
      BY <1>1, ClockAssumption DEF Waits, Tick, Core
    <3>5. Pc(d)' = "clearStart" => core'[c].since >= core'[d].since + 1
      <4>1. Pc(d)' = "clearStart" => \/ Pc(d) = "clearStart" /\ Waits(d)
                                     \/ Pc(d) = "pollStart" /\ core'[d].since = 1
        BY <1>1 DEF Moves, PollsAgain, Goes, Pc, Waits
      <4> QED
        BY <1>1, <3>1, <3>2, <3>3, <3>4, <4>1 DEF Core
    <3>6. Pc(d)' = "send" => core'[c].since >= core'[d].since + AccessTime + 1
      <4>1. Pc(d)' = "send" =>
              \/ Pc(d) = "send" /\ Waits(d)
              \/ Pc(d) = "send" /\ core'[d].since = 1
              \/ Pc(d) = "clearStart" /\ core'[d].since = 1 /\ core[d].since >= AccessTime
        BY <1>1 DEF Moves, PollsAgain, Goes, Pc, Waits
      <4> QED
        BY <1>1, <3>1, <3>2, <3>3, <3>4, <4>1 DEF Core
    <3>7. Pc(d)' = "pollEnd" => core'[c].since >= 2 * AccessTime + 2
      <4>1. Pc(d)' = "pollEnd" => \/ Pc(d) = "pollEnd"
                                  \/ Pc(d) = "send" /\ core[d].since >= AccessTime
        BY <1>1 DEF Moves, PollsAgain, Goes, Pc, Waits
      <4> QED
        BY <3>1, <3>2, <3>3, <4>1
    <3>8. ~csync_r'[d] => core'[c].since >= 2 * AccessTime + 3
      BY <2>3, <3>1, <3>2, <3>3
    <3> QED
      BY <2>2, <3>5, <3>6, <3>7, <3>8
  <2>5. CASE allsync_r # "Start"
    <3>1. Pc(d) = "pollStart"
      BY <1>8, <1>9, <2>1, <2>2, <2>5 DEF Comm, AllSet
    <3>2. Pc(d)' = "pollStart"
      BY <1>1, <2>5, <3>1 DEF Moves, PollsAgain, Goes, Pc, Waits
    <3> QED
      BY <2>2, <2>3, <3>1, <3>2
  <2> QED
    BY <2>4, <2>5
<1>19. EndTiming'
  <2> SUFFICES ASSUME allsync_r' = "Finish", NEW c \in Cores, NEW d \in Cores, Pc(c)' = "pollEnd"
               PROVE  /\ ~csync_r'[c]
                      /\ Pc(d)' = "clearEnd"  => core'[c].since >= core'[d].since + 1
                      /\ Pc(d)' = "compute"   => core'[c].since >= core'[d].since + AccessTime + 1
                      /\ Pc(d)' = "pollStart" => core'[c].since >= 2 * AccessTime + 2
                      /\ csync_r'[d]          => core'[c].since >= 2 * AccessTime + 3
    BY DEF EndTiming, Pc
  <2>1. AllClear /\ Gather
    BY <1>3, <1>7
  <2>2. Pc(c) = "pollEnd" /\ ~csync_r'[c]
    BY <1>2, <1>5, <1>15, <2>1 DEF Gather
  <2>3. csync_r'[d] => Pc(d) = "pollStart"
    BY <1>2, <1>5, <2>1 DEF Gather
  <2>4. CASE allsync_r = "Finish"
    <3>1. core'[c].since = core[c].since + 1
      BY <1>16, <2>4
    <3>2. /\ Pc(d) = "clearEnd"  => core[c].since >= core[d].since + 1
          /\ Pc(d) = "compute"   => core[c].since >= core[d].since + AccessTime + 1
          /\ Pc(d) = "pollStart" => core[c].since >= 2 * AccessTime + 2
      BY <2>2, <2>4 DEF IInv, EndTiming
    <3>3. core[c].since \in Nat \ {0} /\ core[d].since \in Nat \ {0} /\ AccessTime \in Nat \ {0}
      BY <1>1, ClockAssumption DEF Core
    <3>4. /\ Waits(d) => core'[d].since <= core[d].since + 1
      BY <1>1, ClockAssumption DEF Waits, Tick, Core
    <3>5. Pc(d)' = "clearEnd" => core'[c].since >= core'[d].since + 1
      <4>1. Pc(d)' = "clearEnd" => \/ Pc(d) = "clearEnd" /\ Waits(d)
                                   \/ Pc(d) = "pollEnd" /\ core'[d].since = 1
        BY <1>1 DEF Moves, PollsAgain, Goes, Pc, Waits
      <4> QED
        BY <1>1, <3>1, <3>2, <3>3, <3>4, <4>1 DEF Core
    <3>6. Pc(d)' = "compute" => core'[c].since >= core'[d].since + AccessTime + 1
      <4>1. Pc(d)' = "compute" =>
              \/ Pc(d) = "compute" /\ Waits(d)
              \/ Pc(d) = "clearEnd" /\ core'[d].since = 1 /\ core[d].since >= AccessTime
        BY <1>1 DEF Moves, PollsAgain, Goes, Pc, Waits
      <4> QED
        BY <1>1, <3>1, <3>2, <3>3, <3>4, <4>1 DEF Core
    <3>7. Pc(d)' = "pollStart" => core'[c].since >= 2 * AccessTime + 2
      <4>1. Pc(d)' = "pollStart" => \/ Pc(d) = "pollStart"
                                    \/ Pc(d) = "compute" /\ core[d].since >= AccessTime
        BY <1>1 DEF Moves, PollsAgain, Goes, Pc, Waits
      <4> QED
        BY <3>1, <3>2, <3>3, <4>1
    <3>8. csync_r'[d] => core'[c].since >= 2 * AccessTime + 3
      BY <2>3, <3>1, <3>2, <3>3
    <3> QED
      BY <2>2, <3>5, <3>6, <3>7, <3>8
  <2>5. CASE allsync_r # "Finish"
    <3>1. Pc(d) = "pollEnd"
      BY <1>8, <1>9, <2>1, <2>2, <2>5 DEF Gather, AllClear
    <3>2. Pc(d)' = "pollEnd"
      BY <1>1, <2>5, <3>1 DEF Moves, PollsAgain, Goes, Pc, Waits
    <3> QED
      BY <2>2, <2>3, <3>1, <3>2
  <2> QED
    BY <2>4, <2>5
<1> QED
  BY <1>4, <1>6, <1>14, <1>17, <1>18, <1>19 DEF IInv

LEMMA NextIInv == IInv /\ [Next]_vars => IInv'
<1> SUFFICES ASSUME IInv, [Next]_vars PROVE IInv'
  OBVIOUS
<1>1. CASE Next
  BY <1>1, CycleIInv DEF Next
<1>2. CASE UNCHANGED vars
  BY <1>2 DEF vars, IInv, TypeOK, MySyncWhileInside, PhaseInv, Comm, Gather, AllSet, AllClear,
              LevelHeld, StartTiming, EndTiming, Pc
<1> QED
  BY <1>1, <1>2

\* Type correctness; the cores are always all before the barrier or all in
\* it; and how far one core has come bounds from below how long any other has
\* not polled (bsp_sync in bsp.h against the registers of TopCore.bsv).
THEOREM ClockInvariant == Spec => []IInv
<1> QED
  BY InitIInv, NextIInv, PTL DEF Spec

-----------------------------------------------------------------------------
\* START and END stay on the wires until every core has seen them, so no call
\* of bsp_sync is left behind in one of its two loops.
THEOREM NoPulseIsMissed == Spec => NoMissedPulse
<1>1. IInv /\ [Next]_vars =>
        [\A c \in Cores :
           /\ allsync_r = "Start" /\ allsync_r' # "Start" => core'[c].pc # "pollStart"
           /\ allsync_r = "Finish" /\ allsync_r' # "Finish" => core'[c].pc # "pollEnd"]_vars
  BY StartStays, EndStays DEF Next, vars, Pc
<1> QED
  BY <1>1, ClockInvariant, PTL DEF Spec, NoMissedPulse

=============================================================================
