---------------------------- MODULE BspSyncClock ----------------------------
(***************************************************************************)
(* The barrier of BspSync on the actual clock.  START and END are levels   *)
(* that the wires hold only while all cores stay where they are: a core    *)
(* that polls too seldom, or another that runs on too fast, would make it  *)
(* miss one, and bsp_sync would never return anywhere.  Whether that can   *)
(* happen depends on cycles, which is what this module counts.             *)
(*                                                                         *)
(* A step is a clock cycle: all registers are read before any is written.  *)
(* bsp_sync_all_start and _end are Ehrs that setAllSync writes on port 0   *)
(* in every cycle and the firmware reads on port 1, after it: what a core  *)
(* reads is allsync_r of the same cycle, and its own clearing of the flag  *)
(* (port 1) is overwritten before anything reads it.  The two registers    *)
(* are therefore not kept; clearing them only takes its time.              *)
(***************************************************************************)
EXTENDS Naturals

CONSTANTS Cores,
          FifoDepth,    \* places of outgoingFlits (2)
          MaxFlits,     \* bound on the flits a core sends in one call
          AccessTime,   \* least number of cycles between two accesses of a core
          PollPeriod    \* greatest number of cycles between two polls of a core

ASSUME ClockAssumption == /\ FifoDepth \in Nat /\ MaxFlits \in Nat
                          /\ AccessTime \in Nat \ {0}
                          /\ PollPeriod \in Nat /\ AccessTime <= PollPeriod
                          \* a call of bsp_sync that sends nothing makes two
                          \* accesses after it has seen START, and the wires
                          \* hold START for three cycles after the second
                          /\ PollPeriod <= 2 * AccessTime + 3

VARIABLES core,                \* per core: firmware, MY_SYNC and outgoing FIFO
          csync_r, allsync_r   \* the registers of the top level

vars == <<core, csync_r, allsync_r>>

Labels == {"compute", "pollStart", "clearStart", "send", "pollEnd", "clearEnd"}
Polls  == {"pollStart", "pollEnd"}

Core == [pc : Labels, mySync : BOOLEAN, queued : 0 .. MaxFlits,
         fifo : 0 .. FifoDepth,
         since : 1 .. PollPeriod]   \* cycles since the last access, up to PollPeriod

Init == /\ core = [c \in Cores |-> [pc |-> "compute", mySync |-> FALSE, queued |-> 0,
                                    fifo |-> 0, since |-> AccessTime]]
        /\ csync_r = [c \in Cores |-> FALSE]
        /\ allsync_r = "Unsync"

\* Wrong variant: a core with flits to send is not in sync.
getLocalSyncEmpty(c) == core[c].mySync /\ core[c].fifo = 0

getLocalSync(c) == core[c].mySync \/ core[c].fifo > 0

\* The next access of bsp_sync; a poll that reads 0 is repeated.  n is the
\* number of flits the computation has queued.
Access(k, n) ==
  CASE k.pc = "compute" -> [k EXCEPT !.pc = "pollStart", !.mySync = TRUE, !.queued = n]
    [] k.pc = "pollStart" /\ allsync_r = "Start" -> [k EXCEPT !.pc = "clearStart"]
    [] k.pc = "clearStart" -> [k EXCEPT !.pc = "send"]
    [] k.pc = "send" /\ k.queued > 0 -> [k EXCEPT !.queued = @ - 1, !.fifo = @ + 1]
    [] k.pc = "send" /\ k.queued = 0 -> [k EXCEPT !.pc = "pollEnd", !.mySync = FALSE]
    [] k.pc = "pollEnd" /\ allsync_r = "Finish" -> [k EXCEPT !.pc = "clearEnd"]
    [] k.pc = "clearEnd" -> [k EXCEPT !.pc = "compute"]
    [] OTHER -> k

\* Wrong variant: the store of a flit does not wait for room in the FIFO.
ReadyUnguarded(c) == core[c].since >= AccessTime

\* The core can make its next access in this cycle: its last one is long
\* enough ago and, if it is a flit, there is room for it.
Ready(c) == /\ core[c].since >= AccessTime
            /\ core[c].pc = "send" /\ core[c].queued > 0 => core[c].fifo < FifoDepth

\* Wrong variant: only the loop that waits for END is fast enough.
DueAtEnd(c) == core[c].pc = "pollEnd" /\ core[c].since = PollPeriod

\* ... and it has to: a polling loop is never slower than PollPeriod.
Due(c) == core[c].pc \in Polls /\ core[c].since = PollPeriod

Tick(k) == [k EXCEPT !.since = IF @ < PollPeriod THEN @ + 1 ELSE @]

\* One cycle, in which the cores of acting make an access and the mesh takes
\* a flit from each core of putting.
Cycle(acting, putting) ==
  /\ \A c \in acting : Ready(c)
  /\ \A c \in Cores : Due(c) => c \in acting
  /\ \A c \in putting : core[c].fifo > 0
  /\ \E n \in 0 .. MaxFlits :
       core' = [c \in Cores |->
         LET moved == IF c \in acting THEN [Access(core[c], n) EXCEPT !.since = 1]
                      ELSE Tick(core[c])
         IN  IF c \in putting THEN [moved EXCEPT !.fifo = @ - 1] ELSE moved]
  /\ csync_r' = [c \in Cores |-> getLocalSync(c)]
  /\ allsync_r' = IF \A c \in Cores : csync_r[c] THEN "Start"
                  ELSE IF \A c \in Cores : ~csync_r[c] THEN "Finish" ELSE "Unsync"

Next == \E acting, putting \in SUBSET Cores : Cycle(acting, putting)

Spec == Init /\ [][Next]_vars

\* Every core goes on with its program, which calls bsp_sync as often as the
\* others do, and the mesh takes the flits that are offered to it.
Fairness ==
  \A c \in Cores :
    /\ WF_vars(\E acting, putting \in SUBSET Cores : c \in acting /\ Cycle(acting, putting))
    /\ WF_vars(\E acting, putting \in SUBSET Cores : c \in putting /\ Cycle(acting, putting))

FairSpec == Spec /\ Fairness

-----------------------------------------------------------------------------
\* Type invariant.
TypeOK == /\ core \in [Cores -> Core]
          /\ csync_r \in [Cores -> BOOLEAN]
          /\ allsync_r \in {"Unsync", "Start", "Finish"}

\* No core is left behind: the wires do not go back from START while a core
\* still polls for START, nor from END while one still polls for END.  All
\* others would go on to the next barrier and wait there for ever.
NoMissedPulse ==
  [][\A c \in Cores :
       /\ allsync_r = "Start" /\ allsync_r' # "Start" => core'[c].pc # "pollStart"
       /\ allsync_r = "Finish" /\ allsync_r' # "Finish" => core'[c].pc # "pollEnd"]_vars

-----------------------------------------------------------------------------
\* The inductive invariant.  As in BspSync, at any time the cores are all
\* between entering bsp_sync and seeing END, or all between having cleared
\* MY_SYNC and seeing the next START, with nothing left to send.
Pc(c) == core[c].pc

Comm   == \A c \in Cores : Pc(c) \in {"pollStart", "clearStart", "send", "pollEnd"}
Gather == \A c \in Cores : /\ core[c].fifo = 0
                           /\ Pc(c) \in {"pollEnd", "clearEnd", "compute", "pollStart"}

MySyncWhileInside ==
  \A c \in Cores : core[c].mySync <=> Pc(c) \in {"pollStart", "clearStart", "send"}

AllSet   == \A c \in Cores : csync_r[c]
AllClear == \A c \in Cores : ~csync_r[c]

PhaseInv == /\ Comm \/ Gather
            /\ AllSet \/ allsync_r = "Start" => Comm
            /\ AllClear \/ allsync_r = "Finish" => Gather

\* As long as somebody polls for a level others have seen, it is there.
LevelHeld ==
  \A c, d \in Cores :
    /\ Pc(c) = "pollStart" /\ Pc(d) \in {"clearStart", "send"} => allsync_r = "Start"
    /\ Pc(c) = "pollEnd" /\ Pc(d) \in {"clearEnd", "compute"} => allsync_r = "Finish"
    /\ Pc(c) = "pollStart" /\ Pc(d) = "pollEnd" => allsync_r \in {"Start", "Finish"}

\* How far others have come tells for how long START has been there, and so
\* for how long one that still polls for it cannot have looked.
StartTiming ==
  allsync_r = "Start" =>
    \A c, d \in Cores : Pc(c) = "pollStart" =>
      /\ csync_r[c]
      /\ Pc(d) = "clearStart" => core[c].since >= core[d].since + 1
      /\ Pc(d) = "send"       => core[c].since >= core[d].since + AccessTime + 1
      /\ Pc(d) = "pollEnd"    => core[c].since >= 2 * AccessTime + 2
      /\ ~csync_r[d]          => core[c].since >= 2 * AccessTime + 3

\* The same for END.
EndTiming ==
  allsync_r = "Finish" =>
    \A c, d \in Cores : Pc(c) = "pollEnd" =>
      /\ ~csync_r[c]
      /\ Pc(d) = "clearEnd"  => core[c].since >= core[d].since + 1
      /\ Pc(d) = "compute"   => core[c].since >= core[d].since + AccessTime + 1
      /\ Pc(d) = "pollStart" => core[c].since >= 2 * AccessTime + 2
      /\ csync_r[d]          => core[c].since >= 2 * AccessTime + 3

IInv == TypeOK /\ MySyncWhileInside /\ PhaseInv /\ LevelHeld /\ StartTiming /\ EndTiming

\* Every call of bsp_sync returns.
EveryCallReturns ==
  \A c \in Cores : core[c].pc = "pollStart" ~> core[c].pc = "compute"

=============================================================================
