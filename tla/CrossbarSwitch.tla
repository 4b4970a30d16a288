--------------------------- MODULE CrossbarSwitch ---------------------------
(***************************************************************************)
(* hw/network/CrossbarSwitch.bsv: a matrix of registers, one per input and *)
(* output.  An input writes its flit to its whole row; the output the flit *)
(* is for reads its own column.  Reading does not invalidate the register: *)
(* clearingIndexRule does, one step later, and the rest of the row stays   *)
(* valid until the input writes again.                                     *)
(***************************************************************************)
EXTENDS Integers, FiniteSetsExt

CONSTANTS NumPorts,    \* 5 in the source
          Flits,       \* the flits that go through
          Invalid      \* tagged Invalid

ASSUME NumPortsAssumption == NumPorts \in 1 .. 7   \* the indices fit 3 bits, 7 is free

Ports == 0 .. NumPorts - 1

NoIndex == 7           \* 3'b111

SwitchFlit == [flit : Flits, destDirn : Ports]

ASSUME InvalidAssumption ==
  Invalid \notin SwitchFlit \cup [in : Ports, flit : Flits, out : Ports]

VARIABLES mrmwRegisters,  \* mrmwRegisters[in][out]: Maybe#(SwitchFlit)
          clearingIndex,  \* clearingIndex[out]: input whose register is to be cleared
          cbBuffer,       \* the number of tokens in the one-place pipeline FIFO
          delivered       \* last result of a getFlit and its port

switchVars == <<mrmwRegisters, clearingIndex, cbBuffer, delivered>>

SwitchInit == /\ mrmwRegisters = [i \in Ports |-> [o \in Ports |-> Invalid]]
              /\ clearingIndex = [o \in Ports |-> NoIndex]
              /\ cbBuffer = 0
              /\ delivered = Invalid

isValid(i, o) == mrmwRegisters[i][o] # Invalid

\* Input i holds a flit for o in the column o reads.
Offers(i, o) == isValid(i, o) /\ mrmwRegisters[i][o].destDirn = o

\* Wrong variant: the register that was just read counts.
isOutputReadyStale(o) == \E i \in Ports : Offers(i, o)

isOutputReady(o) == clearingIndex[o] = NoIndex /\ \E i \in Ports : Offers(i, o)

\* Wrong variants: an input may always write; or only to an empty row.
isInputEmptyAlways(i) == TRUE
isInputEmptyRow(i) == \A o \in Ports : ~isValid(i, o)

isInputEmpty(i) == \E o \in Ports : ~isValid(i, o)

\* The loop of getFlit keeps the last input that offers something.
selection(o) == Max({i \in Ports : Offers(i, o)})

\* Wrong variant: cbBuffer does not hold up a second flit.
putFlitUnbuffered(in, flit, destDirn) ==
  /\ isInputEmpty(in)
  /\ cbBuffer' = cbBuffer + 1
  /\ mrmwRegisters' = [mrmwRegisters EXCEPT ![in] =
       [o \in Ports |-> [flit |-> flit, destDirn |-> destDirn]]]
  /\ UNCHANGED <<clearingIndex, delivered>>

putFlit(in, flit, destDirn) ==
  /\ isInputEmpty(in)
  /\ cbBuffer = 0                          \* cbBuffer.enq
  /\ cbBuffer' = 1
  /\ mrmwRegisters' = [mrmwRegisters EXCEPT ![in] =
       [o \in Ports |-> [flit |-> flit, destDirn |-> destDirn]]]
  /\ UNCHANGED <<clearingIndex, delivered>>

getFlit(out) ==
  /\ isOutputReady(out)
  /\ cbBuffer = 1                          \* cbBuffer.deq
  /\ cbBuffer' = 0
  /\ clearingIndex' = [clearingIndex EXCEPT ![out] = selection(out)]
  /\ delivered' = [flit |-> mrmwRegisters[selection(out)][out].flit, out |-> out]
  /\ UNCHANGED mrmwRegisters

clearingIndexRule(out) ==
  /\ clearingIndex[out] # NoIndex
  /\ mrmwRegisters' = [mrmwRegisters EXCEPT ![clearingIndex[out]][out] = Invalid]
  /\ clearingIndex' = [clearingIndex EXCEPT ![out] = NoIndex]
  /\ UNCHANGED <<cbBuffer, delivered>>

SwitchNext == \/ \E in, destDirn \in Ports, flit \in Flits : putFlit(in, flit, destDirn)
              \/ \E out \in Ports : getFlit(out)
              \/ \E out \in Ports : clearingIndexRule(out)

SwitchSpec == SwitchInit /\ [][SwitchNext]_switchVars

-----------------------------------------------------------------------------
\* Type invariant: registers hold what their declarations say.
SwitchTypeOK ==
  /\ mrmwRegisters \in [Ports -> [Ports -> SwitchFlit \cup {Invalid}]]
  /\ clearingIndex \in [Ports -> Ports \cup {NoIndex}]
  /\ cbBuffer \in 0 .. 1

\* The pairs of an input and an output between which a flit waits: offered,
\* and not the one that the output has just read and is about to clear.
Waiting == {p \in Ports \X Ports : Offers(p[1], p[2]) /\ clearingIndex[p[2]] # p[1]}

\* A register that was read but not cleared yet, or a stale register of a row
\* whose flit has left, is never taken for a new flit: there is a flit to
\* read exactly when cbBuffer holds a token, and never more than one.
OneFlitPerToken == \/ cbBuffer = 0 /\ Waiting = {}
                   \/ cbBuffer = 1 /\ \E p \in Waiting : Waiting = {p}

\* Three invariants make it inductive.  A row holds one flit, repeated; a
\* flit that is offered still fills its row; and what an output is about to
\* clear is the offer it has just taken.
RowsAgree == \A i, o1, o2 \in Ports :
  isValid(i, o1) /\ isValid(i, o2) => mrmwRegisters[i][o1] = mrmwRegisters[i][o2]
OfferedRowFull == \A i, o, k \in Ports : Offers(i, o) => isValid(i, k)
ClearingOffered == \A i, o \in Ports : clearingIndex[o] = i => Offers(i, o)

SwitchInv == SwitchTypeOK /\ OneFlitPerToken /\ RowsAgree /\ OfferedRowFull /\ ClearingOffered

\* The input never locks up: unless its flit is waiting to be read or its
\* register is about to be cleared, it may write again.
InputFree == \A i \in Ports : \/ isInputEmpty(i)
                              \/ \E o \in Ports : <<i, o>> \in Waiting \/ clearingIndex[o] = i

\* Refinement mapping: the waiting register is the slot.
SlotOf == IF Waiting = {} THEN Invalid
          ELSE LET p == CHOOSE p \in Waiting : TRUE
               IN  [in |-> p[1], flit |-> mrmwRegisters[p[1]][p[2]].flit, out |-> p[2]]

Switch == INSTANCE OneFlitSwitch
            WITH NoPort <- NoIndex, NoFlit <- Invalid,
                 slot <- SlotOf, draining <- clearingIndex

\* Every behaviour of the register matrix is one of a switch that holds one
\* flit: nothing is lost, duplicated, altered or handed to another port.
ImplementsOneFlitSwitch == Switch!Spec

=============================================================================
