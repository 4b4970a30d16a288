----------------------------- MODULE SerialPort -----------------------------
(***************************************************************************)
(* How core 0 of the board prints: its loads and stores go through Core    *)
(* (requestMMIO, getBusResp, responseMMIO), the bus master of CoreWrapper  *)
(* and the SPART to the transmit line.                                     *)
(*                                                                         *)
(* Core's rules are steps of their own; bus master, SPART and transmitter  *)
(* move together on the clock's edge.  A frame takes ten bits' time; here  *)
(* any time from when the queue has let go of its byte.  The receiving     *)
(* half and the divisor of the bit rate, which no program uses, are left   *)
(* out.  The bus has one master and never is busy.                         *)
(***************************************************************************)
EXTENDS Integers, Sequences, SequencesExt

CONSTANT Printings    \* programs, as sequences of accesses

VARIABLES printing,                        \* constant: the program
          next, room,                      \* its next access; whether it has seen room
          awaited,                         \* its accesses without an answer
          busReqs, busResps, mmioreq,      \* the queues of Core
          master, wires,                   \* CpuBusMaster and its registered outputs
          cmd, led,                        \* the SPART's command registers, the LED
          tx_queue, tx_old_ptr, tx_new_ptr,
          uart,                            \* UART_tx
          line                             \* bytes sent

coreVars  == <<next, room, awaited, mmioreq>>
boardVars == <<master, wires, cmd, led, tx_queue, tx_old_ptr, tx_new_ptr, uart, line>>
serialVars == <<printing, coreVars, busReqs, busResps, boardVars>>

-----------------------------------------------------------------------------
(* Programs: characters are told apart by their numbers.                   *)

SetLed(v)    == [op |-> "led", v |-> v]
Character(k) == [op |-> "character", v |-> k]
Characters(from, to) == [k \in 1 .. to - from + 1 |-> Character(from + k - 1)]

\* puts first looks whether it is on core 0.
puts(from, to) == <<[op |-> "id", v |-> 0]>> \o Characters(from, to)

uarttest == <<SetLed(1)>> \o Characters(1, 11)

\* "Result is: " and "True".
dotproduct_hw_prints == <<SetLed(0)>> \o puts(1, 11) \o <<SetLed(1)>> \o puts(12, 15)

-----------------------------------------------------------------------------
(* Core: every access has its answer through mmioreq, a store at once.     *)

Depth == 2

DATABUF == 0
STATUS  == 2
LED     == 3

Answer(to, v) == [to |-> to, v |-> v]

HasPlace(queue) == Len(queue) < Depth

StoreToBus(reg, data) ==
  /\ HasPlace(busReqs) /\ HasPlace(mmioreq)
  /\ busReqs' = Append(busReqs, [write |-> TRUE, reg |-> reg, data |-> data])
  /\ mmioreq' = Append(mmioreq, Answer("store", data))
  /\ awaited' = Append(awaited, "store")

LoadFromBus(reg) ==
  /\ HasPlace(busReqs)
  /\ busReqs' = Append(busReqs, [write |-> FALSE, reg |-> reg, data |-> 0])
  /\ awaited' = Append(awaited, "bus")
  /\ UNCHANGED mmioreq

LoadCpuId ==
  /\ HasPlace(mmioreq)
  /\ mmioreq' = Append(mmioreq, Answer("id", 0))
  /\ awaited' = Append(awaited, "id")
  /\ UNCHANGED busReqs

\* Wrong variant: the program goes on before its loads are answered.
DependsOnNothing == next \in DOMAIN printing

\* After each of its loads the program branches on what it got.
Ready == /\ next \in DOMAIN printing
         /\ \A k \in DOMAIN awaited : awaited[k] = "store"

Access == printing[next]

Advance == next' = next + 1 /\ room' = FALSE

\* requestMMIO, for the accesses of puts and uarttest.c.
WriteLed == /\ Ready /\ Access.op = "led"
            /\ StoreToBus(LED, Access.v)
            /\ Advance

ReadCpuId == /\ Ready /\ Access.op = "id"
             /\ LoadCpuId
             /\ Advance

PollStatus == /\ Ready /\ Access.op = "character" /\ ~room
              /\ LoadFromBus(STATUS)
              /\ UNCHANGED <<next, room>>

WriteCharacter == /\ Ready /\ Access.op = "character" /\ room
                  /\ StoreToBus(DATABUF, Access.v)
                  /\ Advance

requestMMIO == /\ WriteLed \/ ReadCpuId \/ PollStatus \/ WriteCharacter
               /\ UNCHANGED <<printing, busResps, boardVars>>

getBusResp == /\ busResps # <<>> /\ HasPlace(mmioreq)
              /\ mmioreq' = Append(mmioreq, Answer("bus", Head(busResps)))
              /\ busResps' = Tail(busResps)
              /\ UNCHANGED <<printing, next, room, awaited, busReqs, boardVars>>

\* Wrong variants: any number of places is enough, none included; more are
\* asked for than there are.
RoomForOne(places) == places >= 0
RoomForNine(places) == places > 8

\* The program polls as long as (status & 0xF0) <= 0x40.
EnoughRoom(places) == places > 4

\* responseMMIO, and the program: the oldest access gets the answer.
responseMMIO ==
  /\ mmioreq # <<>> /\ awaited # <<>>
  /\ room' = IF Head(awaited) = "bus" THEN EnoughRoom(Head(mmioreq).v) ELSE room
  /\ awaited' = Tail(awaited)
  /\ mmioreq' = Tail(mmioreq)
  /\ UNCHANGED <<printing, next, busReqs, busResps, boardVars>>

-----------------------------------------------------------------------------
(* The clock's edge: all of the board at once.                             *)

Wires(begin, read, w) == [begin |-> begin, read |-> read, word |-> w]
Quiet == Wires(FALSE, FALSE, 0)

Entries == (tx_new_ptr - tx_old_ptr) % 16

tx_q_full == Entries = 8
tx_q_empty == tx_old_ptr = tx_new_ptr

\* Bits 7 to 4 of the status register.
Places == IF tx_q_full THEN 0 ELSE (8 - Entries) % 16

\* Wrong variant: done as soon as the queue is.
DoneWhenEmpty == tx_q_empty

all_done == tx_q_empty /\ uart.state = "IDLE"

Enabled(reg) == cmd.en /\ cmd.reg = reg

\* A read is answered while the command is enabled.
ReadData == IF Enabled(STATUS) THEN Places ELSE 0

MasterIn(state) == [master EXCEPT !.state = state]

CpuBusMaster ==
  LET state == master.state
      leaves(s, m, w) == state = s /\ master' = m /\ wires' = w
  IN  /\ \/ /\ state = "IDLE" /\ busReqs # <<>>
            /\ master' = [state |-> IF Head(busReqs).write THEN "WRITE_REQ" ELSE "READ_REQ",
                          reg |-> Head(busReqs).reg, data |-> Head(busReqs).data]
            /\ wires' = Quiet
         \/ busReqs = <<>> /\ leaves("IDLE", master, Quiet)
         \/ leaves("READ_REQ", MasterIn("READ_ADDR"), Quiet)
         \/ leaves("READ_ADDR", MasterIn("READ_DATA"), Wires(TRUE, TRUE, master.reg))
         \/ leaves("READ_DATA", IF cmd.en THEN [master EXCEPT !.state = "READ_RESP", !.data = ReadData]
                                ELSE master, Quiet)
         \/ leaves("READ_RESP", IF HasPlace(busResps) THEN MasterIn("IDLE") ELSE master, Quiet)
         \/ leaves("WRITE_REQ", MasterIn("WRITE_ADDR"), Quiet)
         \/ leaves("WRITE_ADDR", MasterIn("WRITE_DATA"), Wires(TRUE, FALSE, master.reg))
         \/ leaves("WRITE_DATA", MasterIn("IDLE"), Wires(FALSE, FALSE, master.data))
      /\ busReqs' = IF state = "IDLE" /\ busReqs # <<>> THEN Tail(busReqs) ELSE busReqs
      /\ busResps' = IF state = "READ_RESP" /\ HasPlace(busResps)
                     THEN Append(busResps, master.data) ELSE busResps

\* The address is decoded an edge before the data are there.
Decode == cmd' = [en |-> ~cmd.en /\ wires.begin, reg |-> IF wires.begin THEN wires.word ELSE 0,
                  write |-> ~wires.read]

\* Written whether it has room or not.
WriteSide ==
  LET written == Enabled(DATABUF) /\ cmd.write
  IN  /\ tx_queue' = IF written THEN [tx_queue EXCEPT ![tx_new_ptr % 8] = wires.word] ELSE tx_queue
      /\ tx_new_ptr' = IF written THEN (tx_new_ptr + 1) % 16 ELSE tx_new_ptr
      /\ led' = IF Enabled(LED) /\ cmd.write THEN wires.word % 2 ELSE led

\* Read at the clock's falling edge; the pointer follows when the transmitter
\* has started.
ReadSide ==
  tx_old_ptr' = IF uart.tx_started /\ ~tx_q_empty THEN (tx_old_ptr + 1) % 16 ELSE tx_old_ptr

\* ends: whether this edge is the last of a frame.
UART_tx(ends) ==
  CASE uart.state = "IDLE" ->
         /\ ~ends
         /\ uart' = IF tx_q_empty THEN [uart EXCEPT !.tx_started = FALSE]
                    ELSE [state |-> "TRAN", tx_started |-> TRUE, byte |-> tx_queue[tx_old_ptr % 8]]
         /\ UNCHANGED line
    [] OTHER ->
         /\ ends => ~uart.tx_started
         /\ uart' = [uart EXCEPT !.tx_started = FALSE, !.state = IF ends THEN "IDLE" ELSE "TRAN"]
         /\ line' = IF ends THEN Append(line, uart.byte) ELSE line

Edge(ends) == /\ CpuBusMaster /\ Decode /\ WriteSide /\ ReadSide /\ UART_tx(ends)
              /\ UNCHANGED <<printing, coreVars>>

-----------------------------------------------------------------------------
SerialInit ==
  /\ printing \in Printings
  /\ next = 1 /\ room = FALSE /\ awaited = <<>>
  /\ busReqs = <<>> /\ busResps = <<>> /\ mmioreq = <<>>
  /\ master = [state |-> "IDLE", reg |-> 0, data |-> 0]
  /\ wires = Quiet
  /\ cmd = [en |-> FALSE, reg |-> 0, write |-> FALSE]
  /\ led = 0
  /\ tx_queue = [i \in 0 .. 7 |-> 0] /\ tx_old_ptr = 0 /\ tx_new_ptr = 0
  /\ uart = [state |-> "IDLE", tx_started |-> FALSE, byte |-> 0]
  /\ line = <<>>

SerialNext == requestMMIO \/ getBusResp \/ responseMMIO \/ \E ends \in BOOLEAN : Edge(ends)

\* The core runs, the clock ticks, and a frame ends.
SerialFairness == /\ WF_serialVars(requestMMIO) /\ WF_serialVars(getBusResp)
                  /\ WF_serialVars(responseMMIO)
                  /\ WF_serialVars(Edge(FALSE)) /\ WF_serialVars(Edge(TRUE))

-----------------------------------------------------------------------------
CharactersOf(accesses) ==
  LET chars == SelectSeq(accesses, LAMBDA a : a.op = "character")
  IN  [k \in DOMAIN chars |-> chars[k].v]

Issued == CharactersOf(SubSeq(printing, 1, next - 1))

LastLed == LET leds == SelectSeq(printing, LAMBDA a : a.op = "led")
           IN  IF leds = <<>> THEN 0 ELSE leds[Len(leds)].v

\* The queue of eight takes a byte whether it has room or not, its state is
\* old when the program looks at it and older when it acts on it, and pointer
\* and byte are read at different edges: no byte is lost, overwritten, sent
\* twice or out of order.
BytesInOrder == IsPrefix(line, Issued)

\* Answers carry no tag, those of the bus are slower than the others, and the
\* pipeline gives an answer to its oldest access: it is the answer to that.
AnswersMatch == mmioreq # <<>> => awaited # <<>> /\ Head(mmioreq).to = Head(awaited)

\* When nothing is on its way to the SPART, all_done, which the board's
\* "finished" waits for, says that the last byte has left.
AllDoneIsSent ==
  all_done /\ busReqs = <<>> /\ master.state = "IDLE" /\ wires = Quiet /\ ~cmd.en => line = Issued

\* What reaches the line, the program and the "finished" of the board is right.
SerialRight == BytesInOrder /\ AnswersMatch /\ AllDoneIsSent

\* Everything is printed in the end, and the LED shows what was stored last.
EverythingPrinted == <>(line = CharactersOf(printing) /\ led = LastLed)

=============================================================================
