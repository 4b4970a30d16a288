---------------------------- MODULE SerialTerminal ----------------------------
(***************************************************************************)
(* The board's serial line in simulation, bit by bit: the transmitter and  *)
(* the receiver of the SPART on one side, the test bench's uartdpi with    *)
(* its terminal and log on the other, in the loop of sim_main.             *)
(*                                                                         *)
(* The two sides time bits on their own: the SPART counts from DB down to  *)
(* 0, uartdpi CYCLES_PER_SYMBOL cycles.  A step is one cycle of the clock, *)
(* on whose rising edge the SPART moves and on whose falling edge uartdpi  *)
(* does.  The kernel's pseudo-terminal is a buffer of PtyRoom characters.  *)
(***************************************************************************)
EXTENDS Integers, Sequences, SequencesExt

CONSTANTS DB, CYCLES_PER_SYMBOL,  \* cycles of a bit, by the SPART and by uartdpi
          PtyRoom,                \* what the pseudo-terminal holds for its reader
          Talks                   \* what is sent and typed, where the log goes,
                                  \* and the registers before reset

VARIABLES talk,                   \* constant: one of Talks
          time,                   \* of the simulation, as far as reset takes
          toSend, tx,             \* the transmit queue, UART_tx
          rx, rx_queue,           \* UART_rx, the receive queue
          toRead, txdpi,          \* typed and not read, uartdpi's TX
          rxdpi,                  \* uartdpi's RX
          shown, unread,          \* written to the terminal, not yet looked at
          buffered, logged,       \* in the log's buffer and in the log
          incomplete,             \* history: a write of the log's file has failed
          status                  \* of the simulation

logVars   == <<buffered, logged, incomplete>>
spartVars == <<toSend, tx, rx, rx_queue>>
dpiVars   == <<toRead, txdpi, rxdpi, shown, unread, logVars, status>>
terminalVars == <<talk, time, spartVars, dpiVars>>

Bit(word, i) == (word \div 2^i) % 2

\* sim_main holds rst while the time is below 10; a cycle takes two.
ResetTime == 10
rst == time < ResetTime

-----------------------------------------------------------------------------
(* The SPART, on the rising edge.                                          *)

\* Wrong variant: the stop bit is not waited for.
FrameBitsButStop == 9

\* Start bit, eight of data, stop bit.
FrameBits == 10

Idle9 == 2^9 - 1

\* UART_tx shifts out its register, the lowest bit first, and ones behind it.
\* Its counters are not reset.  What the queue does is in SerialPort: here it
\* offers a byte or none.
UartTransmit(offered) ==
  LET shift == tx.baud_cnt = 0
      init  == tx.state = "IDLE" /\ offered
      transmitting == tx.state = "TRAN" /\ tx.bit_cnt # FrameBits
  IN  /\ offered => toSend # <<>> /\ ~rst
      /\ tx' = [state    |-> IF ~rst /\ (init \/ transmitting) THEN "TRAN" ELSE "IDLE",
                bit_cnt  |-> IF init THEN 0 ELSE IF shift THEN (tx.bit_cnt + 1) % 16 ELSE tx.bit_cnt,
                baud_cnt |-> IF init \/ shift THEN DB
                             ELSE IF transmitting THEN tx.baud_cnt - 1 ELSE tx.baud_cnt,
                reg      |-> IF rst THEN Idle9 ELSE IF init THEN 2 * Head(toSend)
                             ELSE IF shift THEN tx.reg \div 2 + 2^8 ELSE tx.reg]
      /\ toSend' = IF init THEN Tail(toSend) ELSE toSend

\* Wrong variant: the samples are where the bits change.
FirstSampleAtEdge == DB

\* From the start of the start bit to its middle.
FirstSample == DB \div 2

\* UART_rx looks at the line through two flip-flops.
UartReceive ==
  LET shift == rx.baud_cnt = 0
      start == rx.state = "IDLE" /\ rx.flop2 = 0
      done  == rx.state = "RECV" /\ rx.bit_cnt = 10
      receiving == rx.state = "RECV" /\ ~done
  IN  rx' = [flop1    |-> IF rst THEN 1 ELSE txdpi.tx_o,
             flop2    |-> IF rst THEN 1 ELSE rx.flop1,
             state    |-> IF ~rst /\ (start \/ receiving) THEN "RECV" ELSE "IDLE",
             bit_cnt  |-> IF start THEN 0 ELSE IF shift THEN (rx.bit_cnt + 1) % 16 ELSE rx.bit_cnt,
             baud_cnt |-> IF start THEN FirstSample ELSE IF shift THEN DB
                          ELSE IF receiving THEN rx.baud_cnt - 1 ELSE rx.baud_cnt,
             reg      |-> IF rst THEN 0 ELSE IF shift THEN rx.reg \div 2 + 2^8 * rx.flop2 ELSE rx.reg,
             rdy      |-> ~rst /\ done]

\* A byte for which there is no room is lost; no program takes one out.
KeepReceived ==
  rx_queue' = IF ~rst /\ rx.rdy /\ Len(rx_queue) < 8 THEN Append(rx_queue, rx.reg % 256) ELSE rx_queue

all_sent == toSend' = <<>> /\ tx'.state = "IDLE"

RisingEdge == /\ \E offered \in BOOLEAN : UartTransmit(offered)
              /\ UartReceive /\ KeepReceived

-----------------------------------------------------------------------------
(* uartdpi.c                                                               *)

NewLine == 10

\* The log that uartdpi_create opens: a file that cannot be opened is no log.
uartdpi_create(path, opens) ==
  IF path = "-" THEN "stdout" ELSE IF path # "" /\ opens THEN "file" ELSE "none"

LogOf == uartdpi_create(talk.path, talk.opens)

\* uartdpi_can_read takes the character that uartdpi_read gives.
uartdpi_can_read == toRead # <<>> /\ toRead' = Tail(toRead)
uartdpi_read == Head(toRead)

\* The buffer is written, or as much of it as the file takes; what it does not
\* take is lost or stays in the buffer.
WriteOut(pending) ==
  \E n \in 0 .. Len(pending) :
    /\ logged' = logged \o SubSeq(pending, 1, n)
    /\ buffered' \in {<<>>, SubSeq(pending, n + 1, Len(pending))}
    /\ incomplete' = (incomplete \/ n < Len(pending))

\* The log of a file is written line by line, that of stdout when it likes.
\* When that fails, fwrite says so or counts the character as in the buffer.
fwrite(c) ==
  \/ /\ LogOf = "stdout" \/ c # NewLine
     /\ buffered' = Append(buffered, c)
     /\ UNCHANGED <<logged, incomplete, status>>
  \/ /\ LogOf = "stdout" \/ c = NewLine
     /\ WriteOut(Append(buffered, c))
     /\ \/ UNCHANGED status
        \/ incomplete' /\ buffered' = <<>> /\ status' = "aborted"

uartdpi_write(c) ==
  \/ /\ unread = PtyRoom
     /\ status' = "aborted"
     /\ buffered' = <<>>
     /\ UNCHANGED <<shown, unread, logged, incomplete>>
  \/ /\ unread < PtyRoom
     /\ shown' = Append(shown, c) /\ unread' = unread + 1
     /\ IF LogOf = "none" THEN UNCHANGED <<logVars, status>> ELSE fwrite(c)

\* Wrong variant: the log is closed as after a crash.
uartdpi_closeUnflushed == /\ buffered' = <<>>
                          /\ status' = "finished"
                          /\ UNCHANGED <<toRead, txdpi, rxdpi, shown, unread, logged, incomplete>>

\* Whether fflush and fclose can write the log is not looked at.
uartdpi_close == /\ WriteOut(buffered) /\ buffered' = <<>>
                 /\ status' = "finished"
                 /\ UNCHANGED <<toRead, txdpi, rxdpi, shown, unread>>

-----------------------------------------------------------------------------
(* uartdpi.sv, on the falling edge: reset is over when sim_main says so    *)
(* before it evaluates that edge.                                          *)

InReset == time' < ResetTime

LastCycle == txdpi.cyc = CYCLES_PER_SYMBOL - 1

DpiTransmit ==
  \/ /\ InReset
     /\ txdpi' = [txdpi EXCEPT !.tx_o = 1, !.active = FALSE]
     /\ UNCHANGED toRead
  \/ /\ ~InReset /\ ~txdpi.active
     /\ \/ /\ uartdpi_can_read
           /\ txdpi' = [active |-> TRUE, count |-> 0, cyc |-> 0, symbol |-> 2^9 + 2 * uartdpi_read,
                        tx_o |-> 1]
        \/ /\ txdpi' = [txdpi EXCEPT !.tx_o = 1]
           /\ UNCHANGED toRead
  \/ /\ ~InReset /\ txdpi.active
     /\ txdpi' = [txdpi EXCEPT !.tx_o = Bit(txdpi.symbol, txdpi.count),
                               !.cyc = IF LastCycle THEN 0 ELSE @ + 1,
                               !.active = ~(LastCycle /\ txdpi.count = 9),
                               !.count = IF LastCycle /\ @ < 9 THEN @ + 1 ELSE @]
     /\ UNCHANGED toRead

\* Where uartdpi looks: the middle of the start bit, then a bit further.
LooksAt == IF rxdpi.count = 0 THEN CYCLES_PER_SYMBOL \div 2 - 1 ELSE CYCLES_PER_SYMBOL - 1

WithBit(byte, i, b) == byte + 2^i * (b - Bit(byte, i))

NothingWritten == UNCHANGED <<shown, unread, logVars, status>>

\* The counter of cycles is left alone where the next start bit resets it.
DpiReceive ==
  LET rx_i  == Bit(tx'.reg, 0)
      looks == rxdpi.cyc = LooksAt
      Stop  == rxdpi' = [rxdpi EXCEPT !.active = FALSE]
      Bits(symbol) == rxdpi' = [rxdpi EXCEPT !.cyc = 0, !.count = @ + 1, !.symbol = symbol]
      Waiting ==
        /\ ~rxdpi.active
        /\ rxdpi' = IF rx_i = 0 THEN [rxdpi EXCEPT !.active = TRUE, !.count = 0, !.cyc = 0] ELSE rxdpi
      Counting == rxdpi.active /\ ~looks /\ rxdpi' = [rxdpi EXCEPT !.cyc = @ + 1]
      StartBit == /\ rxdpi.active /\ looks /\ rxdpi.count = 0
                  /\ IF rx_i = 1 THEN Stop ELSE Bits(rxdpi.symbol)
      DataBit  == /\ rxdpi.active /\ looks /\ rxdpi.count \in 1 .. 8
                  /\ Bits(WithBit(rxdpi.symbol, rxdpi.count - 1, rx_i))
      StopBit  == /\ rxdpi.active /\ looks /\ rxdpi.count > 8
                  /\ Stop
                  /\ IF rx_i = 1 THEN uartdpi_write(rxdpi.symbol) ELSE NothingWritten
  IN  \/ InReset /\ Stop /\ NothingWritten
      \/ ~InReset /\ (Waiting \/ Counting \/ StartBit \/ DataBit) /\ NothingWritten
      \/ ~InReset /\ StopBit

FallingEdge == DpiTransmit /\ DpiReceive

-----------------------------------------------------------------------------
(* sim_main                                                                *)

Cycle == /\ status = "running"
         /\ time' = IF rst THEN time + 2 ELSE time
         /\ RisingEdge /\ FallingEdge
         /\ UNCHANGED talk

\* The core has finished and the SPART is done: the loop ends with the rising
\* edge on which both are so.
Finish == /\ status = "running" /\ ~rst
          /\ RisingEdge /\ all_sent
          /\ uartdpi_close
          /\ UNCHANGED <<talk, time>>

\* Whoever sits at the terminal, outside of the simulation, looks.
Look == /\ unread > 0
        /\ unread' = unread - 1
        /\ UNCHANGED <<talk, time, spartVars, toRead, txdpi, rxdpi, shown, logVars, status>>

\* Before reset the registers hold anything.
TerminalInit ==
  /\ talk \in Talks
  /\ time = 0
  /\ toSend = talk.sends /\ toRead = talk.types
  /\ LET g == talk.garbage
     IN  /\ tx = [state |-> g.state, bit_cnt |-> g.bit_cnt, baud_cnt |-> g.baud_cnt, reg |-> g.reg]
         /\ rx = [state |-> IF g.state = "IDLE" THEN "IDLE" ELSE "RECV", bit_cnt |-> g.bit_cnt,
                  baud_cnt |-> g.baud_cnt, reg |-> g.reg, flop1 |-> g.bit, flop2 |-> g.bit, rdy |-> g.bit = 0]
         /\ txdpi = [active |-> g.bit = 0, count |-> g.bit_cnt, cyc |-> g.baud_cnt, symbol |-> g.reg,
                     tx_o |-> g.bit]
         /\ rxdpi = [active |-> g.bit = 0, count |-> g.bit_cnt, cyc |-> g.baud_cnt, symbol |-> g.reg % 256]
  /\ rx_queue = <<>>
  /\ shown = <<>> /\ unread = 0 /\ buffered = <<>> /\ logged = <<>> /\ incomplete = FALSE
  /\ status = "running"

TerminalNext == Cycle \/ Finish \/ Look

-----------------------------------------------------------------------------
\* Though the two sides disagree about how long a bit is, bytes reach the
\* terminal as they were sent, in order, and none is missing when the sender
\* is idle again, whatever the registers held before reset.
ShowsWhatIsSent ==
  /\ IsPrefix(shown, talk.sends)
  /\ status = "running" /\ ~rst /\ toSend = <<>> /\ tx.state = "IDLE" => shown = talk.sends

\* What is typed reaches the receive queue in the same way, as far as it has
\* room.
KeepsWhatIsTyped ==
  /\ IsPrefix(rx_queue, talk.types)
  /\ ~rst /\ ~txdpi.active /\ rx.state = "IDLE" /\ ~rx.rdy =>
       Len(rx_queue) = IF Len(talk.types) - Len(toRead) < 8 THEN Len(talk.types) - Len(toRead) ELSE 8

\* The characters of s are those at some places of t, in their order.
IsWithGaps(s, t) ==
  \E place \in [DOMAIN s -> DOMAIN t] :
    /\ \A i, j \in DOMAIN s : i < j => place[i] < place[j]
    /\ \A i \in DOMAIN s : s[i] = t[place[i]]

\* The simulation does not end before the last byte is shown, nor, unless a
\* write of the log's file has failed, before it is logged.  When it aborts,
\* because nobody looks at the terminal or fwrite says that it failed, no byte
\* is in the log that was not shown.  A write that has failed leaves bytes out
\* (the end of the log, or what comes before a later line), but no byte is
\* logged twice or before one that was shown before it.
EndsWithEverything ==
  /\ status = "finished" => shown = talk.sends
  /\ status = "finished" /\ LogOf # "none" /\ ~incomplete => logged = shown
  /\ ~incomplete => IsPrefix(logged \o buffered, shown)
  /\ IsWithGaps(logged \o buffered, shown)

\* The serial line in simulation loses and changes nothing without a sign, but
\* for what the log's file does not take.
TerminalRight == ShowsWhatIsSent /\ KeepsWhatIsTyped /\ EndsWithEverything

=============================================================================
