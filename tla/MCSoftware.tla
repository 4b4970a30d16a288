----------------------------- MODULE MCSoftware -----------------------------
(***************************************************************************)
(* Inputs for the routines and programs, scenarios for those that run on   *)
(* all cores, programs that print through the serial port of the board,    *)
(* and talks over its serial line.  A behaviour is of one of the four.     *)
(***************************************************************************)
EXTENDS Programs, BspPrograms, SerialPort, SerialTerminal

\* The ends of the range of 16-bit words, and numbers with few and many ones.
MCWords == {-32768, -32767, -21846, -256, -3, -2, -1, 0, 1, 2, 3, 5, 255, 256, 21845, 32766, 32767}

\* Of 32 bits: the ends of the range, and on both sides of powers of ten.
MCInts == {MinInt32, MinInt32 + 1, 2147483647, 1000000000, 999999999, 65535, 65536,
           -1000000, -10, -9, -1, 0, 1, 9, 10, 11, 99, 100, 101, 2025, -1234567890}

\* Two strings in three words, and what lies behind them.
MCBytes == [i \in 0 .. 15 |-> CASE i \in {5, 6, 12} -> 0 [] OTHER -> 65 + i]

MCArrays == [-1 .. 3 -> 0 .. 2]
MCBounds == {<<-1, 2>>, <<-1, 3>>, <<0, 2>>, <<0, 3>>, <<1, 3>>, <<2, 2>>, <<1, 0>>}

\* Memories of two sorted runs, or of some, in the lower half.
Runs(len, top) == {m \in [0 .. 2 * len - 1 -> 0 .. top] :
                     SortedBetween(m, 0, len - 1) /\ SortedBetween(m, len, 2 * len - 1)}
Doubled(m) == [a \in 0 .. 2 * Cardinality(DOMAIN m) - 1 |-> IF a \in DOMAIN m THEN m[a] ELSE 7]
RunsOf(number, size) == {m \in [0 .. number * size - 1 -> 0 .. 1] :
  \A k \in 0 .. number - 1 : SortedBetween(m, k * size, k * size + size - 1)}

Test(p, t) == [p |-> p, t |-> t]
MCTestLists ==
  LET a1 == Test(<<12, 16, 12, 8, 0, 0, 4>>, <<0, 0, 4, 8, 12, 12, 16>>)
      a2 == Test(<<39, 10, -1, -67, 0, -67>>, <<-67, -67, -1, 0, 10, 39>>)
      a3 == Test(<<2, 4, 2147483647, MinInt32, 10, 9, 5, 7, 3, -1>>,
                 <<MinInt32, -1, 2, 3, 4, 5, 7, 9, 10, 2147483647>>)
      bad == Test(<<2, 1>>, <<2, 1>>)
      odd == Test(<<2, 1>>, <<1, 1>>)
  IN  {<<a1, a2, a3>>, <<bad, a2, a3>>, <<a1, odd, a3>>, <<a1, a2, bad>>, <<a1, bad, odd>>}

\* ELF files of eleven bytes.
MCSegment(load, paddr, offset, filesz, memsz) ==
  [load |-> load, paddr |-> paddr, offset |-> offset, filesz |-> filesz, memsz |-> memsz]
MCElf(readable, magic, class, phdrs) ==
  [readable |-> readable, header |-> TRUE, magic |-> magic, class |-> class, table |-> TRUE,
   phdrs |-> phdrs, bytes |-> [k \in 1 .. 11 |-> k]]
MCElfs ==
  {MCElf(TRUE, TRUE, 32, <<MCSegment(TRUE, 0, 1, f1, m1), MCSegment(l2, p2, 6, f2, m2)>>) :
     f1 \in 0 .. 5, m1 \in 3 .. 5, l2 \in BOOLEAN, p2 \in {6, 8}, f2 \in {0, 2, 3, 6}, m2 \in {0, 3, 4, 6}}
  \cup {MCElf(FALSE, TRUE, 32, <<>>), MCElf(TRUE, FALSE, 32, <<>>), MCElf(TRUE, TRUE, 16, <<>>),
        MCElf(TRUE, TRUE, 64, <<>>)}

MCTasks ==
  [name : {"multiply"}, x : MCWords, y : MCWords]
  \cup [name : {"thuemorse"}, n : {128}]
  \cup [name : {"print_int", "putint"}, a : MCInts]
  \cup [name : {"print_string"}, bytes : {MCBytes}, s : 0 .. 11]
  \cup {[name |-> n, p |-> p, start |-> b[1], end |-> b[2]] :
          n \in {"quick_sort <", "quick_sort <=", "bubble_sort"}, p \in MCArrays, b \in MCBounds}
  \cup {[name |-> "merge", m |-> Doubled(m), len |-> 3] : m \in Runs(3, 2)}
  \cup {[name |-> "merge all", m |-> Doubled(m), number |-> 4, size |-> 2] : m \in RunsOf(4, 2)}
  \cup {[name |-> "merge all", m |-> Doubled(m), number |-> 8, size |-> 1] : m \in RunsOf(8, 1)}
  \cup {[name |-> "merge all", m |-> Doubled(m), number |-> 1, size |-> 3] : m \in RunsOf(1, 3)}
  \cup [name : {"mul", "matmul", "dotproduct"}]
  \cup [name : {"matmul2"}, a5 : {-8, 4, 120, 124, 4096}, a7 : {0, 6965}]
  \cup [name : {"dividesort"}, behind : {-1, 0, 9, 1000}]
  \cup [name : {"quicksort"}, arg : 0 .. 4, tests : MCTestLists]
  \cup [name : {"literal"}, of : DOMAIN Literals]
  \cup [name : {"elf2hex"}, elf : MCElfs, base : {0, 2}, length : {8, 16}]
  \cup [name : {"arrange_mem"}, elf : {elf \in MCElfs : open(elf)}, length : {16}]
  \cup [name : {"convert"}, bytes : {[k \in 1 .. n |-> k] : n \in 1 .. 7}, depth : 0 .. 5, offset : 0 .. 1]

-----------------------------------------------------------------------------
Scenario(program, slaves, size, words, old, v1, v2, goal, late, atOnce) ==
  [program |-> program, slaves |-> slaves, size |-> size, words |-> words, old |-> old,
   v1 |-> v1, v2 |-> v2, goal |-> goal, late |-> late, atOnce |-> atOnce]

Ones128 == [k \in 1 .. 128 |-> 1]
OneZero == [k \in 1 .. 16 |-> k % 2]

\* The shapes of the source.
RealScenarios ==
  {Scenario("dotproduct_9c", 8, 16, 512, 0, Upto(1, 128), Ones128, 8256, FALSE, TRUE),
   Scenario("dotproduct_5c", 4, 4, 512, 0, Upto(1, 16), OneZero, 64, FALSE, TRUE),
   Scenario("dotproduct_9c_hw", 8, 2, 512, 0, Upto(1, 16), OneZero, 64, FALSE, TRUE),
   Scenario("sync_test", 8, 16, 512, 0, Upto(1, 16), <<>>, 0, FALSE, TRUE)}
  \cup {Scenario("dividesort_9c", 8, 16, 512, old, SortThis, <<>>, 0, FALSE, TRUE) : old \in {0, -21846}}

\* Two slaves, blocks of two words, every order.
SmallScenarios ==
  {Scenario(program, 2, 2, 8, 0, <<1, 2, 3, 4>>, <<1, 1, 0, 1>>, 7, FALSE, FALSE) :
     program \in {"dotproduct_9c", "dotproduct_5c", "dotproduct_9c_hw"}}
  \cup {Scenario("sync_test", 2, 2, 8, 0, <<3, 4>>, <<>>, 0, TRUE, FALSE)}
  \cup {Scenario("dividesort_9c", 2, 2, 8, old, <<2, 1, 1, 0>>, <<>>, 0, TRUE, FALSE) :
           old \in {0, -21846}}

MCScenarios == RealScenarios \cup SmallScenarios

NoScenario == Scenario("none", -1, 0, 0, 0, <<>>, <<>>, 0, FALSE, FALSE)

Idle == /\ scenario = NoScenario
        /\ stage = <<>> /\ round = <<>> /\ scratch = <<>> /\ queue = <<>>
        /\ flight = <<>> /\ report = <<>> /\ finished = <<>>

NoTask == [name |-> "none"]

\* The printing of the source, and one that takes the pointers of the queue
\* past their end.
MCPrintings == {uarttest, dotproduct_hw_prints,
                <<SetLed(0)>> \o Characters(1, 20) \o <<SetLed(1)>>}

NoPrinting == /\ printing = <<>> /\ next = 1 /\ room = FALSE /\ awaited = <<>>
              /\ busReqs = <<>> /\ busResps = <<>> /\ mmioreq = <<>>
              /\ master = [state |-> "IDLE", reg |-> 0, data |-> 0]
              /\ wires = Quiet /\ cmd = [en |-> FALSE, reg |-> 0, write |-> TRUE]
              /\ led = 0 /\ tx_queue = <<>> /\ tx_old_ptr = 0 /\ tx_new_ptr = 0
              /\ uart = [state |-> "IDLE", tx_started |-> FALSE] /\ line = <<>>

-----------------------------------------------------------------------------
Garbage(state, bit_cnt, baud_cnt, reg, bit) ==
  [state |-> state, bit_cnt |-> bit_cnt, baud_cnt |-> baud_cnt, reg |-> reg, bit |-> bit]

Talk(sends, types, path, opens, garbage) ==
  [sends |-> sends, types |-> types, path |-> path, opens |-> opens, garbage |-> garbage]

\* Both ends of a byte's range, a new line and bits that alternate; ten bytes
\* for a queue of eight.
MCTalks ==
  LET clean == Garbage("IDLE", 0, 0, 511, 1)
      mid   == Garbage("TRAN", 9, 8191, 170, 0)
      last  == Garbage("TRAN", 10, 3, 0, 0)
      sent  == <<255, 0, 10, 85>>
  IN  {Talk(sent, <<>>, "", TRUE, clean), Talk(sent, <<>>, "-", TRUE, mid),
       Talk(sent, <<>>, "uart0.log", TRUE, last), Talk(sent, <<>>, "uart0.log", FALSE, mid)}
      \cup {Talk(<<>>, <<0, 255, 170, 1, 2, 4, 8, 16, 32, 64>>, "", TRUE, g) : g \in {clean, mid, last}}

NoTalk == /\ talk = Talk(<<>>, <<>>, "", FALSE, <<>>)
          /\ time = 0 /\ toSend = <<>> /\ tx = <<>> /\ rx = <<>> /\ rx_queue = <<>>
          /\ toRead = <<>> /\ txdpi = <<>> /\ rxdpi = <<>>
          /\ shown = <<>> /\ unread = 0 /\ status = "off"
          /\ buffered = <<>> /\ logged = <<>> /\ incomplete = FALSE

\* From the program's store to the terminal's screen characters are neither
\* lost nor changed, and each answer goes to the access it belongs to.  The log
\* lacks only what its file did not take.
CharactersRight == SerialRight /\ TerminalRight

-----------------------------------------------------------------------------
NoProgram == task = NoTask /\ outcome = NotRun

Init == \/ TaskInit /\ Idle /\ NoPrinting /\ NoTalk
        \/ BspInit /\ NoPrinting /\ NoTalk /\ NoProgram
        \/ SerialInit /\ Idle /\ NoTalk /\ NoProgram
        \/ TerminalInit /\ Idle /\ NoPrinting /\ NoProgram

Next == \/ TaskNext /\ UNCHANGED <<bspVars, serialVars, terminalVars>>
        \/ BspNext /\ UNCHANGED <<taskVars, serialVars, terminalVars>>
        \/ SerialNext /\ UNCHANGED <<taskVars, bspVars, terminalVars>>
        \/ TerminalNext /\ UNCHANGED <<taskVars, bspVars, serialVars>>

Spec == /\ Init /\ [][Next]_<<taskVars, bspVars, serialVars, terminalVars>>
        /\ BspFairness /\ SerialFairness
=============================================================================
