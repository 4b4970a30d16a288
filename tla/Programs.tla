------------------------------- MODULE Programs -------------------------------
(***************************************************************************)
(* The programs of sw/progs/src that run on one core, and the routines of  *)
(* Words, Sorting and ImageTools, run on inputs.  A program shares nothing *)
(* and nobody watches it at work, so a run is one step from a task to its  *)
(* outcome: of a program, what it printed and the codes it gave to exit.   *)
(***************************************************************************)
EXTENDS Words, Sorting, ImageTools

CONSTANTS Tasks,      \* the tasks to run: records with a field "name"
          BufferBytes \* size of the buffer ElfLoader is given

VARIABLES task, outcome

taskVars == <<task, outcome>>

NotRun == [name |-> "not run"]

Printed(out) == [printed |-> out, exits |-> <<>>]

\* init.S: whatever main returns is forgotten, and exit is called with 0.
Started(main) == [main EXCEPT !.exits = Append(@, 0)]

-----------------------------------------------------------------------------
(* Programs that check themselves.                                         *)

mul == IF multiply(2, 3) = 6 THEN [printed |-> <<79, 107>>, exits |-> <<0>>]
       ELSE [printed |-> <<"Jello">>, exits |-> <<1>>]

\* The matrices both multiplications start from.
MatrixA(i, j) == i
MatrixB(i, j) == i + j

product(size) ==
  [i \in 0 .. size - 1, j \in 0 .. size - 1 |->
     FoldLeft(LAMBDA sum, k : ToWord(sum + multiply(MatrixA(i, k), MatrixB(k, j))),
              0, Upto(0, size - 1))]

\* The table of 256 numbers in matmul.c.
expected16 == [i \in 0 .. 15, j \in 0 .. 15 |-> i * (120 + 16 * j)]

\* The table of 16 numbers in matmul2.c.
expected4 ==
  LET rows == <<<<0, 0, 0, 0>>, <<6, 10, 14, 18>>, <<12, 20, 28, 36>>, <<18, 30, 42, 54>>>>
  IN  [i \in 0 .. 3, j \in 0 .. 3 |-> rows[i + 1][j + 1]]

\* Row by row.
Cells(size) == [k \in 1 .. size * size |-> <<(k - 1) \div size, (k - 1) % size>>]

arrEquals(a, b) == a = b

matmul == [printed |-> <<>>, exits |-> IF arrEquals(expected16, product(16)) THEN <<0>> ELSE <<1>>]

\* matmul2.c's comparison prints as far as it gets.
arrEqualsPrints(a, b, size) ==
  LET same == [k \in DOMAIN Cells(size) |-> \A i \in 1 .. k - 1 : a[Cells(size)[i]] = b[Cells(size)[i]]]
  IN  [k \in 1 .. Cardinality({i \in DOMAIN same : same[i]}) |-> a[Cells(size)[k]] + 33]

\* Before that it stores, drives the lines out of a cache, and loads.  The base
\* register of two of the stores is whatever the compiler has left in it, the
\* first one's value too.
Stores(a5, a7) == <<<<a5 + 1412, a7>>, <<a5 + 1416, 12>>, <<1536, 12>>, <<1408, 13>>>>

Loaded(stores, addr) == stores[Max({k \in DOMAIN stores : stores[k][1] = addr})][2]

\* The codes given to exit before the multiplication.
forwardingTests(a5, a7) ==
  LET stores == Stores(a5, a7)
      load(addr) == Loaded(stores, addr)
  IN  (IF load(a5 + 1416) + 4 = 6969 THEN <<1>> ELSE <<>>)
        \o (IF load(1536) + load(1408) # 25 THEN <<1>> ELSE <<>>)

matmul2(a5, a7) ==
  LET c == product(4)
  IN  [printed |-> <<97>> \o [k \in DOMAIN Cells(4) |-> (c[Cells(4)[k]] % 256) + 33]
                     \o arrEqualsPrints(expected4, c, 4),
       exits |-> Append(forwardingTests(a5, a7), IF arrEquals(expected4, c) THEN 0 ELSE 1)]

\* dotproduct.c: the numbers 1 to 128 and 128 ones.
dotproduct ==
  LET sum == FoldLeft(LAMBDA acc, v : ToWord(acc + multiply(v, 1)), 0, Upto(1, 128))
  IN  IF sum = 8256 THEN [printed |-> <<"Result is: ", "True\n">>, exits |-> <<0>>]
      ELSE [printed |-> <<"Result is: ", "False\n">>, exits |-> <<1>>]

-----------------------------------------------------------------------------
(* Programs that sort.                                                     *)

\* 128 digits: the same 32 four times.
SortThis ==
  LET quarter == <<5, 8, 1, 2, 2, 0, 6, 9, 9, 5, 4, 7, 2, 1, 7, 3,
                   1, 2, 1, 4, 4, 7, 5, 5, 5, 3, 8, 9, 1, 3, 3, 7>>
  IN  quarter \o quarter \o quarter \o quarter

\* dividesort.c, with the word that lies behind the array (which begins at 1
\* here): end is inclusive, and main gives the size for it.
dividesort(behind) ==
  LET sorted == quick_sort(Append(SortThis, behind), 1, 129, FALSE)
  IN  Printed(<<"final sorted: ">> \o [k \in 1 .. 128 |-> 48 + sorted[k]])

\* Wrong variant: one word less is sorted.
sortShort(p, start, end) == quick_sort(p, start, end - 1, TRUE)

\* sort(p, start, end) of the RISC-V build is quicksort.S, the same algorithm.
sort(p, start, end) == quick_sort(p, start, end, TRUE)

Shifted(s) == [i \in 0 .. Len(s) - 1 |-> s[i + 1]]

PassesTest(test) ==
  LET p == sort(Shifted(test.p), 0, Len(test.p) - 1)
  IN  \A i \in DOMAIN p : p[i] = Shifted(test.t)[i]

\* main of risc_v_tests/quicksort: one of the tests, or all of them when arg
\* names none, as far as the first that fails.
sortmain(arg, tests) ==
  LET runOnce == arg \in DOMAIN tests
      asked   == IF runOnce THEN <<arg>> ELSE Upto(1, Len(tests))
      passed  == {k \in DOMAIN asked : \A i \in 1 .. k : PassesTest(tests[asked[i]])}
      reports == [k \in 1 .. Cardinality(passed) |-> <<"Passed test ", asked[k]>>]
  IN  IF passed # DOMAIN asked
      THEN [printed |-> Append(reports, <<"Failed test ", asked[Len(reports) + 1]>>), exits |-> <<1>>]
      ELSE [printed |-> IF runOnce THEN reports ELSE Append(reports, <<"Passed all tests">>),
            exits |-> <<0>>]

-----------------------------------------------------------------------------
(* A loop that prints the first n characters of a literal: hello.c,        *)
(* thelie.c, uarttest.c and the end of mul.c.                              *)

PrintLiteral(length, n) ==
  Printed([k \in 1 .. n |-> CASE k <= length -> "character" [] k = length + 1 -> "NUL"
                              [] OTHER -> "outside"])

Literals == [hello |-> <<14, 14>>, mul |-> <<14, 14>>, uarttest |-> <<11, 11>>, thelie |-> <<1433, 1434>>]

-----------------------------------------------------------------------------
(* Tasks and their outcomes.                                               *)

\* A task done: its outcome, by name.
Does(name, Outcome(_)) ==
  /\ task.name = name
  /\ outcome = NotRun
  /\ outcome' = [name |-> name, value |-> Outcome(task)]
  /\ UNCHANGED task

TaskInit == task \in Tasks /\ outcome = NotRun

DoMultiply   == Does("multiply", LAMBDA t : multiply(t.x, t.y))
DoThuemorse  == Does("thuemorse", LAMBDA t : thuemorse(t.n))
DoPrintInt   == Does("print_int", LAMBDA t : print_int(t.a))
DoPutint     == Does("putint", LAMBDA t : putint(t.a))
DoPrintString == Does("print_string", LAMBDA t : print_string(t.bytes, t.s))
DoQuickSort  == \/ Does("quick_sort <=", LAMBDA t : quick_sort(t.p, t.start, t.end, TRUE))
                \/ Does("quick_sort <", LAMBDA t : quick_sort(t.p, t.start, t.end, FALSE))
DoBubbleSort == Does("bubble_sort", LAMBDA t : bubble_sort(t.p, t.start, t.end))
DoMerge      == Does("merge", LAMBDA t : merge(t.m, 0, t.len, 2 * t.len, t.len))
DoMergeAll   == Does("merge all", LAMBDA t : Merged(t.m, t.number, t.size))
DoProgram    == \/ Does("mul", LAMBDA t : Started(mul))
                \/ Does("matmul", LAMBDA t : Started(matmul))
                \/ Does("matmul2", LAMBDA t : Started(matmul2(t.a5, t.a7)))
                \/ Does("dotproduct", LAMBDA t : Started(dotproduct))
                \/ Does("dividesort", LAMBDA t : Started(dividesort(t.behind)))
                \/ Does("quicksort", LAMBDA t : sortmain(t.arg, t.tests))
DoLiteral    == Does("literal", LAMBDA t : PrintLiteral(Literals[t.of][1], Literals[t.of][2]))
DoImage      == \/ Does("elf2hex", LAMBDA t : elf2hex(t.elf, t.base, t.length, WordBytes))
                \/ Does("arrange_mem", LAMBDA t : arrange_mem(mem_mem(elf2hexWords(t.elf, 0, t.length))))
                \/ Does("convert", LAMBDA t : convert(t.bytes, t.depth, WordBytes, t.offset, 1))

TaskNext == \/ DoMultiply \/ DoThuemorse \/ DoPrintInt \/ DoPutint \/ DoPrintString
            \/ DoQuickSort \/ DoBubbleSort \/ DoMerge \/ DoMergeAll
            \/ DoProgram \/ DoLiteral \/ DoImage

Done(name) == task.name = name /\ outcome # NotRun

-----------------------------------------------------------------------------
(* What the outcomes should be.                                            *)

\* Shift-and-add gives the product of any two words as the missing MUL would,
\* the sign bit and the overflow included; thuemorse prints the parity of the
\* ones of 0, 1, 2, ...
Ones(x) == Cardinality({i \in 0 .. Width - 1 : BitOf(x, i) = 1})

ArithmeticIsRight ==
  /\ Done("multiply") => outcome.value = ToWord(task.x * task.y)
  /\ Done("thuemorse") => outcome.value = [k \in 1 .. task.n |-> 48 + (Ones(k - 1) % 2)] \o <<10>>

\* What print_int and putint print is read back as the number they were given
\* (most positive and most negative one included), without leading zeros in
\* decimal; print_string prints from any alignment what is there before the
\* first NUL, though it loads whole words.
Negative(digits) == FoldLeft(LAMBDA acc, d : 10 * acc - (d - 48), 0, digits)

IsDigits(text) == text # <<>> /\ Range(text) \subseteq 48 .. 57

Denotes(text, a) ==
  IF text[1] = 45 THEN a < 0 /\ IsDigits(Tail(text)) /\ text[2] # 48 /\ Negative(Tail(text)) = a
  ELSE a >= 0 /\ IsDigits(text) /\ (text[1] = 48 => Len(text) = 1) /\ Negative(text) = -a

Half(digits) == FoldLeft(LAMBDA acc, d : 16 * acc + d, 0, digits)

TextDenotes ==
  /\ Done("print_int") => Denotes(outcome.value, task.a)
  /\ Done("putint") => /\ Half(SubSeq(outcome.value, 1, 4)) = (task.a \div 2^16) % 2^16
                       /\ Half(SubSeq(outcome.value, 5, 8)) = task.a % 2^16
  /\ Done("print_string") =>
       LET end == CHOOSE e \in DOMAIN task.bytes :
                    e >= task.s /\ task.bytes[e] = 0 /\ \A i \in task.s .. e - 1 : task.bytes[i] # 0
       IN  outcome.value = [k \in 1 .. end - task.s |-> task.bytes[task.s + k - 1]]

\* quick_sort, with either comparison, sorts from start to end and the bubble
\* sort that may be compiled in its place from start to before end; both move
\* words within these bounds and touch nothing outside, on which core 0's
\* scratch memory and the words next to the arrays depend.
SortsInPlace ==
  /\ Done("quick_sort <=") \/ Done("quick_sort <") =>
       /\ SortedBetween(outcome.value, task.start, task.end)
       /\ RearrangedWithin(task.p, outcome.value, task.start .. task.end)
  /\ Done("bubble_sort") =>
       /\ SortedBetween(outcome.value, task.start, task.end - 1)
       /\ RearrangedWithin(task.p, outcome.value, task.start .. task.end - 1)

\* Two sorted runs are merged into one with all their words, and remain as
\* they were; the rounds that go to and fro between the halves of the memory
\* end with one sorted run, and it is the one that is printed.
MergesRuns ==
  /\ Done("merge") =>
       LET from == 0 .. 2 * task.len - 1
           to   == 2 * task.len .. 4 * task.len - 1
       IN  /\ SortedBetween(outcome.value, 2 * task.len, 4 * task.len - 1)
           /\ \A i \in from : outcome.value[i] = task.m[i]
           /\ \A i \in from : Occurrences(outcome.value, to, task.m[i]) = Occurrences(task.m, from, task.m[i])
  /\ Done("merge all") =>
       LET all == DOMAIN outcome.value
       IN  /\ SortedBetween(outcome.value, 1, Len(outcome.value))
           /\ \A i \in all : Occurrences(outcome.value, all, outcome.value[i])
                              = Occurrences(task.m, 0 .. Len(outcome.value) - 1, outcome.value[i])

\* The programs that check their own result find it right: the first code
\* they give to exit, the one the simulation reports, is 0.  For matmul this
\* says that the 256 numbers of its table are the product.
SelfTestsPass ==
  /\ \A name \in {"mul", "matmul", "matmul2", "dotproduct"} :
       Done(name) => outcome.value.exits[1] = 0
  /\ Done("dotproduct") => outcome.value.printed = <<"Result is: ", "True\n">>
  /\ Done("matmul2") => Len(outcome.value.printed) = 1 + 2 * 16

\* dividesort.c sorts one word too many, the one behind its array: the output
\* is right nevertheless as long as that word is not less than the digits (it
\* is text in the images the linker script makes).
ExtraWordStaysOut ==
  Done("dividesort") /\ task.behind >= 9 =>
    outcome.value.printed = <<"final sorted: ">>
      \o [k \in 1 .. 128 |-> 48 + KthOf(SortThis, k)]

\* The test program of quicksort reports each test it ran, in order, up to
\* the first whose expectation is not the sorted array, and its exit code says
\* whether there was one; with an argument that names no test it runs all.
IsSorting(test) == /\ SortedBetween(test.t, 1, Len(test.t))
                   /\ RearrangedWithin(test.p, test.t, DOMAIN test.p)

TestMainReports ==
  Done("quicksort") =>
    LET one  == task.arg \in DOMAIN task.tests
        good == {k \in DOMAIN task.tests : IsSorting(task.tests[k])}
    IN  /\ (outcome.value.exits = <<0>>) <=> (IF one THEN task.arg \in good ELSE good = DOMAIN task.tests)
        /\ \A k \in DOMAIN outcome.value.printed :
             outcome.value.printed[k][1] = "Failed test " =>
               /\ k = Len(outcome.value.printed)
               /\ outcome.value.printed[k][2] \notin good
               /\ ~one => 1 .. outcome.value.printed[k][2] - 1 \subseteq good

\* The loops that print a literal print all of it and, in thelie.c alone, the
\* NUL behind it, but nothing from outside: their bounds are numbers of their own.
LiteralsPrinted ==
  Done("literal") =>
    /\ outcome.value.printed[Literals[task.of][1]] = "character"
    /\ \A k \in DOMAIN outcome.value.printed :
         /\ outcome.value.printed[k] # "outside"
         /\ outcome.value.printed[k] = "NUL" => task.of = "thelie"

\* Where the sections begin at words, and no word is part data, part zeros,
\* as the linker script has it, the words elf2hex writes load the memory with
\* what ElfLoader, which works byte by byte, puts there; and elf2hex fails
\* when ElfLoader does.
Aligned(elf, bytes) == \A s \in Range(Sections(elf)) : s.base % bytes = 0

WordWise(elf) == \A s \in Range(Sections(elf)) :
                   s.data_size % WordBytes = 0 \/ s.data_size = s.section_size

BlankWord == [k \in 1 .. WordBytes |-> Unknown]

\* The addresses of the sections.
Covered(elf) == UNION {s.base .. s.base + s.section_size - 1 : s \in Range(Sections(elf))}

ImageLoads ==
  Done("elf2hex") =>
    LET loaded == load_elf(task.elf, BufferBytes)
        m == BytesOfWords(Load(mem_mem(outcome.value), task.length \div WordBytes, BlankWord))
    IN  IF loaded = Failed THEN outcome.value = Failed
        ELSE Aligned(task.elf, WordBytes) /\ WordWise(task.elf) =>
               \A a \in Covered(task.elf) :
                 a >= task.base /\ a < task.base + task.length => m[a - task.base] = loaded[a]

\* Where the sections begin at lines, the lines arrange_mem makes of the words
\* load the memory behind the caches with the same bytes.
BlankLine == [k \in 1 .. LineWords |-> BlankWord]

LinesLoad ==
  Done("arrange_mem") /\ Aligned(task.elf, WordBytes * LineWords) /\ WordWise(task.elf) =>
    LET m == BytesOfLines(Load(outcome.value, task.length \div (WordBytes * LineWords), BlankLine))
    IN  \A a \in Covered(task.elf) : a < task.length => m[a] = load_elf(task.elf, BufferBytes)[a]

\* Without an offset the MIF file holds the bytes of the binary file in order,
\* then zeros as far as its depth.
MifLoads ==
  Done("convert") /\ task.offset = 0 =>
    /\ task.depth * WordBytes >= Len(task.bytes) /\ task.depth > 0 =>
         DOMAIN outcome.value = 0 .. task.depth - 1
    /\ \A a \in 0 .. WordBytes * Cardinality(DOMAIN outcome.value) - 1 :
         outcome.value[a \div WordBytes][(a % WordBytes) + 1]
           = IF a < Len(task.bytes) THEN task.bytes[a + 1] ELSE Zero

\* Each routine does what its name says: arithmetic, printing, sorting and
\* merging, on every input of Tasks.
RoutinesRight == ArithmeticIsRight /\ TextDenotes /\ SortsInPlace /\ MergesRuns

\* The programs on one core find themselves right, and are.
ProgramsRight == SelfTestsPass /\ ExtraWordStaysOut /\ TestMainReports /\ LiteralsPrinted

\* Every image the tools make loads its memory as the loader would.
ImagesRight == ImageLoads /\ LinesLoad /\ MifLoads

=============================================================================
