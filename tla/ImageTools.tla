------------------------------ MODULE ImageTools ------------------------------
(***************************************************************************)
(* From a program's ELF file to the contents of the memories: ElfFile and  *)
(* elf2hex write a text of words and @-directives, of which test.sh drops  *)
(* the last line; arrange_mem.py makes of it the lines the caches' memory  *)
(* is loaded from, and convert.py a MIF file for the FPGA.  ElfLoader puts *)
(* the same ELF file straight into a buffer.                               *)
(*                                                                         *)
(* A byte is any value; a word is the sequence of its bytes, the lowest    *)
(* address first, so that hexadecimal text needs no modelling.  A text is  *)
(* a sequence of words and directives.                                     *)
(***************************************************************************)
EXTENDS Integers, FiniteSets, SequencesExt

CONSTANTS WordBytes,     \* bytes of a word (4)
          LineWords,     \* words of a line, and the radix of an address (16)
          Zero,          \* the byte 0
          PadByte,       \* the byte 0xAA
          Unknown        \* a byte nobody has written

At(n)      == [at |-> n]
Item(w)    == [word |-> w]
IsAt(item) == "at" \in DOMAIN item

\* No text, no memory: every text has at least its last directive.
Failed == <<>>

-----------------------------------------------------------------------------
(* ElfFile.cpp and ElfLoader.cpp.  An ELF file: whether it can be read and *)
(* holds a header, its magic number and class, whether it is long enough   *)
(* for its program headers, those headers, and its bytes.                  *)

Opens(elf) == elf.readable /\ elf.header /\ elf.magic /\ elf.class \in {32, 64} /\ elf.table

Loadable(ph) == ph.load /\ ph.memsz > 0

FitsFile(elf, ph) == /\ ph.memsz >= ph.filesz
                     /\ ph.filesz > 0 => ph.offset + ph.filesz <= Len(elf.bytes)

\* The byte of the file at an offset; elf2hex may look past its end.
FileByte(elf, offset) == IF offset < Len(elf.bytes) THEN elf.bytes[offset + 1] ELSE Unknown

Section(ph) == [base |-> ph.paddr, section_size |-> ph.memsz,
                data_size |-> ph.filesz, data |-> ph.offset]

Sections(elf) == LET loadable == SelectSeq(elf.phdrs, Loadable)
                 IN  [k \in DOMAIN loadable |-> Section(loadable[k])]

AllFit(elf) == \A ph \in Range(elf.phdrs) : Loadable(ph) => FitsFile(elf, ph)

\* ElfFile::open.
open(elf) == Opens(elf) /\ AllFit(elf)

\* load_elf into a buffer of size bytes whose contents are unknown.
FitsBuffer(ph, size) == ph.paddr + ph.memsz <= size

LoadSegment(elf, mem, s) ==
  [a \in DOMAIN mem |->
     CASE a < s.base \/ a >= s.base + s.section_size -> mem[a]
       [] a >= s.base /\ a < s.base + s.data_size -> FileByte(elf, s.data + a - s.base)
       [] OTHER -> Zero]

load_elf(elf, size) ==
  IF /\ open(elf)
     /\ \A ph \in Range(elf.phdrs) : Loadable(ph) => FitsBuffer(ph, size)
  THEN FoldLeft(LAMBDA mem, s : LoadSegment(elf, mem, s),
                [a \in 0 .. size - 1 |-> Unknown], Sections(elf))
  ELSE Failed

-----------------------------------------------------------------------------
(* elf2hex.cpp: the bytes from base to base + length, in words of width.   *)

PowerOfTwo(n) == \E k \in 0 .. n : n = 2^k

\* What of a section comes before the first byte asked for.
SectionOffset(s, base) == IF s.base < base THEN base - s.base ELSE 0
HexAddr(s, base) == IF s.base < base THEN 0 ELSE s.base - base

\* Wrong variant: only what is in the file is written.
SectionEndNoZeros(s, base, length) ==
  IF s.data_size < base + length - s.base THEN s.data_size ELSE base + length - s.base

\* Both loops stop at the end of the section or of what is asked for.
SectionEnd(s, base, length) ==
  IF s.section_size < base + length - s.base THEN s.section_size ELSE base + length - s.base

\* The word at an offset of a section: from the file as long as the section's
\* part of the file has a byte of it, else zeros.
WordAt(elf, s, offset, width) ==
  [k \in 1 .. width |-> IF offset < s.data_size THEN FileByte(elf, s.data + offset + k - 1)
                                                 ELSE Zero]

SectionText(elf, s, base, length, width) ==
  LET first == SectionOffset(s, base)
      left  == SectionEnd(s, base, length) - first
      words == IF left > 0 THEN (left + width - 1) \div width ELSE 0
  IN  <<At(HexAddr(s, base) \div width)>>
        \o [k \in 1 .. words |-> Item(WordAt(elf, s, first + (k - 1) * width, width))]

elf2hex(elf, base, length, width) ==
  IF ~open(elf) \/ ~PowerOfTwo(width) THEN Failed
  ELSE FlattenSeq([k \in DOMAIN Sections(elf) |->
         IF base + length < Sections(elf)[k].base THEN <<>>
         ELSE SectionText(elf, Sections(elf)[k], base, length, width)])
       \o <<At(length \div width)>>

\* The copy of the program that sw/progs uses knows words only.
elf2hexWords(elf, base, length) == elf2hex(elf, base, length, WordBytes)

\* test.sh: head -n -1, without the directive that only says where memory ends.
mem_mem(text) == Front(text)

-----------------------------------------------------------------------------
(* arrange_mem.py.                                                         *)

PadWord == [k \in 1 .. WordBytes |-> PadByte]

\* to_string: a line, padded at the high end.
to_string(words) == Item([k \in 1 .. LineWords |-> IF k <= Len(words) THEN words[k] ELSE PadWord])

\* Wrong variant: a started line is dropped at a directive.
ArrangeAtDropping(s, item) ==
  [out |-> Append(s.out, At(item.at \div LineWords)), current_line |-> <<>>]

\* At a directive the line that was begun is written, and the address loses
\* its last digit: of 16 words in a line only the first can be named.
ArrangeAt(s, item) ==
  [out |-> (IF s.current_line = <<>> THEN s.out ELSE Append(s.out, to_string(s.current_line)))
             \o <<At(item.at \div LineWords)>>,
   current_line |-> <<>>]

ArrangeWord(s, word) ==
  IF Len(s.current_line) + 1 = LineWords
  THEN [out |-> Append(s.out, to_string(Append(s.current_line, word))), current_line |-> <<>>]
  ELSE [s EXCEPT !.current_line = Append(@, word)]

arrange_mem(text) ==
  LET s == FoldLeft(LAMBDA t, item : IF IsAt(item) THEN ArrangeAt(t, item) ELSE ArrangeWord(t, item.word),
                    [out |-> <<>>, current_line |-> <<>>], text)
  IN  IF s.current_line = <<>> THEN s.out ELSE Append(s.out, to_string(s.current_line))

-----------------------------------------------------------------------------
(* convert.py: the words of a MIF file of depth words (0: as many as there *)
(* are bytes; if there are none, it stops at the logarithm of 0).          *)

\* bytes[start_offset::increment] of what follows a seek to start_offset.
Picked(bytes, offset, increment) ==
  LET from == 2 * offset
      n == IF Len(bytes) > from THEN (Len(bytes) - from + increment - 1) \div increment ELSE 0
  IN  [k \in 1 .. n |-> bytes[from + (k - 1) * increment + 1]]

\* Wrong variant: the bytes of a word are not reversed.
MifWordBigEndian(bytes, w, size) ==
  LET n == IF Len(bytes) - w * size < size THEN Len(bytes) - w * size ELSE size
  IN  [k \in 1 .. size |-> IF k > size - n THEN bytes[w * size + size - k + 1] ELSE Zero]

\* The value of a word with its bytes reversed: the first is the lowest.
MifWord(bytes, w, size) ==
  [k \in 1 .. size |-> IF w * size + k <= Len(bytes) THEN bytes[w * size + k] ELSE Zero]

convert(file, depth, size, offset, increment) ==
  LET bytes == Picked(file, offset, increment)
      words == (Len(bytes) + size - 1) \div size
      asked == IF depth = 0 THEN Len(bytes) ELSE depth
      all   == IF words < asked THEN asked ELSE words
  IN  IF asked = 0 THEN Failed ELSE [w \in 0 .. all - 1 |-> MifWord(bytes, w, size)]

-----------------------------------------------------------------------------
(* Loading a text into a memory of Size items ($readmemh, external).       *)

Load(text, Size, blank) ==
  FoldLeft(LAMBDA s, item :
             IF IsAt(item) THEN [s EXCEPT !.next = item.at]
             ELSE [m |-> IF s.next < Size THEN [s.m EXCEPT ![s.next] = item.word] ELSE s.m,
                   next |-> s.next + 1],
           [m |-> [a \in 0 .. Size - 1 |-> blank], next |-> 0], text).m

\* The bytes of a memory of words, and of a memory of lines.
BytesOfWords(m) == [a \in 0 .. WordBytes * Cardinality(DOMAIN m) - 1 |->
                      m[a \div WordBytes][(a % WordBytes) + 1]]
BytesOfLines(m) == [a \in 0 .. WordBytes * LineWords * Cardinality(DOMAIN m) - 1 |->
                      m[a \div (WordBytes * LineWords)][((a \div WordBytes) % LineWords) + 1]
                       [(a % WordBytes) + 1]]

=============================================================================
