-------------------------------- MODULE Words --------------------------------
(***************************************************************************)
(* The arithmetic the test programs do by hand: the cores are RV32I, which *)
(* has no multiplication and no division, and loads and stores only words. *)
(*                                                                         *)
(* A word is a signed number of Width bits (32 in the source; less under   *)
(* TLC, whose own integers have 32).  A character is its code.             *)
(***************************************************************************)
EXTENDS Integers, SequencesExt

CONSTANT Width

ASSUME WidthAssumption == Width \in Nat \ {0}

Word == -(2^(Width - 1)) .. 2^(Width - 1) - 1

\* C's int arithmetic as the core does it: modulo 2^Width.
ToWord(n) == ((n + 2^(Width - 1)) % 2^Width) - 2^(Width - 1)

\* from, from + 1, ..., to: the values of a counting loop.
Upto(from, to) == [k \in 1 .. to - from + 1 |-> from + k - 1]

-----------------------------------------------------------------------------
\* (y >> i) & 1, an arithmetic shift.
BitOf(y, i) == (y \div 2^i) % 2

\* Wrong variants: the loop leaves the sign bit out; the sum is not shifted.
multiplyShort(x, y) ==
  FoldLeft(LAMBDA ret, i : IF BitOf(y, i) = 1 THEN ToWord(ret + ToWord(x * 2^i)) ELSE ret,
           0, Upto(0, Width - 2))
multiplyUnshifted(x, y) ==
  FoldLeft(LAMBDA ret, i : IF BitOf(y, i) = 1 THEN ToWord(ret + x) ELSE ret,
           0, Upto(0, Width - 1))

\* Shift and add, one bit of y after the other.
multiply(x, y) ==
  FoldLeft(LAMBDA ret, i : IF BitOf(y, i) = 1 THEN ToWord(ret + ToWord(x * 2^i)) ELSE ret,
           0, Upto(0, Width - 1))

\* thuemorse.c: the parity of the ones of a number, which is not negative.
compter_unsFrom[x \in Nat, res \in {0, 1}] ==
  IF x = 0 THEN res ELSE compter_unsFrom[x \div 2, (res + (x % 2)) % 2]

compter_uns(x) == compter_unsFrom[x, 0]

\* What thuemorse(n) prints.
thuemorse(n) == [k \in 1 .. n |-> 48 + compter_uns(k - 1)] \o <<10>>

-----------------------------------------------------------------------------
(* Printing.                                                               *)

LIMIT == 10
MinInt32 == -2147483647 - 1
Bases == [j \in 0 .. LIMIT - 1 |-> 10^j]

\* Wrong variant: the largest base is not looked at.
FirstBaseShort(a) == CHOOSE j \in 0 .. LIMIT - 2 :
                       (a >= Bases[j] \/ j = 0) /\ \A i \in j + 1 .. LIMIT - 2 : a < Bases[i]

\* while (a < bases[j]) j--
FirstBase(a) == CHOOSE j \in 0 .. LIMIT - 1 :
                  a >= Bases[j] /\ \A i \in j + 1 .. LIMIT - 1 : a < Bases[i]

\* Repeated subtraction of a base leaves the remainder and counts the quotient.
Digits(a) ==
  FoldLeft(LAMBDA s, j : [a |-> s.a % Bases[j], out |-> Append(s.out, 48 + s.a \div Bases[j])],
           [a |-> a, out |-> <<>>], Reverse(Upto(0, FirstBase(a)))).out

\* main.c of quicksort, a of 32 bits: the smallest number has no negative.
print_int(a) ==
  CASE a = 0 -> <<48>>
    [] a = MinInt32 -> <<45, 50, 49, 52, 55, 52, 56, 51, 54, 52, 56>>
    [] a < 0 /\ a # MinInt32 -> <<45>> \o Digits(-a)
    [] OTHER -> Digits(a)

\* 0xF & (a >> (32 - (i << 2)))
Nibble(a, i) == (a \div 2^(32 - 4 * i)) % 16

\* dotproduct.c, a of 32 bits: eight hexadecimal digits, as their values.
putint(a) == [k \in 1 .. 8 |-> Nibble(a, k)]

\* The word of a memory of bytes at word index w, and a byte of it.
LittleEndian(bytes, w) == bytes[4 * w] + bytes[4 * w + 1] * 2^8
                            + bytes[4 * w + 2] * 2^16 + bytes[4 * w + 3] * 2^24
ByteOf(word, offset) == (word \div 2^(8 * offset)) % 2^8

NextPlace(at) == IF at.offset = 3 THEN [word |-> at.word + 1, offset |-> 0]
                 ELSE [at EXCEPT !.offset = @ + 1]

\* print_string of main.c: characters by word loads, from any alignment.
RECURSIVE PrintFrom(_, _)
PrintFrom(bytes, at) ==
  LET cur_char == ByteOf(LittleEndian(bytes, at.word), at.offset)
  IN  IF cur_char = 0 THEN <<>> ELSE <<cur_char>> \o PrintFrom(bytes, NextPlace(at))

print_string(bytes, s) == PrintFrom(bytes, [word |-> s \div 4, offset |-> s % 4])

=============================================================================
