------------------------------- MODULE Sorting -------------------------------
(***************************************************************************)
(* The sorting routines of the programs: quick_sort of the test in         *)
(* risc_v_tests (which moves what is equal to the pivot to the left) and   *)
(* of dividesort (which does not), the bubble sort compiled in its place   *)
(* without QUICK_SORT, merge, and dividesort_9c's rounds of merges between *)
(* the two halves of its scratch memory.                                   *)
(*                                                                         *)
(* A memory is a function from addresses, counted in words, to words.  An  *)
(* address below an array is a negative index: C does not object.          *)
(***************************************************************************)
EXTENDS Integers, FiniteSets, SequencesExt

LoopOver(from, to) == [k \in 1 .. to - from + 1 |-> from + k - 1]

swap(p, i, j) == [p EXCEPT ![i] = p[j], ![j] = p[i]]

\* Whether v goes to the left of the pivot x: of equal words only one of the
\* two partitions (p[j] <= x, p[j] < x) says so.
GoesLeft(v, x, equalToo) == v < x \/ (equalToo /\ v = x)

\* The loop of partition from j on: what goes to the left is swapped behind i.
RECURSIVE ToTheLeft(_, _, _, _, _)
ToTheLeft(p, i, j, end, equalToo) ==
  CASE j = end -> [p |-> p, i |-> i]
    [] j # end /\ GoesLeft(p[j], p[end], equalToo) -> ToTheLeft(swap(p, i + 1, j), i + 1, j + 1, end, equalToo)
    [] OTHER -> ToTheLeft(p, i, j + 1, end, equalToo)

\* Wrong variant: the pivot stays at the end.
partitionUnplaced(p, start, end, equalToo) ==
  LET s == ToTheLeft(p, start - 1, start, end, equalToo) IN [p |-> s.p, q |-> s.i + 1]

\* What goes to the left of the word at end (inclusive), then that word.
partition(p, start, end, equalToo) ==
  LET s == ToTheLeft(p, start - 1, start, end, equalToo)
  IN  [p |-> swap(s.p, s.i + 1, end), q |-> s.i + 1]

\* (The call of exit2 that main.c makes where there is nothing to sort is left
\* out: it is in the build for x86 only, which has no such register.)
RECURSIVE quick_sort(_, _, _, _)
quick_sort(p, start, end, equalToo) ==
  IF start < end
  THEN LET parts == partition(p, start, end, equalToo)
       IN  quick_sort(quick_sort(parts.p, start, parts.q - 1, equalToo),
                      parts.q + 1, end, equalToo)
  ELSE p

\* One pass of the bubble sort; its end is exclusive.
Bubble(p, start, end) ==
  FoldLeft(LAMBDA s, i : IF s.p[i] > s.p[i + 1]
                         THEN [p |-> swap(s.p, i, i + 1), swapped |-> TRUE] ELSE s,
           [p |-> p, swapped |-> FALSE], LoopOver(start, end - 2))

\* Wrong variant: the end is taken to be inclusive.
RECURSIVE bubble_sortInclusive(_, _, _)
bubble_sortInclusive(p, start, end) ==
  LET pass == Bubble(p, start, end + 1)
  IN  IF pass.swapped THEN bubble_sortInclusive(pass.p, start, end - 1) ELSE pass.p

RECURSIVE bubble_sort(_, _, _)
bubble_sort(p, start, end) ==
  LET pass == Bubble(p, start, end)
  IN  IF pass.swapped THEN bubble_sort(pass.p, start, end - 1) ELSE pass.p

\* Whether the next word comes from the first run.
TakesFirst(m, p1, p2, end1, end2) == p1 < end1 /\ (p2 < end2 => m[p1] <= m[p2])

RECURSIVE MergeFrom(_, _, _, _, _, _)
MergeFrom(m, p1, p2, p3, end1, end2) ==
  CASE p1 = end1 /\ p2 = end2 -> m
    [] TakesFirst(m, p1, p2, end1, end2) ->
         MergeFrom([m EXCEPT ![p3] = m[p1]], p1 + 1, p2, p3 + 1, end1, end2)
    [] OTHER -> MergeFrom([m EXCEPT ![p3] = m[p2]], p1, p2 + 1, p3 + 1, end1, end2)

\* Merges len words at a1 with len words at a2 into the words at dest.
merge(m, a1, a2, dest, len) == MergeFrom(m, a1, a2, dest, a1 + len, a2 + len)

\* dividesort_9c: number sorted runs of temp_size words at diff become half as
\* many of twice the size at temp_offset, in the other half of the memory.
MergeRound(s, offset) ==
  LET diff == offset - s.temp_offset
      pair(m, k) == merge(m, diff + 2 * k * s.temp_size, diff + 2 * k * s.temp_size + s.temp_size,
                          s.temp_offset + 2 * k * s.temp_size, s.temp_size)
      pairs == (s.number + 1) \div 2
  IN  [m |-> FoldLeft(pair, s.m, LoopOver(0, pairs - 1)),
       temp_offset |-> IF s.mult_fac = 1 THEN 0 ELSE offset,
       mult_fac |-> -s.mult_fac, temp_size |-> 2 * s.temp_size, number |-> s.number \div 2]

\* while (number > 1)
RECURSIVE MergeRounds(_, _)
MergeRounds(s, offset) ==
  IF s.number > 1 THEN MergeRounds(MergeRound(s, offset), offset) ELSE s

\* Wrong variant: always from the lower half.
MergedFromBottom(m, num_slave, size_each) ==
  LET offset == size_each * num_slave
      end == MergeRounds([m |-> m, number |-> num_slave, temp_offset |-> offset,
                          temp_size |-> size_each, mult_fac |-> 1], offset)
  IN  [k \in 1 .. offset |-> end.m[k - 1]]

\* Core 0's last superstep: the words it prints.
Merged(m, num_slave, size_each) ==
  LET offset == size_each * num_slave
      end == MergeRounds([m |-> m, number |-> num_slave, temp_offset |-> offset,
                          temp_size |-> size_each, mult_fac |-> 1], offset)
      from == IF end.mult_fac = 1 THEN 0 ELSE offset
  IN  [k \in 1 .. offset |-> end.m[from + k - 1]]

-----------------------------------------------------------------------------
(* What sorting means.                                                     *)

SortedBetween(p, start, end) == \A i \in start .. end - 1 : p[i] <= p[i + 1]

\* The k-th of the words of v in ascending order.
KthOf(v, k) == CHOOSE d \in Range(v) : /\ Cardinality({i \in DOMAIN v : v[i] < d}) < k
                                      /\ k <= Cardinality({i \in DOMAIN v : v[i] <= d})

Occurrences(p, S, v) == Cardinality({i \in S : p[i] = v})

\* q has the words of p, moved about within S only.
RearrangedWithin(p, q, S) ==
  /\ DOMAIN q = DOMAIN p
  /\ \A i \in DOMAIN p \ S : q[i] = p[i]
  /\ \A i \in S : Occurrences(q, S, q[i]) = Occurrences(p, S, q[i])

=============================================================================
