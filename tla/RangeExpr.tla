------------------------------ MODULE RangeExpr ------------------------------
(***************************************************************************)
(* Integer range expressions (openjd-expr, range_expr.rs): "1-10:3,12" as  *)
(* a sorted list of ascending, non-overlapping sub-ranges, with index      *)
(* arithmetic in place of materialized values.                             *)
(*                                                                         *)
(* Bound stands for MAX_RANGE_VALUE_MAGNITUDE (2^62).  An i64 then has the *)
(* values -2*Bound .. 2*Bound-1, and I64 wraps what leaves them, so that   *)
(* the claim that bounded endpoints keep all arithmetic exact is checked   *)
(* at the edges of a small word.  A Result is {} (Err) or {value} (Ok).    *)
(***************************************************************************)
EXTENDS Integers, Sequences, FiniteSets, SequencesExt, TLC

CONSTANTS Bound,     \* MAX_RANGE_VALUE_MAGNITUDE
          MaxChunks  \* MAX_RANGE_EXPR_CHUNKS

I64(x) == ((x + 2 * Bound) % (4 * Bound)) - 2 * Bound
Abs(x) == IF x < 0 THEN -x ELSE x
CeilDiv(a, b) == (a + b - 1) \div b

RECURSIVE SumSeqInts(_)
SumSeqInts(s) == IF s = <<>> THEN 0 ELSE Head(s) + SumSeqInts(Tail(s))

Single(v) == [start |-> v, end |-> v, step |-> 1]

InBound(v) == Abs(v) < Bound

\* The elements of a set of integers, ascending.
SortedSeq(S) ==
  [i \in 1..Cardinality(S) |-> CHOOSE x \in S : Cardinality({y \in S : y < x}) = i - 1]

\* IntRange::new: the ascending form, its end aligned to the last value.
NewRange(start, end, step) ==
  IF step = 0 \/ ~(InBound(start) /\ InBound(end) /\ InBound(step))
     \/ (step > 0 /\ start > end) \/ (step < 0 /\ start < end)
  THEN {}
  ELSE LET span  == I64(IF step < 0 THEN start - end ELSE end - start)
           count == I64(span \div Abs(step) + 1)
           last  == I64(start + I64(I64(count - 1) * step))
       IN  IF step < 0 THEN {[start |-> last, end |-> start, step |-> -step]}
                       ELSE {[start |-> start, end |-> last, step |-> step]}

RangeLen(r) == I64(I64(r.end - r.start) \div r.step + 1)
Nth(r, k) == I64(r.start + I64(k * r.step))
RangeContains(r, v) ==
  /\ ~(v < r.start \/ v > r.end)
  /\ I64(v - r.start) % r.step = 0

-----------------------------------------------------------------------------
(* A RangeExpr is the sequence of its sub-ranges.                            *)

TotalLen(ranges) == SumSeqInts([i \in DOMAIN ranges |-> RangeLen(ranges[i])])
Cumulative(ranges) == [i \in DOMAIN ranges |-> TotalLen(SubSeq(ranges, 1, i))]

\* partition_point: how many leading elements are at most v.
PartitionPoint(s, v) == Cardinality({i \in DOMAIN s : \A j \in 1..i : s[j] <= v})

Before(r, s) == r.start < s.start \/ (r.start = s.start /\ r.end < s.end)

\* from_ranges: r joins the last merged range, or follows it.
MergeInto(merged, r) ==
  LET last == merged[Len(merged)]
  IN  IF last.step = r.step /\ I64(last.end + r.step) = r.start
      THEN [merged EXCEPT ![Len(merged)].end = r.end]
      ELSE Append(merged, r)

\* RangeExpr::from_ranges: renormalize, sort, merge neighbours, refuse overlap.
Apart(merged) ==
  IF \E i \in 2..Len(merged) : merged[i].start <= merged[i - 1].end THEN {} ELSE {merged}
MergeSorted(sorted) == Apart(FoldLeft(MergeInto, <<sorted[1]>>, Tail(sorted)))
SortAndMerge(news) ==
  IF \E i \in DOMAIN news : news[i] = {} THEN {}
  ELSE MergeSorted(SortSeq([i \in DOMAIN news |-> CHOOSE r \in news[i] : TRUE], Before))
FromRanges(input) ==
  IF input = <<>> \/ Len(input) > MaxChunks THEN {}
  ELSE SortAndMerge([i \in DOMAIN input |-> NewRange(input[i].start, input[i].end, input[i].step)])

\* from_values, one more sorted value: it continues the arithmetic sequence of
\* the last group, or starts a group.
GroupValue(groups, v) ==
  IF groups = <<>> THEN <<Single(v)>>
  ELSE LET g == groups[Len(groups)]
           gap == I64(v - g.start)
       IN  IF g.start = g.end
           THEN IF Abs(gap) < Bound
                THEN [groups EXCEPT ![Len(groups)] = [start |-> g.start, end |-> v, step |-> gap]]
                ELSE Append(groups, Single(v))
           ELSE IF v = I64(g.start + I64(RangeLen(g) * g.step))
                THEN [groups EXCEPT ![Len(groups)].end = v]
                ELSE Append(groups, Single(v))

\* RangeExpr::from_values: sort, drop duplicates, group greedily.
FromValues(values) ==
  IF \E i \in DOMAIN values : ~InBound(values[i]) THEN {}
  ELSE {FoldLeft(GroupValue, <<>>, SortedSeq(ToSet(values)))}

\* contains: the only sub-range it may be in is the first that ends at v or later.
ContainsAt(ranges, idx, v) == idx \in DOMAIN ranges /\ RangeContains(ranges[idx], v)
ContainsValue(ranges, v) ==
  ContainsAt(ranges, PartitionPoint([i \in DOMAIN ranges |-> ranges[i].end], v - 1) + 1, v)

\* value_at: the flattened element at a zero-based index.
ValueAfter(ranges, cum, n, idx) == Nth(ranges[n + 1], IF n = 0 THEN idx ELSE idx - cum[n])
ValueAt(ranges, idx) ==
  ValueAfter(ranges, Cumulative(ranges), PartitionPoint(Cumulative(ranges), idx), idx)

\* get: negative indices count from the end.
GetValue(ranges, index) ==
  LET idx == IF index < 0 THEN I64(index + TotalLen(ranges)) ELSE index
  IN  IF idx < 0 \/ idx >= TotalLen(ranges) THEN {} ELSE {ValueAt(ranges, idx)}

Elements(ranges) ==
  FlattenSeq([i \in DOMAIN ranges |-> [k \in 1..RangeLen(ranges[i]) |-> Nth(ranges[i], k - 1)]])

Clamp(x, lo, hi) == IF x < lo THEN lo ELSE IF x > hi THEN hi ELSE x

\* slice, one sub-range: the indices first, first + step, ... below last that
\* fall in the sub-range whose first element has index base.
SliceOf(r, base, first, last, step) ==
  LET begin == IF first >= base THEN first ELSE first + CeilDiv(base - first, step) * step
      top   == IF last < base + RangeLen(r) THEN last ELSE base + RangeLen(r)
      count == (top - begin - 1) \div step + 1
      lo    == Nth(r, begin - base)
      hi    == Nth(r, begin - base + (count - 1) * step)
  IN  IF begin >= top THEN <<>>
      ELSE IF count = 1 THEN <<Single(lo)>>
      ELSE IF r.step * step < Bound THEN <<[start |-> lo, end |-> hi, step |-> r.step * step]>>
      ELSE <<Single(lo), Single(hi)>>

Slice(ranges, start, stop, step) ==
  IF step <= 0 THEN {}
  ELSE LET total == TotalLen(ranges)
           first == Clamp(start, 0, total)
           last  == Clamp(stop, 0, total)
           stride == IF step < total THEN step ELSE IF total > 1 THEN total ELSE 1
           base(i) == IF i = 1 THEN 0 ELSE Cumulative(ranges)[i - 1]
       IN  IF first >= last THEN {<<>>}
           ELSE {FlattenSeq([i \in DOMAIN ranges |->
                    SliceOf(ranges[i], base(i), first, last, stride)])}

-----------------------------------------------------------------------------
(* The printed form, as the numbers of its items: "3", "1-5", "1-9:2" are    *)
(* <<3>>, <<1, 5>> and <<1, 9, 2>>.                                           *)

DisplayRange(r) ==
  IF RangeLen(r) = 1 THEN <<<<r.start>>>>
  ELSE IF RangeLen(r) = 2 THEN <<<<r.start>>, <<r.end>>>>
  ELSE IF r.step = 1 THEN <<<<r.start, r.end>>>>
  ELSE <<<<r.start, r.end, r.step>>>>

\* Display: a contiguous chunk prints as first-last even when it is one value.
Display(ranges, contiguous) ==
  IF contiguous /\ Len(ranges) = 1 /\ (ranges[1].step = 1 \/ TotalLen(ranges) = 1)
  THEN <<<<ranges[1].start, ranges[1].end>>>>
  ELSE FlattenSeq([i \in DOMAIN ranges |-> DisplayRange(ranges[i])])

ParseItem(item) ==
  IF Len(item) = 1 THEN NewRange(item[1], item[1], 1)
  ELSE IF Len(item) = 2 THEN (IF item[1] <= item[2] THEN NewRange(item[1], item[2], 1) ELSE {})
  ELSE NewRange(item[1], item[2], item[3])

\* parse_range_expr: an item that is no range fails the whole string.
ParseRangeExpr(items) ==
  LET parsed == [i \in DOMAIN items |-> ParseItem(items[i])]
  IN  IF items = <<>> \/ Len(items) > MaxChunks + 1 \/ \E i \in DOMAIN parsed : parsed[i] = {}
      THEN {}
      ELSE FromRanges([i \in DOMAIN parsed |-> CHOOSE r \in parsed[i] : TRUE])

-----------------------------------------------------------------------------
(* What the operations have to agree with: plain sets and sequences.         *)

ItemValues(item) ==
  LET n == Len(item)
      step == IF n = 3 THEN item[3] ELSE 1
      lo == IF item[1] <= item[n - (n \div 3)] THEN item[1] ELSE item[n - (n \div 3)]
      hi == IF item[1] <= item[n - (n \div 3)] THEN item[n - (n \div 3)] ELSE item[1]
  IN  {v \in lo..hi : (v - item[1]) % Abs(step) = 0}

\* A parsed expression denotes the values of its items, each once and in order,
\* and every way of reading it agrees: length, membership, indexing from either
\* end, slicing (range_expr.rs: from_ranges, contains, get, slice).
Denotes(items) ==
  \A ranges \in ParseRangeExpr(items) :
    LET want == SortedSeq(UNION {ItemValues(items[i]) : i \in DOMAIN items})
        n == Len(want)
    IN  /\ Elements(ranges) = want
        /\ TotalLen(ranges) = n
        /\ \A v \in (-Bound)..Bound : ContainsValue(ranges, v) <=> v \in ToSet(want)
        /\ \A i \in (-n - 1)..n :
             GetValue(ranges, i) = IF i \in 0..(n - 1) THEN {want[i + 1]}
                              ELSE IF i \in (-n)..(-1) THEN {want[n + i + 1]} ELSE {}
        /\ \A a, b \in 0..n, s \in 1..(n + 1) : \A cut \in Slice(ranges, a, b, s) :
             /\ Elements(cut) = SortedSeq({want[i + 1] : i \in {k \in a..(b - 1) : (k - a) % s = 0}})
             /\ \A i \in DOMAIN cut : cut[i].step > 0 /\ cut[i].step < Bound

\* Printing and parsing again, and grouping the values again, give the same
\* values: what from_values and slice build is a legal input of the parser.  The
\* exception is exact: a pair of values prints as two items, so a legal range may
\* print as more than MAX_RANGE_EXPR_CHUNKS items, and then it is refused.
RoundTrips(items) ==
  \A ranges \in ParseRangeExpr(items) :
    LET want == Elements(ranges)
        regrouped == FromValues(want)
    IN  /\ \E r \in regrouped : Elements(r) = want
        /\ \A r \in regrouped \cup {ranges} :
             LET back == ParseRangeExpr(Display(r, FALSE))
             IN  IF Len(Display(r, FALSE)) > MaxChunks THEN back = {}
                 ELSE \E b \in back : Elements(b) = want
=============================================================================
