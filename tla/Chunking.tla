------------------------------ MODULE Chunking -------------------------------
(***************************************************************************)
(* How a CHUNK[INT] task parameter is divided into chunks                  *)
(* (step_param_space.rs).  A range is either a list of values or a         *)
(* RangeExpr; the code never materializes the latter: it counts chunks,    *)
(* finds the end of a contiguous interval and computes a single chunk from *)
(* the sub-ranges.  Indices are zero-based, as in the code.                *)
(***************************************************************************)
EXTENDS RangeExpr

\* TaskParamRange::List(vals) and TaskParamRange::RangeExpr(ranges).
ListRange(vals) == [list |-> TRUE, vals |-> vals, ranges |-> <<>>]
ExprRange(ranges) == [list |-> FALSE, vals |-> <<>>, ranges |-> ranges]

RangeSize(range) == IF range.list THEN Len(range.vals) ELSE TotalLen(range.ranges)
RangeValueAt(range, i) == IF range.list THEN range.vals[i + 1] ELSE ValueAt(range.ranges, i)
RangeValues(range) == [i \in 1..RangeSize(range) |-> RangeValueAt(range, i - 1)]

\* A chunk: the RangeExpr it is handed out as, and its display flag.
Chunk(ranges, contiguous) == [ranges |-> ranges, contiguous |-> contiguous]

Contiguously(first, last) ==
  Chunk(CHOOSE r \in ParseRangeExpr(<<<<first, last>>>>) : TRUE, TRUE)

ChunkOfValues(vals, contiguous) ==
  IF contiguous THEN Contiguously(vals[1], vals[Len(vals)])
  ELSE Chunk(CHOOSE r \in FromValues(vals) : TRUE, FALSE)

\* StaticChunkNode: total values in num_chunks chunks, the first leftovers of
\* them one larger.
StaticCount(total, taskCount) == CeilDiv(total, taskCount)

StaticChunk(range, taskCount, i) ==
  LET total == RangeSize(range)
      chunks == StaticCount(total, taskCount)
      small == total \div chunks
      leftovers == total % chunks
      size == small + IF i < leftovers THEN 1 ELSE 0
      offset == i * small + IF i < leftovers THEN i ELSE leftovers
  IN  ChunkOfValues(SubSeq(RangeValues(range), offset + 1, offset + size), FALSE)

-----------------------------------------------------------------------------
(* Contiguous chunking: every maximal run of consecutive values is divided   *)
(* on its own.                                                               *)

\* interval_chunking
IntervalChunking(len, taskCount) ==
  LET count == CeilDiv(len, taskCount)
  IN  IF count >= len THEN [count |-> count, small |-> 1, leftovers |-> 0]
      ELSE IF count <= 1 THEN [count |-> count, small |-> len, leftovers |-> 0]
      ELSE [count |-> count, small |-> len \div count, leftovers |-> len % count]

LargerChunksBefore(j, leftovers, count) ==
  IF leftovers = 0 THEN 0 ELSE CeilDiv(j * leftovers, count)

\* Size of the j-th chunk of an interval, and what the chunks before it hold.
ChunkSize(j, ic) ==
  ic.small + LargerChunksBefore(j + 1, ic.leftovers, ic.count)
           - LargerChunksBefore(j, ic.leftovers, ic.count)
ChunkOffset(j, ic) == j * ic.small + LargerChunksBefore(j, ic.leftovers, ic.count)

\* interval_end_index, one more sub-range: it extends the interval, gives it one
\* more value, or ends it.
JoinSubRange(acc, sr) ==
  IF acc.stopped \/ sr.start # acc.last + 1 THEN [acc EXCEPT !.stopped = TRUE]
  ELSE IF sr.step = 1 THEN [acc EXCEPT !.end = @ + RangeLen(sr), !.last = sr.end]
  ELSE IF RangeLen(sr) > 1 THEN [acc EXCEPT !.end = @ + 1, !.stopped = TRUE]
  ELSE [acc EXCEPT !.end = @ + 1, !.last = sr.end]

LastOf(ends) == CHOOSE e \in ends : \A f \in ends : f <= e

\* The interval so far, from start to the end of its own sub-range sr, the last
\* index of which is given.
JoinedHere(sr, start, value, lastOfSubRange) ==
  IF sr.step = 1 THEN [end |-> lastOfSubRange, last |-> sr.end, stopped |-> FALSE]
  ELSE [end |-> start, last |-> value, stopped |-> start # lastOfSubRange]

EndFrom(ranges, start, idx) ==
  FoldLeft(JoinSubRange,
           JoinedHere(ranges[idx], start, ValueAt(ranges, start), Cumulative(ranges)[idx] - 1),
           SubSeq(ranges, idx + 1, Len(ranges))).end

IntervalEnd(range, start) ==
  IF range.list
  THEN LastOf({e \in start..(Len(range.vals) - 1) :
                 \A k \in start..(e - 1) : range.vals[k + 2] = range.vals[k + 1] + 1})
  ELSE EndFrom(range.ranges, start, PartitionPoint(Cumulative(range.ranges), start) + 1)

\* ContiguousChunkNode::chunk_at: skip the intervals before, then compute; here
\* an interval runs from the value at cursor to the one at end.
ChunkOf(first, ic, j) ==
  Contiguously(first + ChunkOffset(j, ic), first + ChunkOffset(j, ic) + ChunkSize(j, ic) - 1)

RECURSIVE ChunkFrom(_, _, _, _, _)
ChunkFrom(range, taskCount, cursor, end, index) ==
  LET first == RangeValueAt(range, cursor)
      ic == IntervalChunking(RangeValueAt(range, end) - first + 1, taskCount)
  IN  IF index < ic.count THEN ChunkOf(first, ic, index)
      ELSE ChunkFrom(range, taskCount, end + 1, IntervalEnd(range, end + 1), index - ic.count)

ChunkAt(range, taskCount, index) == ChunkFrom(range, taskCount, 0, IntervalEnd(range, 0), index)

\* count_contiguous_chunks_from_sub_ranges, one run of consecutive values more:
\* it extends the open interval, or closes it and opens the next.
CountRun(acc, run, taskCount) ==
  IF acc.open /\ run.first = acc.last + 1 THEN [acc EXCEPT !.last = run.last]
  ELSE [open |-> TRUE, first |-> run.first, last |-> run.last,
        chunks |-> acc.chunks + IF acc.open THEN CeilDiv(acc.last - acc.first + 1, taskCount) ELSE 0]

RunsOf(sr) ==
  IF sr.step = 1 THEN <<[first |-> sr.start, last |-> sr.end]>>
  ELSE [k \in 1..RangeLen(sr) |-> [first |-> Nth(sr, k - 1), last |-> Nth(sr, k - 1)]]

AllRuns(range) ==
  IF range.list
  THEN [i \in DOMAIN range.vals |-> [first |-> range.vals[i], last |-> range.vals[i]]]
  ELSE FlattenSeq([i \in DOMAIN range.ranges |-> RunsOf(range.ranges[i])])

CountClosed(acc, taskCount) ==
  acc.chunks + IF acc.open THEN CeilDiv(acc.last - acc.first + 1, taskCount) ELSE 0

\* The chunk count, from the values of a list or the sub-ranges of a RangeExpr.
CountContiguousChunks(range, taskCount) ==
  CountClosed(FoldLeft(LAMBDA acc, run : CountRun(acc, run, taskCount),
                       [open |-> FALSE, first |-> 0, last |-> 0, chunks |-> 0], AllRuns(range)),
              taskCount)

-----------------------------------------------------------------------------
(* ContiguousChunkIterState: the same chunks, one after the other.           *)

ContigStart == [cursor |-> 0, pos |-> 0, index |-> 0, remaining |-> 0,
                ic |-> [count |-> 0, small |-> 0, leftovers |-> 0]]

ContigReset(st) == [st EXCEPT !.cursor = 0, !.remaining = 0]

IntervalState(first, end, ic) ==
  [cursor |-> end + 1, pos |-> first, index |-> 0, remaining |-> ic.count, ic |-> ic]

IntervalBetween(first, last, end, taskCount) ==
  IntervalState(first, end, IntervalChunking(last - first + 1, taskCount))

IntervalUpTo(st, range, end, taskCount) ==
  IntervalBetween(RangeValueAt(range, st.cursor), RangeValueAt(range, end), end, taskCount)

StartNextInterval(st, range, taskCount) ==
  IntervalUpTo(st, range, IntervalEnd(range, st.cursor), taskCount)

ContigDone(st, range) == st.remaining = 0 /\ st.cursor >= RangeSize(range)

\* next_chunk: the chunk handed out and the state after it.
TakeChunk(cur, size) ==
  [chunk |-> Contiguously(cur.pos, cur.pos + size - 1),
   state |-> [cur EXCEPT !.pos = @ + size, !.remaining = @ - 1, !.index = @ + 1]]

ChunkIn(cur) == TakeChunk(cur, ChunkSize(cur.index, cur.ic))

NextChunk(st, range, taskCount) ==
  ChunkIn(IF st.remaining = 0 THEN StartNextInterval(st, range, taskCount) ELSE st)

\* AdaptiveChunkIterator: the end of the chunk that starts at cursor.
AdaptiveEnd(vals, contiguous, cursor, size) ==
  LET atMost == IF cursor + size < Len(vals) THEN cursor + size ELSE Len(vals)
      ends == {e \in (cursor + 1)..atMost :
                 contiguous => \A k \in (cursor + 1)..(e - 1) : vals[k + 1] = vals[k] + 1}
  IN  CHOOSE e \in ends : \A f \in ends : f <= e
=============================================================================
