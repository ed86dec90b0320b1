----------------------------- MODULE ParamSpace ------------------------------
(***************************************************************************)
(* The task parameter space of a step (step_param_space.rs): combination   *)
(* expressions, the tree of lazy nodes built from one, random access,      *)
(* sequential iteration with adaptive chunk sizes, and containment.        *)
(* The chunk-size feedback of `openjd run` (execution.rs) is AdjustChunks. *)
(***************************************************************************)
EXTENDS Chunking

CONSTANTS Space,      \* parameter spaces: [defs, combination]
          MaxUsize,   \* largest usize
          Duration,   \* task durations the CLI may measure, in seconds
          MaxSize     \* bound on chunk sizes a caller sets

VARIABLES space,      \* the iterator's root, kind and static settings
          iter,       \* node_iter
          nextIndex,  \* current_index
          chunkSize,  \* adaptive_chunk_size
          feedback,   \* the CLI's completed_task_count and completed_task_duration
          walked,     \* history: the parameter sets handed out since the last reset
          ended       \* history: next() has returned None since then

spaceVars == <<space, iter, nextIndex, chunkSize, feedback, walked, ended>>

\* A task parameter definition: range, and for CHUNK[INT] its chunks.
IntParam(name, range) ==
  [name |-> name, range |-> range, chunked |-> FALSE, contiguous |-> FALSE, taskCount |-> 1, target |-> 0]
ChunkParam(name, range, contiguous, taskCount, target) ==
  [name |-> name, range |-> range, chunked |-> TRUE, contiguous |-> contiguous,
   taskCount |-> taskCount, target |-> target]

Names(defs) == {defs[i].name : i \in DOMAIN defs}
Operator == {"*", "(", ")", ","}

-----------------------------------------------------------------------------
(* The template's combination expression: a sequence of tokens.              *)

Depth(tokens) ==
  Cardinality({i \in DOMAIN tokens : tokens[i] = "("})
    - Cardinality({i \in DOMAIN tokens : tokens[i] = ")"})

\* The name or group that ends just before position i.
OperandBefore(tokens, i) == i > 1 /\ tokens[i - 1] \notin {"*", "(", ","}

\* Mutant: a leading or doubled operator is let through.
OrderlyLax(tokens) ==
  \A i \in DOMAIN tokens : tokens[i] \notin Operator => ~OperandBefore(tokens, i)

\* validate_combination_expr, what every token needs on its left.
Orderly(tokens) ==
  \A i \in DOMAIN tokens :
    IF tokens[i] \in {"*", ")", ","} THEN OperandBefore(tokens, i)
    ELSE tokens[i] \in Operator \/ ~OperandBefore(tokens, i)

\* validate_combination_expr: no error for a template with these parameters.
ValidCombination(tokens, names) ==
  /\ tokens # <<>>
  /\ \A n \in 1..Len(tokens) : Depth(SubSeq(tokens, 1, n)) >= 0
  /\ Depth(tokens) = 0
  /\ Orderly(tokens)
  /\ tokens[Len(tokens)] \notin {"*", ","}
  /\ \A i \in DOMAIN tokens : tokens[i] \in Operator \cup names
  /\ \A n \in names : Cardinality({i \in DOMAIN tokens : tokens[i] = n}) = 1

\* The recursive descent of parse_node_expr, up to the node built for each form:
\* {} is an error, otherwise the tree and the position after it.
RECURSIVE ParseProduct(_, _, _), ParseFactors(_, _, _, _), ParseGroup(_, _, _, _)

ParseElement(tokens, pos, names) ==
  IF pos > Len(tokens) THEN {}
  ELSE IF tokens[pos] = "(" THEN ParseGroup(tokens, pos + 1, names, <<>>)
  ELSE IF tokens[pos] \in names
       THEN {[tree |-> [op |-> "leaf", name |-> tokens[pos], kids |-> <<>>], pos |-> pos + 1]}
       ELSE {}

\* The members of a group, up to its closing parenthesis; one member is an error.
ParseGroup(tokens, pos, names, kids) ==
  UNION {LET more == Append(kids, p.tree)
         IN  IF p.pos <= Len(tokens) /\ tokens[p.pos] = ","
             THEN ParseGroup(tokens, p.pos + 1, names, more)
             ELSE IF p.pos <= Len(tokens) /\ tokens[p.pos] = ")" /\ Len(more) > 1
             THEN {[tree |-> [op |-> "assoc", name |-> "", kids |-> more], pos |-> p.pos + 1]}
             ELSE {} : p \in ParseProduct(tokens, pos, names)}

ParseFactors(tokens, pos, names, kids) ==
  UNION {LET more == Append(kids, p.tree)
         IN  IF p.pos <= Len(tokens) /\ tokens[p.pos] = "*"
             THEN ParseFactors(tokens, p.pos + 1, names, more)
             ELSE {[tree |-> IF Len(more) = 1 THEN more[1]
                             ELSE [op |-> "product", name |-> "", kids |-> more],
                    pos |-> p.pos]} : p \in ParseElement(tokens, pos, names)}

ParseProduct(tokens, pos, names) == ParseFactors(tokens, pos, names, <<>>)

ParseCombination(tokens, names) ==
  {p.tree : p \in {q \in ParseProduct(tokens, 1, names) : q.pos = Len(tokens) + 1}}

\* What the validator lets through and the iterator's parser refuses: a comma
\* outside any group, a group of one member, two operands side by side.
TopLevelComma(tokens) ==
  \E i \in DOMAIN tokens : tokens[i] = "," /\ Depth(SubSeq(tokens, 1, i)) = 0
LoneGroup(tokens) ==
  \E i, j \in DOMAIN tokens :
    /\ i < j /\ tokens[i] = "(" /\ tokens[j] = ")"
    /\ Depth(SubSeq(tokens, i, j)) = 0
    /\ \A k \in i..j : Depth(SubSeq(tokens, i, k)) = 1 => tokens[k] # ","
    /\ \A k \in i..(j - 1) : Depth(SubSeq(tokens, i, k)) > 0
Juxtaposed(tokens) ==
  \E i \in DOMAIN tokens : tokens[i] = "(" /\ OperandBefore(tokens, i)

\* The two readings of a combination expression agree: what the iterator can
\* build from all parameters, each once, the template validator accepts, and what
\* it accepts the iterator builds, apart from the three forms above
\* (structure.rs:857 against step_param_space.rs:1600).  A lone "*", which names no
\* parameter, is for the iterator alone: the validator refuses it.
CombinationAgrees(tokens, names) ==
  LET once == \A n \in names : Cardinality({i \in DOMAIN tokens : tokens[i] = n}) = 1
      parses == ParseCombination(tokens, names) # {}
  IN  /\ parses /\ once => ValidCombination(tokens, names)
      /\ ValidCombination(tokens, names)
           /\ ~(TopLevelComma(tokens) \/ LoneGroup(tokens) \/ Juxtaposed(tokens)) => parses

-----------------------------------------------------------------------------
(* The node tree.                                                            *)

EmptySet == <<>>   \* a TaskParameterSet with no parameters
Bind(name, v) == name :> v

Leaf(def, adaptive, override) ==
  LET count == IF override > 0 THEN override ELSE def.taskCount
      kind == IF ~def.chunked THEN "values"
              ELSE IF def.name = adaptive THEN "adaptive"
              ELSE IF RangeSize(def.range) = 0 THEN "values"
              ELSE IF def.contiguous THEN "contiguous" ELSE "static"
  IN  [kind |-> kind, name |-> def.name, range |-> def.range,
       contiguous |-> def.contiguous, taskCount |-> count, kids |-> <<>>]

\* Node::len; an adaptive node only bounds its length.
RECURSIVE NodeLen(_)
NodeLen(node) ==
  CASE node.kind = "values" -> RangeSize(node.range)
    [] node.kind = "static" -> StaticCount(RangeSize(node.range), node.taskCount)
    [] node.kind = "contiguous" -> CountContiguousChunks(node.range, node.taskCount)
    [] node.kind = "adaptive" -> CeilDiv(RangeSize(node.range), node.taskCount)
    [] node.kind = "product" -> FoldLeft(LAMBDA acc, k : acc * NodeLen(k), 1, node.kids)
    [] node.kind = "assoc" -> NodeLen(node.kids[1])
    [] OTHER -> 1

Inner(kind, kids) ==
  [kind |-> kind, name |-> "", range |-> ListRange(<<>>), contiguous |-> FALSE,
   taskCount |-> 1, kids |-> kids]

\* checked_product_len, and equal lengths under an association.
SizesFit(node) ==
  CASE node.kind = "product" ->
         \A n \in 1..Len(node.kids) : NodeLen(Inner("product", SubSeq(node.kids, 1, n))) <= MaxUsize
    [] node.kind = "assoc" -> \A k \in DOMAIN node.kids : NodeLen(node.kids[k]) = NodeLen(node.kids[1])
    [] OTHER -> TRUE

\* The tree of nodes for a parsed expression; {} when a size does not fit.
RECURSIVE BuildNode(_, _, _, _)
BuildNode(tree, defs, adaptive, override) ==
  IF tree.op = "leaf"
  THEN {Leaf(defs[CHOOSE i \in DOMAIN defs : defs[i].name = tree.name], adaptive, override)}
  ELSE LET kids == [k \in DOMAIN tree.kids |-> BuildNode(tree.kids[k], defs, adaptive, override)]
       IN  IF \E k \in DOMAIN kids : kids[k] = {} THEN {}
           ELSE {n \in {Inner(tree.op, [k \in DOMAIN kids |-> CHOOSE x \in kids[k] : TRUE])} : SizesFit(n)}

\* The index of the k-th child in element index of a product: the last child
\* moves fastest.
ProductIndex(kids, k, index) ==
  LET faster == FoldLeft(LAMBDA acc, c : acc * NodeLen(c), 1, SubSeq(kids, k + 1, Len(kids)))
  IN  (index \div faster) % NodeLen(kids[k])

\* Node::get
RECURSIVE NodeGet(_, _)
NodeGet(node, index) ==
  CASE node.kind = "values" -> Bind(node.name, RangeValueAt(node.range, index))
    [] node.kind = "static" -> Bind(node.name, StaticChunk(node.range, node.taskCount, index))
    [] node.kind = "contiguous" -> Bind(node.name, ChunkAt(node.range, node.taskCount, index))
    [] node.kind = "product" ->
         FoldLeft(LAMBDA acc, k : NodeGet(node.kids[k], ProductIndex(node.kids, k, index)) @@ acc,
                  EmptySet, [k \in DOMAIN node.kids |-> k])
    [] node.kind = "assoc" ->
         FoldLeft(LAMBDA acc, k : NodeGet(k, index) @@ acc, EmptySet, node.kids)
    [] OTHER -> EmptySet

\* Containment in each kind of node.
ListHas(range, v) == \E i \in DOMAIN range.vals : range.vals[i] = v
ExprHas(range, v) == ContainsValue(range.ranges, v)

\* A noncontiguous chunk is recognized by its values, a contiguous one by its ranges.
StaticHas(node, ranges) ==
  \E i \in 0..(NodeLen(node) - 1) :
    Elements(StaticChunk(node.range, node.taskCount, i).ranges) = Elements(ranges)
ContiguousHas(node, ranges) ==
  \E i \in 0..(NodeLen(node) - 1) : ChunkAt(node.range, node.taskCount, i).ranges = ranges

AdaptiveHas(node, ranges) == ToSet(Elements(ranges)) \subseteq ToSet(RangeValues(node.range))

AssocHas(node, params) ==
  \E i \in 0..(NodeLen(node) - 1) :
    LET set == NodeGet(node, i) IN \A n \in DOMAIN set : params[n] = set[n]

\* Node::validate_containment
RECURSIVE NodeHas(_, _)
NodeHas(node, params) ==
  CASE node.kind = "values" -> IF node.range.list THEN ListHas(node.range, params[node.name])
                               ELSE ExprHas(node.range, params[node.name])
    [] node.kind = "static" -> StaticHas(node, params[node.name].ranges)
    [] node.kind = "contiguous" -> ContiguousHas(node, params[node.name].ranges)
    [] node.kind = "adaptive" -> AdaptiveHas(node, params[node.name].ranges)
    [] node.kind = "product" -> \A k \in DOMAIN node.kids : NodeHas(node.kids[k], params)
    [] node.kind = "assoc" -> AssocHas(node, params)
    [] OTHER -> TRUE

-----------------------------------------------------------------------------
(* Sequential iteration: NodeIterator::next and reset.                       *)

RECURSIVE IterStart(_), IterReset(_, _), IterNext(_, _, _)

IterStart(node) ==
  [index |-> 0, started |-> FALSE, contig |-> ContigStart,
   kids |-> [k \in DOMAIN node.kids |-> IterStart(node.kids[k])],
   current |-> [k \in DOMAIN node.kids |-> EmptySet]]

IterReset(node, it) ==
  [index |-> 0, started |-> FALSE, contig |-> ContigReset(it.contig),
   kids |-> [k \in DOMAIN node.kids |-> IterReset(node.kids[k], it.kids[k])],
   current |-> [k \in DOMAIN node.kids |-> EmptySet]]

Exhausted(it) == [ok |-> FALSE, it |-> it, set |-> EmptySet]
Yield(it, set) == [ok |-> TRUE, it |-> it, set |-> set]
Merged(current) == FoldLeft(LAMBDA acc, s : s @@ acc, EmptySet, current)

ContiguousNext(node, it) ==
  IF ContigDone(it.contig, node.range) THEN Exhausted(it)
  ELSE LET n == NextChunk(it.contig, node.range, node.taskCount)
       IN  Yield([it EXCEPT !.contig = n.state], Bind(node.name, n.chunk))

AdaptiveNext(node, it, size) ==
  IF it.index >= RangeSize(node.range) THEN Exhausted(it)
  ELSE LET vals == RangeValues(node.range)
           end == AdaptiveEnd(vals, node.contiguous, it.index, IF size < 1 THEN 1 ELSE size)
       IN  Yield([it EXCEPT !.index = end],
                 Bind(node.name, ChunkOfValues(SubSeq(vals, it.index + 1, end), node.contiguous)))

IndexedNext(node, it) ==
  IF it.index >= NodeLen(node) THEN Exhausted(it)
  ELSE Yield([it EXCEPT !.index = @ + 1], NodeGet(node, it.index))

LeafNext(node, it, size) ==
  CASE node.kind = "contiguous" -> ContiguousNext(node, it)
    [] node.kind = "adaptive" -> AdaptiveNext(node, it, size)
    [] OTHER -> IndexedNext(node, it)

\* Mutant: an exhausted child is rewound but not advanced to its first value.
AdvanceStale(node, it, k, size) ==
  LET r == IterNext(node.kids[k], it.kids[k], size)
      again == IterReset(node.kids[k], r.it)
  IN  IF r.ok THEN [carry |-> FALSE, dead |-> FALSE,
                    it |-> [it EXCEPT !.kids[k] = r.it, !.current[k] = r.set]]
      ELSE [carry |-> TRUE, dead |-> FALSE, it |-> [it EXCEPT !.kids[k] = again]]

\* ProductIterator::next, one child: advance it, or rewind it and carry on.
Advance(node, it, k, size) ==
  LET r == IterNext(node.kids[k], it.kids[k], size)
      again == IterNext(node.kids[k], IterReset(node.kids[k], r.it), size)
  IN  IF r.ok THEN [carry |-> FALSE, dead |-> FALSE,
                    it |-> [it EXCEPT !.kids[k] = r.it, !.current[k] = r.set]]
      ELSE [carry |-> TRUE, dead |-> ~again.ok,
            it |-> [it EXCEPT !.kids[k] = again.it, !.current[k] = again.set]]

ProductNext(node, it, size) ==
  LET n == Len(node.kids)
      first(acc, k) ==
        IF acc.dead THEN acc
        ELSE LET r == IterNext(node.kids[k], acc.it.kids[k], size)
             IN  [carry |-> FALSE, dead |-> ~r.ok,
                  it |-> [acc.it EXCEPT !.kids[k] = r.it, !.current[k] = r.set]]
      carry(acc, k) == IF acc.dead \/ ~acc.carry THEN acc ELSE Advance(node, acc.it, k, size)
      start == [carry |-> TRUE, dead |-> FALSE, it |-> [it EXCEPT !.started = TRUE]]
      end == IF it.started THEN FoldLeft(carry, start, [i \in 1..n |-> n + 1 - i])
             ELSE FoldLeft(first, [start EXCEPT !.carry = FALSE], [i \in 1..n |-> i])
  IN  IF end.dead \/ end.carry THEN Exhausted(end.it) ELSE Yield(end.it, Merged(end.it.current))

\* AssociationIterator::next: the children in lockstep.
AssocNext(node, it, size) ==
  LET step(acc, k) ==
        IF acc.dead THEN acc
        ELSE LET r == IterNext(node.kids[k], acc.it.kids[k], size)
             IN  [dead |-> ~r.ok, it |-> [acc.it EXCEPT !.kids[k] = r.it, !.current[k] = r.set]]
      end == FoldLeft(step, [dead |-> FALSE, it |-> it], [k \in DOMAIN node.kids |-> k])
  IN  IF end.dead THEN Exhausted(end.it) ELSE Yield(end.it, Merged(end.it.current))

IterNext(node, it, size) ==
  CASE node.kind = "product" -> ProductNext(node, it, size)
    [] node.kind = "assoc" -> AssocNext(node, it, size)
    [] OTHER -> LeafNext(node, it, size)

-----------------------------------------------------------------------------
(* StepParameterSpaceIterator.                                               *)

\* The order of the default product: the adaptive parameter last.
DefaultTree(defs, adaptive) ==
  LET rest == SelectSeq(defs, LAMBDA d : d.name # adaptive)
      last == SelectSeq(defs, LAMBDA d : d.name = adaptive)
      leaves == [i \in DOMAIN (rest \o last) |->
                   [op |-> "leaf", name |-> (rest \o last)[i].name, kids |-> <<>>]]
  IN  IF Len(leaves) = 1 THEN leaves[1] ELSE [op |-> "product", name |-> "", kids |-> leaves]

\* new_inner: the iterator for a space and a chunk override (0: none), or {}.  A
\* lone "*" is what an absent combination is read as.
NewIterator(sp, override) ==
  LET chunked == SelectSeq(sp.defs, LAMBDA d : d.chunked)
      adaptive == IF chunked # <<>> /\ override = 0 /\ chunked[1].target > 0
                  THEN chunked[1].name ELSE ""
      trees == IF sp.combination \in {<<>>, <<"*">>} THEN {DefaultTree(sp.defs, adaptive)}
               ELSE ParseCombination(sp.combination, Names(sp.defs))
      roots == IF sp.defs = <<>> THEN {Inner("zero", <<>>)}
               ELSE UNION {BuildNode(t, sp.defs, adaptive, override) : t \in trees}
      size == IF chunked = <<>> THEN 1 ELSE IF override > 0 THEN override ELSE chunked[1].taskCount
  IN  IF \E d \in ToSet(chunked) : d.range.list /\ \E v \in ToSet(d.range.vals) : ~InBound(v)
      THEN {}
      ELSE {[root |-> r, adaptive |-> adaptive # "", size |-> size,
             target |-> IF chunked = <<>> THEN 0 ELSE chunked[1].target,
             chunkName |-> IF chunked = <<>> THEN "" ELSE chunked[1].name,
             sequential |-> adaptive # "" \/ \E d \in ToSet(chunked) : d.contiguous,
             params |-> sp] : r \in roots}

SpaceInit ==
  /\ \E sp \in Space, override \in 0..1 : space \in NewIterator(sp, override)
  /\ iter = IterStart(space.root)
  /\ nextIndex = 0
  /\ chunkSize = space.size
  /\ feedback = [count |-> 0, duration |-> 0, due |-> 0]
  /\ walked = <<>> /\ ended = FALSE

ItemsOf(set) ==
  IF space.chunkName \in DOMAIN set THEN TotalLen(set[space.chunkName].ranges) ELSE 1

NextByIndex ==
  IF nextIndex >= NodeLen(space.root) THEN Exhausted(iter)
  ELSE Yield(iter, NodeGet(space.root, nextIndex))

\* Iterator::next, by index or through the node iterator.  The CLI has run the
\* task when it asks for the next one, so its feedback is due before that.
NextTask ==
  /\ ~ended /\ feedback.due = 0
  /\ \E r \in {IF space.sequential THEN IterNext(space.root, iter, chunkSize) ELSE NextByIndex} :
       /\ iter' = r.it
       /\ nextIndex' = IF space.sequential \/ ~r.ok THEN nextIndex ELSE nextIndex + 1
       /\ walked' = IF r.ok THEN Append(walked, r.set) ELSE walked
       /\ ended' = ~r.ok
       /\ feedback' = [feedback EXCEPT !.due = IF r.ok /\ space.adaptive THEN ItemsOf(r.set) ELSE 0]
  /\ UNCHANGED <<space, chunkSize>>

\* calculate_adaptive_chunk_size, exactly: a size of target / (duration per
\* task), approached by a quarter while fewer than ten tasks have completed.
CalculateChunkSize(current, count, duration, target) ==
  LET grows == target * count > current * duration
      size == IF count < 10 /\ grows
              THEN (3 * current * duration + target * count) \div (4 * duration)
              ELSE (target * count) \div duration
  IN  IF size < 1 THEN 1 ELSE size

\* adjust_adaptive_chunk_size, after a task that took d seconds.
AdjustChunks(d) ==
  /\ feedback.due > 0
  /\ LET count == feedback.count + feedback.due
         duration == feedback.duration + d
     IN  /\ feedback' = [count |-> count, duration |-> duration, due |-> 0]
         /\ chunkSize' = IF duration = 0 THEN chunkSize
                         ELSE CalculateChunkSize(chunkSize, count, duration, space.target)
  /\ UNCHANGED <<space, iter, nextIndex, walked, ended>>

\* set_chunks_default_task_count by a caller with feedback of its own.
SetChunkSize(n) ==
  /\ space.adaptive /\ feedback.due > 0
  /\ chunkSize' = n
  /\ feedback' = [feedback EXCEPT !.due = 0]
  /\ UNCHANGED <<space, iter, nextIndex, walked, ended>>

ResetSpace ==
  /\ walked # <<>> /\ feedback.due = 0
  /\ nextIndex' = 0
  /\ iter' = IF space.sequential THEN IterReset(space.root, iter) ELSE iter
  /\ walked' = <<>> /\ ended' = FALSE
  /\ feedback' = [count |-> 0, duration |-> 0, due |-> 0]
  /\ UNCHANGED <<space, chunkSize>>

SpaceNext ==
  \/ NextTask
  \/ \E d \in Duration : AdjustChunks(d)
  \/ \E n \in 0..MaxSize : SetChunkSize(n)
  \/ ResetSpace

-----------------------------------------------------------------------------
(* Properties.                                                               *)

\* The tasks a template asks for, by its definitions alone: one value for every
\* parameter, the members of an association taken at the same position.
RECURSIVE TasksOf(_)
TasksOf(node) ==
  IF node.kids = <<>>
  THEN IF node.kind = "zero" THEN {EmptySet}
       ELSE {Bind(node.name, RangeValues(node.range)[i]) : i \in 1..RangeSize(node.range)}
  ELSE IF node.kind = "product"
  THEN FoldLeft(LAMBDA acc, k : {s @@ t : s \in acc, t \in TasksOf(k)}, {EmptySet}, node.kids)
  ELSE {NodeGet(node, i) : i \in 0..(NodeLen(node) - 1)}

\* The tasks a handed-out parameter set stands for: one per value of its chunk.
Expand(set) ==
  IF space.chunkName \in DOMAIN set
  THEN {[set EXCEPT ![space.chunkName] = v] : v \in ToSet(Elements(set[space.chunkName].ranges))}
  ELSE {set}

\* However the chunk size is changed during a walk, and after a reset in the
\* middle of one, a finished walk has handed out every task of the template
\* exactly once and nothing else, and an unfinished one nothing twice.
EveryTaskOnce ==
  /\ \A i, j \in DOMAIN walked : i # j => Expand(walked[i]) \cap Expand(walked[j]) = {}
  /\ UNION {Expand(walked[i]) : i \in DOMAIN walked} \subseteq TasksOf(space.root)
  /\ ended => UNION {Expand(walked[i]) : i \in DOMAIN walked} = TasksOf(space.root)

\* len() and get(i) predict the walk: sequential iteration, which finds its
\* chunks one after the other, and random access, which computes each from its
\* index alone, are two implementations of the same list (an adaptive space has
\* no random access).
RandomAccessAgrees ==
  ~space.adaptive =>
    /\ \A i \in DOMAIN walked : i <= NodeLen(space.root) /\ walked[i] = NodeGet(space.root, i - 1)
    /\ ended => Len(walked) = NodeLen(space.root)

\* A parameter set the iterator printed passes validation when a user hands it
\* back (openjd run --task-param): parsing what Display wrote loses nothing that
\* validate_containment looks at.  The exception is a chunk that prints as more
\* items than MAX_RANGE_EXPR_CHUNKS, which the parser refuses.
Printed(set) == Display(set[space.chunkName].ranges, set[space.chunkName].contiguous)
HandedBackIsContained ==
  \A i \in DOMAIN walked :
    IF space.chunkName \notin DOMAIN walked[i] THEN NodeHas(space.root, walked[i])
    ELSE Len(Printed(walked[i])) <= MaxChunks =>
           \E back \in ParseRangeExpr(Printed(walked[i])) :
             NodeHas(space.root, [walked[i] EXCEPT ![space.chunkName].ranges = back])

\* Chunks are no larger than the size in force, and a contiguous chunk has no gap.
ChunksRespectTheirLimits ==
  \A i \in DOMAIN walked : space.chunkName \in DOMAIN walked[i] =>
    LET vals == Elements(walked[i][space.chunkName].ranges)
    IN  /\ ~space.adaptive => Len(vals) <= space.size
        /\ walked[i][space.chunkName].contiguous =>
             \A k \in 1..(Len(vals) - 1) : vals[k + 1] = vals[k] + 1
=============================================================================
