------------------------------ MODULE Evaluator ------------------------------
(***************************************************************************)
(* The evaluator of parsed expressions (openjd-expr, eval/evaluator.rs),   *)
(* under a limit on the memory its live values take and one on the         *)
(* operations it performs.  An expression is a tuple that starts with its  *)
(* kind; symbols map to values, or to the type of a value not yet known.   *)
(*                                                                         *)
(* The evaluator's own state is a record: the memory in use, its peak, the *)
(* operations counted, the depth of the recursion, the two limits and the  *)
(* symbols.  A result is a value, a value error, a budget error or a       *)
(* panic, with the state it leaves.                                        *)
(***************************************************************************)
EXTENDS FunctionLibrary

CONSTANT MaxExpressionDepth

NewEvaluator(symbols, memoryLimit, operationLimit) ==
    [mem |-> 0, peak |-> 0, ops |-> 0, depth |-> 0,
     memLimit |-> memoryLimit, opLimit |-> operationLimit, syms |-> symbols]
Ok(v, ev) == [st |-> IF v = Panic THEN "panic" ELSE "ok", v |-> v, ev |-> ev]
Fail(kind, ev) == [st |-> kind, v |-> VNull, ev |-> ev]
ValueError(ev) == Fail("value", ev)
\* Whether an error is, or contains, a budget exceedance.
contains_budget_error(r) == r.st \in {"budget", "panic"}

count_ops(n, ev) ==
    LET after == [ev EXCEPT !.ops = @ + n]
    IN  IF after.ops > ev.opLimit THEN Fail("budget", after) ELSE Ok(VNull, after)
count_op(ev) == count_ops(1, ev)
check_memory(bytes, ev) == IF ev.mem + bytes > ev.memLimit THEN Fail("budget", ev) ELSE Ok(VNull, ev)
track(v, ev) ==
    LET used == ev.mem + memory_size(v)
        after == [ev EXCEPT !.mem = used, !.peak = Larger2(@, used)]
    IN  IF used > ev.memLimit THEN Fail("budget", after) ELSE Ok(v, after)
Released(bytes, ev) == [ev EXCEPT !.mem = Larger2(@ - bytes, 0)]
release(v, ev) == Released(memory_size(v), ev)
SizeOf(vs) == SumOf([i \in DOMAIN vs |-> memory_size(vs[i])])

Then(r, F(_)) == IF r.st = "ok" THEN F(r) ELSE r
\* A function's own charges, and its value, which is not yet tracked.
Perform(did, ev) ==
    Then(count_ops(did.ops, ev),
         LAMBDA c : Then(check_memory(did.bytes, c.ev),
         LAMBDA granted : IF did.result = {} THEN ValueError(granted.ev)
                          ELSE Ok(CHOOSE v \in did.result : TRUE, granted.ev)))
\* The arguments are released whether the call succeeds or fails.
dispatch_released(name, args, ev) ==
    Then(count_op(ev),
         LAMBDA c :
            LET done == Perform(call(name, args), c.ev)
                free == [done EXCEPT !.ev = Released(SizeOf(args), @)]
            IN  Then(free, LAMBDA r : track(r.v, r.ev)))
make_list_checked(es, hint, ev) == Perform(Checked(0, 0, es, hint), ev)

-----------------------------------------------------------------------------
(* Names *)

\* The dotted name of a chain of attributes that starts at a name.
RECURSIVE build_dotted_name_from_attr(_)
build_dotted_name_from_attr(n) ==
    CASE n[1] = "name" -> {n[2]}
      [] n[1] = "attr" -> {base \o "." \o n[3] : base \in build_dotted_name_from_attr(n[2])}
      [] OTHER -> {}
eval_name(n, ev) == IF n[2] \in DOMAIN ev.syms THEN track(ev.syms[n[2]], ev) ELSE ValueError(ev)

-----------------------------------------------------------------------------
(* Lists *)

\* The type of a list some element of which is unresolved.
TypeOfElement(e) == unwrap_unresolved(expr_type(e))
Mixes(s, t) == {s, t} \in {{TInt, TFloat}, {TPath, TString}}
unresolved_list_from_elements(es) ==
    LET types == [i \in DOMAIN es |-> TypeOfElement(es[i])]
        fits(t) == t = types[1] \/ Mixes(t, types[1]) \/ "unresolved" \in {Code(t), Code(types[1])}
        join(a, t) == IF Code(t) = "unresolved" THEN a
                      ELSE IF Code(a) = "unresolved" THEN t
                      ELSE IF {a, t} = {TInt, TFloat} THEN TFloat
                      ELSE IF {a, t} = {TPath, TString} THEN TString ELSE a
    IN  IF \E i \in DOMAIN types : ~fits(types[i]) THEN {}
        ELSE {VUnresolved(ListOf(FoldLeft(join, types[1], Tail(types))))}
TooNested(es) == \E i \in DOMAIN es : Code(expr_type(es[i])) = "list" /\ Code(expr_type(es[i])[2]) = "list"
\* The list of these elements, which are no longer tracked one by one.
ListOfUnresolved(es, ev) ==
    LET v == unresolved_list_from_elements(es)
    IN  IF v = {} THEN ValueError(ev) ELSE track(CHOOSE u \in v : TRUE, ev)
BuiltList(es, hint, ev) == Then(make_list_checked(es, hint, ev), LAMBDA r : track(r.v, r.ev))
Compatible(types) ==
    \/ Cardinality(types) = 1
    \/ \A t \in types : Code(t) = "nulltype" \/ \E s \in types : Mixes(s, t)
    \/ \A t \in types : Code(t) \in {"list", "nulltype"}
ElementTarget(target) == {t[2] : t \in {u \in target : Code(u) = "list"}}

BoolCompatible(t) ==
    \/ t = TBool
    \/ Code(t) \in {"unresolved", "any"}
    \/ Code(t) = "union" /\ TBool \in Range(Params(t))
Undecided(v) == v = VNull \/ v = VBool(FALSE)

\* BudgetedVec::push: capacity doubles from four when it is full.
CapacityFor(len) == IF len <= 4 THEN 4 ELSE IF len <= 8 THEN 8 ELSE 16
PushChecked(es, e, ev) ==
    LET more == Append(es, e)
    IN  check_memory(SizeOf(more) + (CapacityFor(Len(more)) - Len(more)) * ValueSize, ev)

-----------------------------------------------------------------------------
(* The targets a call's candidate signatures give its arguments *)

call_arg_targets(name, target, n) ==
    LET tt == CHOOSE t \in target : TRUE
        candidates == SelectSeq(get_signatures(name),
                        LAMBDA e : Len(SigParams(e[2])) = n /\ MatchType(SigReturn(e[2]), tt) # {})
        params(i) == [k \in DOMAIN candidates |-> SigParams(candidates[k][2])[i]]
    IN  [i \in 1..n |-> IF target = {} \/ candidates = <<>> THEN {}
                        ELSE IF \E t \in Range(params(i)) : IsSymbolic(t) THEN {}
                        ELSE {IF Cardinality(Range(params(i))) = 1 THEN params(i)[1] ELSE UnionOf(params(i))}]

-----------------------------------------------------------------------------
(* Evaluation *)

RECURSIVE eval_node(_, _, _), evaluate_inner(_, _, _), EvalEach(_, _, _, _), eval_boolop(_, _, _, _, _),
          CompareFrom(_, _, _, _, _), ComprehendFrom(_, _, _, _, _, _, _)

\* Evaluates the nodes in order, each toward its target; the values are r.vs.
EvalEach(nodes, targets, vs, ev) ==
    IF nodes = <<>> THEN [st |-> "ok", v |-> VNull, ev |-> ev, vs |-> vs]
    ELSE Then(eval_node(Head(nodes), Head(targets), ev),
              LAMBDA r : EvalEach(Tail(nodes), Tail(targets), Append(vs, r.v), r.ev))
Untargeted(nodes) == [i \in DOMAIN nodes |-> {}]

\* A sub-expression whose value error the caller absorbs: then the memory in
\* use is what it was, and what was spent stays spent.
SpeculateOnAll(n, target, ev) ==
    LET r == eval_node(n, target, ev)
    IN  IF r.st = "ok" THEN r ELSE [r EXCEPT !.st = "absorbed", !.ev.mem = ev.mem]
eval_speculative(n, target, ev) ==
    LET r == eval_node(n, target, ev)
    IN  IF r.st = "ok" \/ contains_budget_error(r) THEN r
        ELSE [r EXCEPT !.st = "absorbed", !.ev.mem = ev.mem]

eval_attribute(n, ev) ==
    LET dotted == build_dotted_name_from_attr(n) \cap DOMAIN ev.syms
    IN  IF dotted # {}
        THEN Then(count_op(ev), LAMBDA c : track(ev.syms[CHOOSE d \in dotted : TRUE], c.ev))
        ELSE Then(eval_node(n[2], {}, ev),
                  LAMBDA base : dispatch_released("__property_" \o n[3] \o "__", <<base.v>>, base.ev))
eval_binop(n, ev) ==
    Then(EvalEach(<<n[3], n[4]>>, <<{}, {}>>, <<>>, ev), LAMBDA r : dispatch_released(n[2], r.vs, r.ev))
\* The least integer is written as the negation of a literal that is none.
eval_unaryop(n, ev) ==
    Then(count_op(ev),
         LAMBDA c : IF n[2] = "__neg__" /\ n[3][1] = "int"
                    THEN (IF n[3][2] <= 0 - MinInt THEN track(VInt(0 - n[3][2]), c.ev) ELSE ValueError(c.ev))
                    ELSE Then(eval_node(n[3], {}, c.ev), LAMBDA r : dispatch_released(n[2], <<r.v>>, r.ev)))
\* Decides(op, v): the operator stops at v.
Decides(op, v) == IF op = "and" THEN Undecided(v) ELSE ~Undecided(v)
eval_boolop(op, nodes, seen, last, ev) ==
    IF nodes = <<>> THEN (IF seen THEN track(VUnresolved(TBool), ev) ELSE Ok(last, ev))
    ELSE LET r == IF seen THEN eval_speculative(Head(nodes), {}, ev) ELSE eval_node(Head(nodes), {}, ev)
             more(s, e) == eval_boolop(op, Tail(nodes), s, r.v, e)
         IN  IF r.st = "absorbed" THEN more(TRUE, r.ev)
             ELSE IF r.st # "ok" THEN r
             ELSE IF ~seen /\ is_unresolved(r.v) THEN more(TRUE, release(r.v, r.ev))
             ELSE IF Decides(op, r.v) THEN r
             ELSE IF ~seen /\ Len(nodes) = 1 THEN more(seen, r.ev)
             ELSE more(seen, release(r.v, r.ev))
CompareFrom(ops, nodes, left, seen, ev) ==
    Then(eval_node(Head(nodes), {}, ev),
         LAMBDA right :
            LET op == Head(ops)
                args == IF op \in {"__contains__", "__not_contains__"} THEN <<right.v, left>> ELSE <<left, right.v>>
            IN  Then(dispatch_released(op, args, right.ev),
                     LAMBDA r :
                        LET free == release(r.v, r.ev)
                            open == seen \/ is_unresolved(r.v)
                        IN  IF r.v = VBool(FALSE) THEN track(VBool(FALSE), free)
                            ELSE IF Len(ops) = 1
                            THEN track(IF open THEN VUnresolved(TBool) ELSE VBool(TRUE), free)
                            ELSE Then(track(right.v, free),
                                      LAMBDA kept : CompareFrom(Tail(ops), Tail(nodes), right.v, open, kept.ev))))
eval_compare(n, ev) ==
    Then(count_op(ev), LAMBDA c : Then(eval_node(Head(n[3]), {}, c.ev),
                       LAMBDA first : CompareFrom(n[2], Tail(n[3]), first.v, FALSE, first.ev)))

\* Both branches of a test that is not known; only their types are kept.
EitherBranch(n, target, ev) ==
    LET body == eval_speculative(n[3], target, ev)
        orelse == eval_speculative(n[4], target, body.ev)
        type(r) == unwrap_unresolved(expr_type(r.v))
        free(r, e) == IF r.st = "ok" THEN release(r.v, e) ELSE e
        freed == free(orelse, free(body, orelse.ev))
    IN  IF body.st \notin {"ok", "absorbed"} THEN body
        ELSE IF orelse.st \notin {"ok", "absorbed"} THEN orelse
        ELSE IF body.st # "ok" /\ orelse.st # "ok" THEN ValueError(freed)
        ELSE track(VUnresolved(IF body.st # "ok" THEN type(orelse) ELSE IF orelse.st # "ok" THEN type(body)
                               ELSE IF type(body) = type(orelse) THEN type(body)
                               ELSE UnionOf(<<type(body), type(orelse)>>)), freed)
eval_ifexp(n, target, ev) ==
    Then(count_op(ev), LAMBDA c : Then(eval_node(n[2], {}, c.ev),
         LAMBDA test :
            LET free == release(test.v, test.ev)
            IN  IF is_unresolved(test.v)
                THEN (IF BoolCompatible(TypeOfElement(test.v)) THEN EitherBranch(n, target, free) ELSE ValueError(free))
                ELSE IF Kind(test.v) # "bool" THEN ValueError(test.ev)
                ELSE eval_node(IF test.v[2] THEN n[3] ELSE n[4], target, free)))

\* A call's arguments are released before it runs; operators cannot be called by
\* their names.
IsDunder(name) == Len(name) > 1 /\ SubSeq(name, 1, 2) = "__" /\ SubSeq(name, Len(name) - 1, Len(name)) = "__"
FinishCall(name, method, args, ev) ==
    LET free == Released(SizeOf(args), ev)
    IN  IF IsDunder(name) THEN ValueError(free)
        ELSE Then(Perform(IF method THEN call_method(name, args) ELSE call(name, args), free),
                  LAMBDA r : track(r.v, r.ev))
eval_call(n, target, ev) ==
    LET targets == call_arg_targets(n[2], target, Len(n[3]))
    IN  Then(count_op(ev), LAMBDA c : Then(EvalEach(n[3], targets, <<>>, c.ev),
                           LAMBDA r : FinishCall(n[2], FALSE, r.vs, r.ev)))
EvalMethod(n, ev) ==
    Then(count_op(ev), LAMBDA c : Then(EvalEach(<<n[2]>> \o n[4], Untargeted(<<n[2]>> \o n[4]), <<>>, c.ev),
                       LAMBDA r : FinishCall(n[3], TRUE, r.vs, r.ev)))

\* Elements until one is null, which a list literal may not hold.
RECURSIVE EvalElements(_, _, _, _)
EvalElements(nodes, target, vs, ev) ==
    IF nodes = <<>> THEN [st |-> "ok", v |-> VNull, ev |-> ev, vs |-> vs]
    ELSE Then(eval_node(Head(nodes), target, ev),
              LAMBDA r : IF r.v = VNull THEN ValueError(r.ev)
                         ELSE EvalElements(Tail(nodes), target, Append(vs, r.v), r.ev))
CoercedAll(es, t) == [i \in DOMAIN es |-> coerce(es[i], t)]
eval_list(n, target, ev) ==
    LET elem == ElementTarget(target)
    IN  Then(EvalElements(n[2], elem, <<>>, ev),
             LAMBDA r :
                LET es == r.vs
                    free == Released(SizeOf(es), r.ev)
                    types == {expr_type(es[i]) : i \in DOMAIN es}
                    cast == CoercedAll(es, CHOOSE t \in elem : TRUE)
                IN  IF TooNested(es) THEN ValueError(r.ev)
                    ELSE IF \E i \in DOMAIN es : is_unresolved(es[i]) THEN ListOfUnresolved(es, free)
                    ELSE IF elem # {} /\ \E i \in DOMAIN es : cast[i] = {} THEN ValueError(free)
                    ELSE IF elem # {}
                    THEN BuiltList([i \in DOMAIN es |-> CHOOSE v \in cast[i] : TRUE], CHOOSE t \in elem : TRUE, free)
                    ELSE IF es # <<>> /\ ~Compatible(types) THEN ValueError(free)
                    ELSE BuiltList(es, IF es = <<>> THEN TNull ELSE expr_type(es[1]), free))

\* An omitted bound is a tracked null.
SubscriptUnresolved(v, bounds) ==
    LET t == unwrap_unresolved(expr_type(v))
    IN  IF is_unresolved(v) THEN {VUnresolved(t)}
        ELSE IF \A i \in DOMAIN bounds : ~is_unresolved(bounds[i]) THEN {}
        ELSE {VUnresolved(t) : k \in {k \in {"list", "string"} : Kind(v) = k}}
EvalSlice(n, v, ev) ==
    Then(EvalEach(<<n[3], n[4], n[5]>>, <<{}, {}, {}>>, <<>>, ev),
         LAMBDA r :
            LET open == SubscriptUnresolved(v, r.vs)
                args == <<v>> \o r.vs
            IN  IF r.vs[3] = VInt(0) THEN ValueError(r.ev)
                ELSE IF open # {} THEN track(CHOOSE u \in open : TRUE, Released(SizeOf(args), r.ev))
                ELSE dispatch_released("__getitem__", args, r.ev))
EvalIndex(n, v, ev) ==
    Then(eval_node(n[3], {}, ev),
         LAMBDA i : IF is_unresolved(i.v) /\ Code(TypeOfElement(i.v)) \notin {"int", "unresolved", "any"}
                    THEN ValueError(i.ev)
                    ELSE dispatch_released("__getitem__", <<v, i.v>>, i.ev))
eval_subscript(n, ev) ==
    Then(count_op(ev), LAMBDA c : Then(eval_node(n[2], {}, c.ev),
         LAMBDA r : IF Kind(r.v) = "path" THEN ValueError(r.ev)
                    ELSE IF n[1] = "slice" THEN EvalSlice(n, r.v, r.ev) ELSE EvalIndex(n, r.v, r.ev)))

\* A comprehension binds its variable in a child evaluator; what the child
\* spent counts, and what it tracked is dropped.
child_evaluator(ev, var, v) == [ev EXCEPT !.syms = (var :> v) @@ @]
absorb_spend_and_reset(ev, child, used) ==
    [ev EXCEPT !.peak = child.peak, !.ops = child.ops, !.mem = used]
eval_listcomp_unresolved(n, elem, ev) ==
    LET child == child_evaluator(ev, n[3], VUnresolved(elem))
        cond == IF n[5] = <<>> THEN Ok(VBool(TRUE), child) ELSE eval_node(n[5], {}, child)
        body == eval_node(n[2], {}, cond.ev)
        back(r) == [r EXCEPT !.ev = absorb_spend_and_reset(ev, r.ev, ev.mem)]
    IN  IF cond.st # "ok" THEN back(cond)
        ELSE IF ~BoolCompatible(TypeOfElement(cond.v)) THEN ValueError(back(cond).ev)
        ELSE IF body.st # "ok" THEN back(body)
        ELSE track(VUnresolved(ListOf(TypeOfElement(body.v))), back(body).ev)

\* One element after the other; `base` is the memory before the iterable.
ComprehendFrom(n, target, iterable, items, es, base, ev) ==
    IF items = <<>> THEN [st |-> "ok", v |-> VNull, ev |-> ev, vs |-> es]
    ELSE Then(count_op(ev), LAMBDA c :
        LET child == child_evaluator(c.ev, n[3], Head(items))
            cond == IF n[5] = <<>> THEN Ok(VBool(TRUE), child) ELSE eval_node(n[5], {}, child)
            elt == eval_node(n[2], ElementTarget(target), cond.ev)
            abandon(r) == [r EXCEPT !.ev = absorb_spend_and_reset(c.ev, r.ev, base)]
            next(r, vs) == ComprehendFrom(n, target, iterable, Tail(items), vs, base,
                                          absorb_spend_and_reset(c.ev, r.ev, c.ev.mem))
        IN  IF cond.st # "ok" THEN abandon(cond)
            ELSE IF is_unresolved(cond.v)
            THEN [st |-> "open", v |-> VNull, ev |-> absorb_spend_and_reset(c.ev, cond.ev, c.ev.mem)]
            ELSE IF Kind(cond.v) # "bool" THEN abandon(ValueError(cond.ev))
            ELSE IF ~cond.v[2] THEN next(cond, es)
            ELSE IF elt.st # "ok" THEN abandon(elt)
            ELSE LET pushed == PushChecked(es, elt.v, absorb_spend_and_reset(c.ev, elt.ev, c.ev.mem))
                 IN  IF pushed.st # "ok" THEN [pushed EXCEPT !.ev.mem = base] ELSE next(elt, Append(es, elt.v)))
FinishComprehension(r) ==
    LET es == r.vs
    IN  IF TooNested(es) THEN ValueError(r.ev)
        ELSE IF \E i \in DOMAIN es : is_unresolved(es[i]) THEN ListOfUnresolved(es, r.ev)
        ELSE BuiltList(es, IF es = <<>> THEN TNull ELSE expr_type(es[1]), r.ev)
eval_listcomp(n, target, ev) ==
    Then(eval_node(n[4], {}, ev),
         LAMBDA source :
            LET t == unwrap_unresolved(expr_type(source.v))
                elem == IF Code(t) = "list" THEN t[2] ELSE TInt
                items == IF Kind(source.v) = "range_expr" THEN RangeInts(source.v) ELSE list_elements(source.v)
                r == ComprehendFrom(n, target, source.v, items, <<>>, ev.mem, source.ev)
                freed == release(source.v, r.ev)
            IN  IF is_unresolved(source.v) THEN eval_listcomp_unresolved(n, elem, [source.ev EXCEPT !.mem = ev.mem])
                ELSE IF Kind(source.v) \notin {"list", "range_expr"} THEN ValueError([source.ev EXCEPT !.mem = ev.mem])
                ELSE IF r.st = "open" THEN eval_listcomp_unresolved(n, elem, freed)
                ELSE IF r.st # "ok" THEN r
                ELSE FinishComprehension([r EXCEPT !.ev = freed]))

evaluate_inner(n, target, ev) ==
    CASE n[1] = "int" -> IF n[2] <= MaxInt THEN track(VInt(n[2]), ev) ELSE ValueError(ev)
      [] n[1] = "float" -> track(VFloat(n[2]), ev)
      [] n[1] = "str" -> track(VString(n[2]), ev)
      [] n[1] = "bool" -> track(VBool(n[2]), ev)
      [] n[1] = "null" -> track(VNull, ev)
      [] n[1] = "name" -> eval_name(n, ev)
      [] n[1] = "attr" -> eval_attribute(n, ev)
      [] n[1] = "bin" -> eval_binop(n, ev)
      [] n[1] = "un" -> eval_unaryop(n, ev)
      [] n[1] = "boolop" -> Then(count_op(ev), LAMBDA c : eval_boolop(n[2], n[3], FALSE, VNull, c.ev))
      [] n[1] = "cmp" -> eval_compare(n, ev)
      [] n[1] = "if" -> eval_ifexp(n, target, ev)
      [] n[1] = "call" -> eval_call(n, target, ev)
      [] n[1] = "method" -> EvalMethod(n, ev)
      [] n[1] = "listlit" -> eval_list(n, target, ev)
      [] n[1] \in {"sub", "slice"} -> eval_subscript(n, ev)
      [] n[1] = "comp" -> eval_listcomp(n, target, ev)

\* A node's value, coerced toward its target and tracked as what it became.
eval_node(n, target, ev) ==
    LET r == evaluate_inner(n, target, [ev EXCEPT !.depth = @ + 1])
        back == [r EXCEPT !.ev.depth = ev.depth]
        free == release(back.v, back.ev)
        cast == coerce(back.v, CHOOSE t \in target : TRUE)
    IN  IF ev.depth + 1 > MaxExpressionDepth THEN ValueError(ev)
        ELSE IF back.st # "ok" \/ target = {} THEN back
        ELSE IF cast = {} THEN ValueError(free)
        ELSE LET v == CHOOSE v \in cast : TRUE IN IF v = Panic THEN Ok(v, free) ELSE track(v, free)
evaluate(n, target, symbols, memoryLimit, operationLimit) ==
    eval_node(n, target, NewEvaluator(symbols, memoryLimit, operationLimit))
=============================================================================
