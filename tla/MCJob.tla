-------------------------------- MODULE MCJob --------------------------------
(***************************************************************************)
(* A job from its template to its tasks: the expressions it holds as they  *)
(* are evaluated, range expressions and combination expressions as they    *)
(* are read, the parameter space as it is walked, the steps as they are    *)
(* sorted and selected, and the run itself.  Each behaviour is about one   *)
(* of these topics; the others stay idle.                                  *)
(***************************************************************************)
EXTENDS ParamSpace, StepSelection, CliRun, Evaluator

VARIABLES topic, input      \* input: what is read or evaluated, grown or chosen

jobVars == <<topic, input, spaceVars, topoVars, cliVars>>

-----------------------------------------------------------------------------
(* The expression language: types, values and calls from small samples,    *)
(* and expressions grown by wrapping one in another, with the laws that    *)
(* tie the parts of the language together.                                 *)

MCMinInt == -8
Enough == 100000

IntList(s) == VList(TInt, [i \in DOMAIN s |-> VInt(s[i])])
TestTypes ==
    {TNull, TBool, TInt, TFloat, TString, TPath, TRange, TAny, TNoReturn, T1, ListOf(TInt), ListOf(TFloat),
     ListOf(TPath), ListOf(TNull), ListOf(ListOf(TInt)), ListOf(ListOf(TNull)), UnresolvedOf(TAny),
     UnresolvedOf(TInt), UnresolvedOf(ListOf(TString)), UnionOf(<<TNull, TInt>>), UnionOf(<<TString, TInt>>),
     UnionOf(<<TPath, TFloat, TInt>>), UnionOf(<<TBool, TNull, ListOf(TInt)>>), ListOf(UnionOf(<<TInt, TFloat>>)),
     ListOf(UnionOf(<<TInt, TFloat, TPath>>)), UnionOf(<<ListOf(TString), TRange>>), Signature(<<TInt, T1>>, T1),
     Signature(<<>>, ListOf(T1))}
TestValues ==
    {VNull, VBool(TRUE), VBool(FALSE), VInt(0), VInt(2), VInt(-3), VInt(MinInt), VInt(MaxInt), VFloat(1), VFloat(4),
     VFloat(-3), VString(""), VString("a"), VString("1"), VString("1.5"), VString("true"), VString("1-2"),
     VPath("a"), VPath("a.b"), VRange(<<1>>), VRange(<<1, 2>>), VRange(<<1, 3, 5>>), EmptyList, IntList(<<1, 2>>),
     IntList(<<2, 1, 2>>), VList(TFloat, <<VFloat(1), VFloat(4)>>), VList(TFloat, <<>>), VList(TBool, <<VBool(TRUE)>>),
     VList(TString, <<VString("b"), VString("1")>>), VList(TPath, <<VPath("a")>>),
     VList(ListOf(TInt), <<IntList(<<1>>), IntList(<<>>)>>)}
Arity(k) == {f \in FunctionNames : \E e \in Range(get_signatures(f)) : Len(SigParams(e[2])) = k}
TestCalls == (Arity(1) \X {<<v>> : v \in TestValues}) \cup (Arity(2) \X (TestValues \X TestValues))
TestBounds == LET bound == {VNull} \cup {VInt(i) : i \in {MinInt, -5, -2, -1, 0, 1, 3, 5, MaxInt}} IN bound \X bound \X bound
FewTypes == {TNull, TAny, UnresolvedOf(TInt), UnionOf(<<TString, TInt>>), TNoReturn}

-----------------------------------------------------------------------------
(* Types *)

RECURSIVE Inside(_)
Inside(t) == {Code(t)} \cup UNION {Inside(p) : p \in Range(Params(t))}
\* A signature inside a union, or a type with an error in it, has no text of its own.
TypesReadBack(t) == ("signature" \in Inside(t) => Code(t) = "signature") => ParseType(TypeText(t)) = {t}
UnionsAreSets(s, t, u) ==
    LET st == UnionOf(<<s, t>>)
    IN  /\ st = UnionOf(<<t, s>>)
        /\ UnionOf(<<st, u>>) = UnionOf(<<s, UnionOf(<<t, u>>)>>)
        /\ UnionOf(<<st, s>>) = st
        /\ Satisfies(s, st) \/ ~DenotesRuntimeValues(st) \/ ~Satisfies(s, s)
\* A coerced value has a type that was asked for, and is left alone thereafter;
\* without the value, its type is among those foreseen.  Two gaps are left out:
\* a list may panic, and an empty list coerced to a list of a union keeps no type.
CoercionIsForeseen(v, t) ==
    \A w \in coerce(v, t) \ {Panic, EmptyList} :
        /\ Satisfies(expr_type(w), t)
        /\ coerce(w, t) = {w}
        /\ \E u \in coerce_type(expr_type(v), t) : Satisfies(expr_type(w), u)
OrdersAgree(v, w) ==
    /\ equals(v, w) = equals(w, v)
    /\ compare(v, w) = {0 - d : d \in compare(w, v)}
    /\ compare(v, w) # {} => (equals(v, w) <=> compare(v, w) = {0})

-----------------------------------------------------------------------------
(* Calls *)

Open(v) == VUnresolved(expr_type(v))
TypesOf(vs) == [i \in DOMAIN vs |-> expr_type(vs[i])]
\* What a call returns has the type derived for the call, and the type the call
\* has when some arguments are not known.  Two gaps are left out: an empty result
\* may be untyped, and the sum of no floats is an int.
CallIsForeseen(name, args) ==
    LET did == call(name, args)
        opened(I) == [i \in DOMAIN args |-> IF i \in I THEN Open(args[i]) ELSE args[i]]
        covers(t, r) == Satisfies(expr_type(r), EraseTypeVars(t))
    IN  \A r \in did.result \ {Panic, EmptyList} : ~(name = "sum" /\ r = VInt(0)) =>
          /\ \E t \in derive_return_type(name, TypesOf(args)) : covers(t, r)
          /\ \A I \in SUBSET (DOMAIN args) \ {{}} :
               \E u \in call(name, opened(I)).result : covers(u[2], r)
\* Division rounds down, and the remainder has the divisor's sign.
DivisionIsExact(a, b) ==
    \A q \in call("__floordiv__", <<a, b>>).result, m \in call("__mod__", <<a, b>>).result :
        /\ Halves(a) = q[2] * Halves(b) + Halves(m)
        /\ Sign(Halves(m)) \in {0, Sign(Halves(b))}
\* A slice of a range, of a string and of a list takes the same positions.
SlicesAgree(n, bounds) ==
    LET ints == [i \in 1..n |-> i]
        text == SubSeq("12345", 1, n)
        slice(v) == call("__getitem__", <<v>> \o bounds).result
        shown(s) == FoldLeft(LAMBDA acc, v : acc \o ToString(v[2]), "", s)
    IN  \A l \in slice(IntList(ints)), s \in slice(VString(text)), r \in slice(VRange(ints)) :
          /\ shown(list_elements(l)) = s[2]
          /\ equals(l, r)
\* Sorting and removing repeats keep what the order and equality say.
SortsAreSorted(v) ==
    LET items == list_elements(v)
    IN  /\ \A w \in call("sorted", <<v>>).result :
             /\ \A i \in 1..(Len(list_elements(w)) - 1) :
                  compare(list_elements(w)[i], list_elements(w)[i + 1]) # {1}
             /\ Len(list_elements(w)) = Len(items)
        /\ \A w \in call("unique", <<v>>).result : \A x \in Range(items) :
             Cardinality({i \in DOMAIN list_elements(w) : equals(list_elements(w)[i], x)}) = 1
ValuesLawful(v, w) ==
    /\ OrdersAgree(v, w)
    /\ Kind(v) \in NumberKind /\ Kind(w) \in NumberKind => DivisionIsExact(v, w)
    /\ is_list(v) => SortsAreSorted(v)

-----------------------------------------------------------------------------
(* Expressions *)

X == <<"name", "X">>
Lit(i) == <<"int", i>>
Symbols0 == {VInt(2), VBool(TRUE), VString("a"), VRange(<<1, 2>>), IntList(<<1, 2>>), EmptyList}
Leaves == {X, Lit(0), Lit(7), <<"float", 1>>, <<"str", "a">>, <<"bool", FALSE>>, <<"null">>, <<"listlit", <<>>>>}
\* An expression with `n` in it.
Around(n) ==
    {<<"bin", op, n, l>> : op \in {"__add__", "__floordiv__"}, l \in {Lit(7), X}} \cup
    {<<"bin", "__mul__", X, n>>, <<"un", "__neg__", n>>, <<"un", "__not__", n>>, <<"attr", n, "name">>} \cup
    {<<"boolop", op, ns>> : op \in {"and", "or"}, ns \in {<<n, X>>, <<X, n>>, <<X, n, Lit(1)>>}} \cup
    {<<"cmp", ops, ns>> : ops \in {<<"__lt__">>, <<"__contains__">>}, ns \in {<<n, X>>, <<X, n>>}} \cup
    {<<"cmp", <<"__eq__", "__lt__">>, <<Lit(0), n, X>>>>} \cup
    {<<"if", X, n, Lit(1)>>, <<"if", n, X, <<"str", "a">>>>, <<"if", <<"cmp", <<"__eq__">>, <<X, Lit(2)>>>>, Lit(1), n>>} \cup
    {<<"call", f, <<n>>>> : f \in {"sorted", "sum", "string", "range", "len", "fail", "__neg__"}} \cup
    {<<"call", "min", <<n, X>>>>, <<"method", n, "join", <<<<"str", "-">>>>>>} \cup
    {<<"listlit", ns>> : ns \in {<<n>>, <<n, X>>, <<Lit(1), n>>}} \cup
    {<<"sub", n, Lit(0)>>, <<"sub", <<"listlit", <<Lit(1), X>>>>, n>>, <<"slice", n, <<"null">>, X, <<"null">>>>,
     <<"slice", n, <<"null">>, <<"null">>, <<"un", "__neg__", Lit(1)>>>>} \cup
    {<<"comp", <<"bin", "__add__", <<"name", "y">>, Lit(1)>>, "y", n, <<>>>>,
     <<"comp", n, "y", <<"call", "range", <<Lit(3)>>>>, <<>>>>,
     <<"comp", <<"name", "y">>, "y", X, n>>,
     <<"comp", <<"name", "y">>, "y", <<"listlit", <<Lit(1), Lit(2)>>>>, <<"cmp", <<"__lt__">>, <<<<"name", "y">>, n>>>>>>}
Targets == {{}, {TString}, {ListOf(TFloat)}}
AroundAll(es, without) == {w \in UNION {Around(e) : e \in es} : w[1] \notin without}
Subject(es, vals) == {<<e, v, t>> : e \in es, v \in vals, t \in Targets}
Bounded ==
    Subject(Leaves \cup AroundAll(Leaves, {}), Symbols0 \cup {Open(VInt(2)), Open(VBool(TRUE))}) \cup
    Subject(AroundAll(AroundAll({X, Lit(7), <<"str", "a">>}, {}), {}), {VInt(2), VString("a"), IntList(<<1, 2>>), Open(VBool(TRUE))})
\* Left out, because what is foreseen is not what happens: `and` and `or`, which
\* are foreseen as bool; choices, where a call takes the first type that fits; lists
\* of lists, whose promotion is not foreseen; the reversed range, which is a list;
\* and empty lists, which have no type.
Foreseeable ==
    LET some == Leaves \ {<<"bool", FALSE>>, <<"listlit", <<>>>>}
        known == {VInt(2), VBool(TRUE), VString("a"), IntList(<<1, 2>>)}
    IN  Subject(some \cup AroundAll(some, {"boolop"}), known) \cup
        Subject(AroundAll(AroundAll({X, Lit(7), <<"float", 1>>}, {"boolop", "if"}), {"boolop", "listlit"}), known)

Evaluate(n, target, v, mem, ops) == evaluate(n, target, ("X" :> v), mem, ops)
\* What stays tracked is the value returned, and every level was left again.
AccountsBalance(r) ==
    r.st = "ok" => r.ev.mem = memory_size(r.v) /\ r.ev.depth = 0 /\ r.ev.peak >= r.ev.mem
\* A limit stops an evaluation or leaves its outcome as it is; the operations
\* allowed are exactly those performed.
LimitsOnlyStop(n, target, v) ==
    LET free == Evaluate(n, target, v, Enough, Enough)
        same(r) == r.st = free.st /\ r.v = free.v
    IN  free.st # "panic" =>
        /\ AccountsBalance(free)
        /\ \A ops \in {0, 2} \cup (Larger2(free.ev.ops - 1, 0)..free.ev.ops) :
             LET r == Evaluate(n, target, v, Enough, ops)
             IN  IF free.ev.ops <= ops THEN same(r) ELSE r.st = "budget"
        /\ \A mem \in {100, 200, free.ev.peak - 1} :
             LET r == Evaluate(n, target, v, mem, Enough) IN r.st = "budget" \/ (same(r) /\ r.ev.peak <= mem)
        /\ Evaluate(n, target, v, free.ev.peak - 1, Enough).st = "budget"
\* What is refused before X is known fails once it is; what succeeds then has the
\* type that was foreseen.
EvaluationIsForeseen(n, target, v) ==
    LET run == Evaluate(n, target, v, Enough, Enough)
        early == Evaluate(n, target, Open(v), Enough, Enough)
    IN  run.st = "ok" /\ run.v # EmptyList =>
                         /\ early.st = "ok"
                         /\ Satisfies(expr_type(run.v), EraseTypeVars(unwrap_unresolved(expr_type(early.v))))

-----------------------------------------------------------------------------
(* Texts, spaces, graphs and jobs.                                         *)

\* Range expressions: up to two items, with ends at the limits of the values; two
\* pairs of values print as one item more than MaxChunks.
RangeEnds == {-Bound, 1 - Bound, -1, 0, 2, Bound - 1}
RangeItem == {<<a>> : a \in RangeEnds} \cup {<<a, b>> : a, b \in RangeEnds}
             \cup {<<a, b, s>> : a, b \in RangeEnds, s \in {-3, 0, 1, 2}}

\* Combination expressions: up to six tokens.
Token == {"A", "B", "*", "(", ")", ","}

\* Parameter spaces: lists and range expressions, contiguous or not, static and
\* adaptive chunks, alone and in products and associations.
R(a, b, s) == [start |-> a, end |-> b, step |-> s]
ParamA == IntParam("A", ListRange(<<7, 5>>))
ParamB == IntParam("B", ExprRange(<<R(1, 2, 1)>>))
ChunkRange == {ListRange(<<3, 1, 2>>), ListRange(<<1, 2, 4, 6, 7>>), ExprRange(<<R(1, 5, 2), R(6, 7, 1)>>),
               ExprRange(<<R(1, 2, 1), R(3, 3, 2), R(4, 6, 1)>>), ExprRange(<<R(2, 6, 2)>>),
               ExprRange(<<R(0, 6, 1)>>)}
FixedChunk == {ChunkParam("C", r, c, n, 0) : r \in ChunkRange, c \in BOOLEAN, n \in 1..3}
AdaptedChunk == {ChunkParam("C", r, c, 2, 4) :
                    r \in {ListRange(<<2, 3, 5, 6>>), ExprRange(<<R(1, 3, 1)>>)}, c \in BOOLEAN}
MCSpace ==
    {[defs |-> <<c>>, combination |-> <<>>] : c \in FixedChunk \cup AdaptedChunk}
    \cup {[defs |-> <<c, ParamA>>, combination |-> comb] :
            c \in {d \in FixedChunk : d.taskCount = 2} \cup {d \in AdaptedChunk : ~d.range.list},
            comb \in {<<>>, <<"C", "*", "A">>}}
    \cup {[defs |-> <<c, ParamA, ParamB>>, combination |-> <<"C", "*", "(", "A", ",", "B", ")">>] :
            c \in {d \in FixedChunk : d.taskCount = 2}}
    \cup {[defs |-> <<ParamA, ParamB>>, combination |-> comb] : comb \in {<<>>, <<"*">>}}
    \cup {[defs |-> <<>>, combination |-> <<>>]}

\* Dependency graphs: every one of three steps with the dependencies in every
\* order, and every one of four steps without self-dependencies.
Orders(S) == {q \in [1..Cardinality(S) -> S] : \A i, j \in DOMAIN q : i # j => q[i] # q[j]}
MCGraphs ==
    [1..3 -> UNION {Orders(S) : S \in SUBSET (1..3)}]
    \cup {g \in [1..4 -> {SetToSeq(S) : S \in SUBSET (1..4)}] : \A s \in 1..4 : s \notin ToSet(g[s])}

\* Jobs of two steps, with environments around the job and inside the steps.
Env(i, enter, exit, wrap, fail) ==
    [id |-> i, onEnter |-> enter, onExit |-> exit, wrap |-> wrap, varsFail |-> fail]
Tasks(k, n, l) == [kind |-> k, n |-> n, limit |-> l]
OuterEnvs == {<<>>, <<Env(1, TRUE, TRUE, FALSE, FALSE), Env(2, FALSE, TRUE, TRUE, FALSE)>>,
              <<Env(1, TRUE, FALSE, FALSE, FALSE), Env(2, FALSE, TRUE, FALSE, TRUE)>>}
StepEnvs == {<<>>, <<Env(3, TRUE, TRUE, FALSE, FALSE)>>,
             <<Env(3, TRUE, TRUE, TRUE, FALSE), Env(4, FALSE, FALSE, FALSE, FALSE)>>}
MCJobs ==
    {[outer |-> o, steps |-> <<[envs |-> i, plan |-> p], [envs |-> j, plan |-> q]>>] :
        o \in OuterEnvs, i \in StepEnvs, j \in {<<>>, <<Env(5, TRUE, TRUE, TRUE, FALSE)>>},
        p \in {Tasks("single", 1, 0), Tasks("space", 2, 0), Tasks("space", 3, 1),
               Tasks("explicit", 2, 0), Tasks("invalid", 0, 0)},
        q \in {Tasks("single", 1, 0), Tasks("space", 2, 0)}}
MCIds == 1..5

-----------------------------------------------------------------------------
IdleSpace ==
    /\ space = <<>> /\ iter = <<>> /\ nextIndex = 0 /\ chunkSize = 0
    /\ feedback = <<>> /\ walked = <<>> /\ ended = FALSE

IdleTopo ==
    /\ deps = <<>> /\ topoPc = "idle" /\ inDegree = <<>> /\ queue = <<>> /\ counted = 0
    /\ accepted = FALSE /\ mark = <<>> /\ stack = <<>> /\ order = <<>>

IdleCli ==
    /\ ApiInit
    /\ job = <<>> /\ cliPc = "idle" /\ scope = "outer" /\ at = 1 /\ stepAt = 1 /\ taskAt = 0
    /\ baseline = 0 /\ ledger = <<>> /\ sessionFailed = FALSE /\ interrupted = FALSE
    /\ signal = "none" /\ tasksRun = 0 /\ runError = FALSE /\ exitCode = 2
    /\ anyBad = FALSE /\ rejected = FALSE

JobInit ==
    /\ input = <<>>
    /\ \/ topic \in {"range", "combination", "types", "values", "call", "slice", "bounded", "foreseen"} /\ IdleSpace /\ IdleTopo /\ IdleCli
       \/ topic = "space" /\ SpaceInit /\ IdleTopo /\ IdleCli
       \/ topic = "steps" /\ TopoInit /\ IdleSpace /\ IdleCli
       \/ topic = "run" /\ CliInit /\ IdleSpace /\ IdleTopo

JobNext ==
    /\ UNCHANGED topic
    /\ \/ /\ topic = "range" /\ Len(input) < 2
          /\ \E i \in RangeItem : input' = Append(input, i)
          /\ UNCHANGED <<spaceVars, topoVars, cliVars>>
       \/ /\ topic = "combination" /\ Len(input) < 6
          /\ \E t \in Token : input' = Append(input, t)
          /\ UNCHANGED <<spaceVars, topoVars, cliVars>>
       \/ /\ topic \in {"types", "values", "call", "slice", "bounded", "foreseen"} /\ input = <<>>
          /\ input' \in CASE topic = "types" -> TestTypes \X TestTypes
                          [] topic = "values" -> TestValues \X (TestTypes \cup TestValues)
                          [] topic = "call" -> TestCalls
                          [] topic = "slice" -> (0..4) \X TestBounds
                          [] topic = "bounded" -> Bounded
                          [] OTHER -> Foreseeable
          /\ UNCHANGED <<spaceVars, topoVars, cliVars>>
       \/ topic = "space" /\ SpaceNext /\ UNCHANGED <<input, topoVars, cliVars>>
       \/ topic = "steps" /\ TopoNext /\ UNCHANGED <<input, spaceVars, cliVars>>
       \/ topic = "run" /\ CliNext /\ UNCHANGED <<input, spaceVars, topoVars>>

\* tokio runs the command and the handler; a session call whose process has
\* ended returns, and a process whose token is cancelled ends (Session shows
\* that as CancelEndsAction).  A process left alone may run for ever.
JobFairness ==
    /\ WF_jobVars(topic = "run" /\ (sessState # "Busy" \/ verdict # "none") /\ CliStep
                  /\ UNCHANGED <<topic, input, spaceVars, topoVars>>)
    /\ WF_jobVars(topic = "run" /\ CancelToken /\ UNCHANGED <<topic, input, spaceVars, topoVars>>)
    /\ WF_jobVars(topic = "run" /\ tokenDown /\ ActionEnds(FALSE)
                  /\ UNCHANGED <<topic, input, spaceVars, topoVars>>)

JobSpec == JobInit /\ [][JobNext]_jobVars /\ JobFairness

-----------------------------------------------------------------------------
\* The laws of the expression language are about the input that a step hands over.

\* A limit on memory or operations stops an evaluation or changes nothing about
\* its outcome, and the evaluator's books balance (eval/evaluator.rs).
EvaluationIsBounded ==
    [][topic = "bounded" => LimitsOnlyStop(input'[1], input'[3], input'[2])]_jobVars

\* What an expression is found to be before its symbols are known covers what it
\* evaluates to, and so do the types derived for calls and coercions (eval/evaluator.rs,
\* value.rs, function_library.rs, types.rs).
ResultsAreForeseen ==
    [][CASE topic = "foreseen" -> EvaluationIsForeseen(input'[1], input'[3], input'[2])
         [] topic = "values" -> input'[2] \in TestTypes => CoercionIsForeseen(input'[1], input'[2])
         [] topic = "call" -> CallIsForeseen(input'[1], input'[2])
         [] OTHER -> TRUE]_jobVars

\* Unions are sets of types that can be read back, order and equality agree,
\* division is exact, slices of every kind agree and sorting sorts (types.rs,
\* value.rs, functions/arithmetic.rs, comparison.rs, list.rs).
OperatorsAreLawful ==
    [][CASE topic = "types" -> TypesReadBack(input'[1])
                               /\ \A u \in FewTypes : UnionsAreSets(input'[1], input'[2], u)
         [] topic = "values" -> input'[2] \in TestValues => ValuesLawful(input'[1], input'[2])
         [] topic = "slice" -> SlicesAgree(input'[1], input'[2])
         [] OTHER -> TRUE]_jobVars

\* A range expression denotes the values its text says, in every operation on it
\* (len, contains, value_at, slice), printing it and reading it back loses
\* nothing unless the printed text has more items than MAX_RANGE_EXPR_CHUNKS
\* allows, and the template validator and the iterator read a combination
\* expression alike (range_expr.rs, structure.rs:857, step_param_space.rs:1600).
JobTextsAreExact ==
    /\ topic = "range" => Denotes(input) /\ RoundTrips(input)
    /\ topic = "combination" => CombinationAgrees(input, {"A", "B"})

\* A walk of the parameter space visits every task of the template exactly once,
\* in chunks that respect their limits; random access finds the same tasks, and
\* what the walk prints is accepted when it is handed back (step_param_space.rs).
\* The steps the command walks are those its selection needs (run/mod.rs).
WalkIsComplete ==
    /\ topic = "space" => /\ EveryTaskOnce
                          /\ ChunksRespectTheirLimits
                          /\ RandomAccessAgrees
                          /\ HandedBackIsContained
    /\ topic = "steps" => SelectionIsClosed
=============================================================================
