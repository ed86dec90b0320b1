--------------------------- MODULE FunctionLibrary ---------------------------
(***************************************************************************)
(* The registry of functions and the choice of the overload a call gets    *)
(* (openjd-expr, function_library.rs and default_library.rs): an exact     *)
(* match first, then one that widens int to float or path to string, then  *)
(* a generic signature.  A call with an unresolved argument returns the    *)
(* type of its result only.                                                *)
(***************************************************************************)
EXTENDS ExprFunctions

\* A registered overload: the function's name, its signature and what it runs.
Entry(name, params, ret, impl) == <<name, Signature(params, ret), impl>>
T1 == <<"T1">>
T2 == <<"T2">>
T3 == <<"T3">>
AnyVar == <<"T">>
IntOrNull == <<"union", TInt, TNull>>
IntOrFloat == <<"union", TFloat, TInt>>

arithmetic == <<
    Entry("__add__", <<TInt, TInt>>, TInt, "add_int"),
    Entry("__sub__", <<TInt, TInt>>, TInt, "sub_int"),
    Entry("__mul__", <<TInt, TInt>>, TInt, "mul_int"),
    Entry("__truediv__", <<TInt, TInt>>, TFloat, "truediv_int"),
    Entry("__floordiv__", <<TInt, TInt>>, TInt, "floordiv_int"),
    Entry("__mod__", <<TInt, TInt>>, TInt, "mod_int"),
    Entry("__neg__", <<TInt>>, TInt, "neg_int"),
    Entry("__pos__", <<TInt>>, TInt, "pos_int"),
    Entry("__add__", <<TFloat, TFloat>>, TFloat, "add_float"),
    Entry("__sub__", <<TFloat, TFloat>>, TFloat, "sub_float"),
    Entry("__mul__", <<TFloat, TFloat>>, TFloat, "mul_float"),
    Entry("__floordiv__", <<TFloat, TFloat>>, TInt, "floordiv_float"),
    Entry("__mod__", <<TFloat, TFloat>>, TFloat, "mod_float"),
    Entry("__neg__", <<TFloat>>, TFloat, "neg_float"),
    Entry("__pos__", <<TFloat>>, TFloat, "pos_float")>>
string_ops == <<
    Entry("__add__", <<TString, TString>>, TString, "add_string"),
    Entry("__add__", <<TString, TRange>>, TString, "add_string_range"),
    Entry("__add__", <<TRange, TString>>, TString, "add_range_string"),
    Entry("__mul__", <<TString, TInt>>, TString, "mul_string")>>
list_ops == <<
    Entry("__add__", <<ListOf(T1), ListOf(T2)>>, ListOf(T3), "add_list_list"),
    Entry("__add__", <<TRange, ListOf(T1)>>, ListOf(T2), "add_range_list"),
    Entry("__add__", <<ListOf(T1), TRange>>, ListOf(T2), "add_list_range"),
    Entry("__add__", <<TRange, TRange>>, ListOf(TInt), "add_range_range"),
    Entry("__mul__", <<ListOf(T1), TInt>>, ListOf(T1), "mul_list"),
    Entry("__getitem__", <<ListOf(T1), TInt>>, T1, "getitem_list"),
    Entry("__getitem__", <<TString, TInt>>, TString, "getitem_string"),
    Entry("__getitem__", <<TRange, TInt>>, TInt, "getitem_range")>>
comparison == <<
    Entry("__not__", <<TBool>>, TBool, "not_bool"),
    Entry("__eq__", <<T1, T2>>, TBool, "eq_generic"),
    Entry("__ne__", <<T1, T2>>, TBool, "ne_generic"),
    Entry("__lt__", <<T1, T2>>, TBool, "lt_generic"),
    Entry("__le__", <<T1, T2>>, TBool, "le_generic"),
    Entry("__gt__", <<T1, T2>>, TBool, "gt_generic"),
    Entry("__ge__", <<T1, T2>>, TBool, "ge_generic"),
    Entry("__contains__", <<ListOf(AnyVar), AnyVar>>, TBool, "contains_list"),
    Entry("__contains__", <<TRange, IntOrFloat>>, TBool, "contains_range"),
    Entry("__contains__", <<TString, TString>>, TBool, "contains_string"),
    Entry("__not_contains__", <<ListOf(AnyVar), AnyVar>>, TBool, "not_contains_list"),
    Entry("__not_contains__", <<TRange, IntOrFloat>>, TBool, "not_contains_range"),
    Entry("__not_contains__", <<TString, TString>>, TBool, "not_contains_string"),
    Entry("__getitem__", <<ListOf(T1), IntOrNull, IntOrNull, IntOrNull>>, ListOf(T1), "slice_list"),
    Entry("__getitem__", <<TRange, IntOrNull, IntOrNull, IntOrNull>>, <<"union", ListOf(TInt), TRange>>, "slice_range"),
    Entry("__getitem__", <<TString, IntOrNull, IntOrNull, IntOrNull>>, TString, "slice_string")>>
Extreme(name, impl) == <<
    Entry(name, <<TInt, TInt>>, TInt, impl),
    Entry(name, <<TFloat, TFloat>>, TFloat, impl),
    Entry(name, <<TInt, TInt, TInt>>, TInt, impl),
    Entry(name, <<TFloat, TFloat, TFloat>>, TFloat, impl),
    Entry(name, <<ListOf(TInt)>>, TInt, impl),
    Entry(name, <<ListOf(TFloat)>>, TFloat, impl),
    Entry(name, <<TRange>>, TInt, impl),
    Entry(name, <<ListOf(TNull)>>, TNoReturn, impl)>>
math_ops == Extreme("min", "min_fn") \o Extreme("max", "max_fn") \o <<
    Entry("floor", <<TInt>>, TInt, "floor_int"),
    Entry("floor", <<TFloat>>, TInt, "floor_float"),
    Entry("ceil", <<TInt>>, TInt, "ceil_int"),
    Entry("ceil", <<TFloat>>, TInt, "ceil_float"),
    Entry("sum", <<ListOf(TInt)>>, TInt, "sum_list"),
    Entry("sum", <<ListOf(TFloat)>>, TFloat, "sum_list"),
    Entry("sum", <<ListOf(TNull)>>, TInt, "sum_list"),
    Entry("sum", <<TRange>>, TInt, "sum_list")>>
list_functions == <<
    Entry("sorted", <<ListOf(T1)>>, ListOf(T1), "sorted_fn"),
    Entry("reversed", <<ListOf(T1)>>, ListOf(T1), "reversed_fn"),
    Entry("unique", <<ListOf(T1)>>, ListOf(T1), "unique_fn"),
    Entry("flatten", <<ListOf(ListOf(T1))>>, ListOf(T1), "flatten_fn"),
    Entry("flatten", <<ListOf(T1)>>, ListOf(T1), "flatten_fn"),
    Entry("flatten", <<ListOf(TNull)>>, ListOf(TNull), "flatten_fn"),
    Entry("join", <<ListOf(TString), TString>>, TString, "join_fn"),
    Entry("join", <<ListOf(TPath), TString>>, TString, "join_fn"),
    Entry("join", <<ListOf(TNull), TString>>, TString, "join_fn"),
    Entry("range", <<TInt>>, ListOf(TInt), "range_fn"),
    Entry("range", <<TInt, TInt>>, ListOf(TInt), "range_fn"),
    Entry("range", <<TInt, TInt, TInt>>, ListOf(TInt), "range_fn")>>
conversion == <<
    Entry("int", <<TInt>>, TInt, "int_from_int"),
    Entry("int", <<TFloat>>, TInt, "int_from_float"),
    Entry("int", <<TString>>, TInt, "int_from_string"),
    Entry("float", <<TFloat>>, TFloat, "float_from_float"),
    Entry("float", <<TInt>>, TFloat, "float_from_int"),
    Entry("float", <<TString>>, TFloat, "float_from_string"),
    Entry("string", <<TInt>>, TString, "string_fn"),
    Entry("string", <<TFloat>>, TString, "string_fn"),
    Entry("string", <<TBool>>, TString, "string_fn"),
    Entry("string", <<TString>>, TString, "string_fn"),
    Entry("string", <<TPath>>, TString, "string_fn"),
    Entry("string", <<TNull>>, TString, "string_fn"),
    Entry("string", <<ListOf(T1)>>, TString, "string_fn"),
    Entry("string", <<TRange>>, TString, "string_fn"),
    Entry("bool", <<TBool>>, TBool, "bool_from_bool"),
    Entry("bool", <<TInt>>, TBool, "bool_from_int"),
    Entry("bool", <<TFloat>>, TBool, "bool_from_float"),
    Entry("bool", <<TString>>, TBool, "bool_from_string"),
    Entry("bool", <<TNull>>, TBool, "bool_from_null"),
    Entry("bool", <<TPath>>, TNoReturn, "bool_from_path"),
    Entry("bool", <<ListOf(AnyVar)>>, TNoReturn, "bool_from_list"),
    Entry("list", <<TRange>>, ListOf(TInt), "list_from_range"),
    Entry("range_expr", <<TString>>, TRange, "range_expr_from_string"),
    Entry("range_expr", <<ListOf(TInt)>>, TRange, "range_expr_from_list"),
    Entry("range_expr", <<ListOf(TNull)>>, TNoReturn, "range_expr_from_empty_list")>>
path_ops == <<
    Entry("__add__", <<TPath, TString>>, TPath, "add_path_string"),
    Entry("__property_name__", <<TPath>>, TString, "prop_name")>>
misc == <<
    Entry("fail", <<TString>>, TNoReturn, "fail_fn"),
    Entry("any", <<ListOf(TBool)>>, TBool, "any_fn"),
    Entry("any", <<ListOf(TNull)>>, TBool, "any_fn"),
    Entry("all", <<ListOf(TBool)>>, TBool, "all_fn"),
    Entry("all", <<ListOf(TNull)>>, TBool, "all_fn"),
    Entry("abs", <<TInt>>, TInt, "abs_int"),
    Entry("abs", <<TFloat>>, TFloat, "abs_float"),
    Entry("len", <<TString>>, TInt, "len_string"),
    Entry("len", <<TPath>>, TInt, "len_path"),
    Entry("len", <<ListOf(T1)>>, TInt, "len_list"),
    Entry("len", <<TRange>>, TInt, "len_range")>>
build_default_library ==
    arithmetic \o string_ops \o list_ops \o comparison \o math_ops \o list_functions \o conversion \o path_ops \o misc
FunctionNames == {build_default_library[i][1] : i \in DOMAIN build_default_library}
Registered == [name \in FunctionNames |-> SelectSeq(build_default_library, LAMBDA e : e[1] = name)]
get_signatures(name) == IF name \in FunctionNames THEN Registered[name] ELSE <<>>

\* Running an implementation.
Run(impl, a) ==
    CASE impl = "add_int" -> add_int(a) [] impl = "sub_int" -> sub_int(a) [] impl = "mul_int" -> mul_int(a)
      [] impl = "truediv_int" -> truediv_int(a) [] impl = "floordiv_int" -> floordiv_int(a)
      [] impl = "mod_int" -> mod_int(a) [] impl = "neg_int" -> neg_int(a) [] impl = "pos_int" -> pos_int(a)
      [] impl = "add_float" -> add_float(a) [] impl = "sub_float" -> sub_float(a) [] impl = "mul_float" -> mul_float(a)
      [] impl = "floordiv_float" -> floordiv_float(a) [] impl = "mod_float" -> mod_float(a)
      [] impl = "neg_float" -> neg_float(a) [] impl = "pos_float" -> pos_float(a)
      [] impl = "add_string" -> add_string(a) [] impl = "add_string_range" -> add_string_range(a)
      [] impl = "add_range_string" -> add_range_string(a) [] impl = "mul_string" -> mul_string(a)
      [] impl = "add_list_list" -> add_list_list(a) [] impl = "add_range_list" -> add_range_list(a)
      [] impl = "add_list_range" -> add_list_range(a) [] impl = "add_range_range" -> add_range_range(a)
      [] impl = "mul_list" -> mul_list(a) [] impl = "getitem_list" -> getitem_list(a)
      [] impl = "getitem_string" -> getitem_string(a) [] impl = "getitem_range" -> getitem_range(a)
      [] impl = "not_bool" -> not_bool(a) [] impl = "eq_generic" -> eq_generic(a) [] impl = "ne_generic" -> ne_generic(a)
      [] impl = "lt_generic" -> lt_generic(a) [] impl = "le_generic" -> le_generic(a)
      [] impl = "gt_generic" -> gt_generic(a) [] impl = "ge_generic" -> ge_generic(a)
      [] impl = "contains_list" -> contains_list(a) [] impl = "not_contains_list" -> not_contains_list(a)
      [] impl = "contains_range" -> contains_range(a) [] impl = "not_contains_range" -> not_contains_range(a)
      [] impl = "contains_string" -> contains_string(a) [] impl = "not_contains_string" -> not_contains_string(a)
      [] impl = "slice_list" -> slice_list(a) [] impl = "slice_range" -> slice_range(a)
      [] impl = "slice_string" -> slice_string(a) [] impl = "min_fn" -> min_fn(a) [] impl = "max_fn" -> max_fn(a)
      [] impl = "floor_int" -> floor_int(a) [] impl = "floor_float" -> floor_float(a)
      [] impl = "ceil_int" -> ceil_int(a) [] impl = "ceil_float" -> ceil_float(a) [] impl = "sum_list" -> sum_list(a)
      [] impl = "sorted_fn" -> sorted_fn(a) [] impl = "reversed_fn" -> reversed_fn(a) [] impl = "unique_fn" -> unique_fn(a)
      [] impl = "flatten_fn" -> flatten_fn(a) [] impl = "join_fn" -> join_fn(a) [] impl = "range_fn" -> range_fn(a)
      [] impl = "int_from_int" -> int_from_int(a) [] impl = "int_from_float" -> int_from_float(a)
      [] impl = "int_from_string" -> int_from_string(a) [] impl = "float_from_float" -> float_from_float(a)
      [] impl = "float_from_int" -> float_from_int(a) [] impl = "float_from_string" -> float_from_string(a)
      [] impl = "string_fn" -> string_fn(a) [] impl = "bool_from_bool" -> bool_from_bool(a)
      [] impl = "bool_from_int" -> bool_from_int(a) [] impl = "bool_from_float" -> bool_from_float(a)
      [] impl = "bool_from_string" -> bool_from_string(a) [] impl = "bool_from_null" -> bool_from_null(a)
      [] impl = "bool_from_path" -> bool_from_path(a) [] impl = "bool_from_list" -> bool_from_list(a)
      [] impl = "list_from_range" -> list_from_range(a) [] impl = "range_expr_from_string" -> range_expr_from_string(a)
      [] impl = "range_expr_from_list" -> range_expr_from_list(a)
      [] impl = "range_expr_from_empty_list" -> range_expr_from_empty_list(a)
      [] impl = "add_path_string" -> add_path_string(a) [] impl = "prop_name" -> prop_name(a) [] impl = "fail_fn" -> fail_fn(a)
      [] impl = "any_fn" -> any_fn(a) [] impl = "all_fn" -> all_fn(a) [] impl = "abs_int" -> abs_int(a)
      [] impl = "abs_float" -> abs_float(a) [] impl = "len_string" -> len_string(a) [] impl = "len_path" -> len_path(a)
      [] impl = "len_list" -> len_list(a) [] impl = "len_range" -> len_range(a)

-----------------------------------------------------------------------------
(* Choosing an overload *)

can_coerce(from, to) == <<Code(from), Code(to)>> \in {<<"int", "float">>, <<"path", "string">>}
\* The argument types as a signature wants them; a receiver is left as it is.
try_coerce_types(args, params, skip) ==
    LET kept(i) == args[i] = params[i] \/ Code(params[i]) = "any"
        widened(i) == can_coerce(args[i], params[i]) /\ ~(skip /\ i = 1)
    IN  IF Len(args) # Len(params) \/ \E i \in DOMAIN args : ~kept(i) /\ ~widened(i) /\ ~IsSymbolic(params[i]) THEN {}
        ELSE {[i \in DOMAIN args |-> IF ~kept(i) /\ widened(i) THEN params[i] ELSE args[i]]}
Widened(v, t) ==
    IF ~can_coerce(expr_type(v), t) THEN v ELSE IF Code(t) = "float" THEN IntAsFloat(v) ELSE PathAsString(v)
coerce_values(args, types) == [i \in DOMAIN args |-> Widened(args[i], types[i])]
try_coerce_args(args, types, params, skip) ==
    LET widened(i) == can_coerce(types[i], params[i]) /\ ~(skip /\ i = 1)
    IN  IF Len(args) # Len(params) \/ types = params
           \/ \E i \in DOMAIN args : types[i] # params[i] /\ ~widened(i)
        THEN {} ELSE {coerce_values(args, params)}

\* The value, as an entry of the given signature computes it.
Outcome(entry, args, bindings) ==
    IF \E i \in DOMAIN args : is_unresolved(args[i])
    THEN Returns({VUnresolved(SubstituteVars(SigReturn(entry[2]), bindings))})
    ELSE Run(entry[3], args)
\* What each phase of the search finds in an entry: {} or the outcome.
ExactMatch(entry, args, types, skip) ==
    IF IsSymbolic(entry[2]) THEN {} ELSE {Outcome(entry, args, NoBinding) : b \in MatchCall(entry[2], types)}
CoercedMatch(entry, args, types, skip) ==
    LET params == SigParams(entry[2])
        open == \E i \in DOMAIN args : is_unresolved(args[i])
    IN  IF IsSymbolic(entry[2]) THEN {}
        ELSE IF open THEN {Outcome(entry, args, NoBinding) : ts \in try_coerce_types(types, params, skip)}
        ELSE {Outcome(entry, given, NoBinding) : given \in try_coerce_args(args, types, params, skip)}
GenericMatch(entry, args, types, skip) ==
    LET params == SigParams(entry[2])
        exact == MatchCall(entry[2], types)
    IN  IF ~IsSymbolic(entry[2]) THEN {}
        ELSE IF exact # {} THEN {Outcome(entry, args, b) : b \in exact}
        ELSE UNION {{Outcome(entry, coerce_values(args, ts), b) : b \in MatchCall(entry[2], ts)} :
                      ts \in try_coerce_types(types, params, skip)}
unwrap_unresolved(t) == IF Code(t) = "unresolved" THEN t[2] ELSE t
Phase(k, entry, args, types, skip) ==
    CASE k = 1 -> ExactMatch(entry, args, types, skip)
      [] k = 2 -> CoercedMatch(entry, args, types, skip)
      [] k = 3 -> GenericMatch(entry, args, types, skip)
RECURSIVE FirstMatch(_, _, _, _, _)
FirstMatch(k, entries, args, types, skip) ==
    IF entries = <<>> THEN {}
    ELSE LET here == Phase(k, Head(entries), args, types, skip)
         IN  IF here # {} THEN here ELSE FirstMatch(k, Tail(entries), args, types, skip)
call_inner(name, args, skip) ==
    LET types == [i \in DOMAIN args |-> unwrap_unresolved(expr_type(args[i]))]
        found(k) == FirstMatch(k, get_signatures(name), args, types, skip)
        result == IF found(1) # {} THEN found(1) ELSE IF found(2) # {} THEN found(2) ELSE found(3)
    IN  IF result = {} THEN Returns({}) ELSE CHOOSE r \in result : TRUE
call(name, args) == call_inner(name, args, FALSE)
call_method(name, args) == call_inner(name, args, TRUE)

-----------------------------------------------------------------------------
(* The type of a call, without the call *)

\* Every return type under a choice of a type for each argument.
RECURSIVE match_signature_recursive(_, _, _, _, _)
match_signature_recursive(sig, params, sets, bindings, weak) ==
    IF sets = <<>> THEN <<SubstituteVars(SigReturn(sig), ApplyWeakBindings(bindings, weak))>>
    ELSE LET next(b, w) == match_signature_recursive(sig, Tail(params), Tail(sets), b, w)
             through(t) ==
                LET subs == MatchType(Head(params), t)
                    into == IF IsEmptyListAgainstListVar(Head(params), t) THEN weak ELSE bindings
                    merged == UNION {MergeBindings(into, s) : s \in subs}
                IN  IF merged = {} THEN <<>>
                    ELSE LET m == CHOOSE m \in merged : TRUE
                         IN  IF IsEmptyListAgainstListVar(Head(params), t) THEN next(bindings, m) ELSE next(m, weak)
         IN  FlattenSeq([i \in DOMAIN Head(sets) |-> through(Head(sets)[i])])
WithWidenings(members) ==
    LET wider == FlattenSeq([i \in DOMAIN members |-> CASE Code(members[i]) = "int" -> <<TFloat>>
                                                        [] Code(members[i]) = "path" -> <<TString>>
                                                        [] OTHER -> <<>>])
    IN  members \o SelectSeq(wider, LAMBDA t : t \notin Range(members))
derive_return_type(name, types) ==
    LET entries == get_signatures(name)
        unions == \E i \in DOMAIN types : Code(types[i]) = "union"
        exact == FlattenSeq([i \in DOMAIN entries |-> SetToSeq(ResolveCall(entries[i][2], types))])
        coerced == FlattenSeq([i \in DOMAIN entries |->
                       SetToSeq(UNION {ResolveCall(entries[i][2], ts) :
                                         ts \in try_coerce_types(types, SigParams(entries[i][2]), FALSE)})])
        sets == [i \in DOMAIN types |-> WithWidenings(IF Code(types[i]) = "union" THEN Params(types[i]) ELSE <<types[i]>>)]
        found == FlattenSeq([i \in DOMAIN entries |->
                     IF Len(SigParams(entries[i][2])) # Len(types) THEN <<>>
                     ELSE match_signature_recursive(entries[i][2], SigParams(entries[i][2]), sets, NoBinding, NoBinding)])
    IN  IF ~unions THEN (IF exact # <<>> THEN {exact[1]} ELSE IF coerced # <<>> THEN {coerced[1]} ELSE {})
        ELSE IF found = <<>> THEN {}
        ELSE {UnionOf(found)}
=============================================================================
