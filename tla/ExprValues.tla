----------------------------- MODULE ExprValues -----------------------------
(***************************************************************************)
(* The values of the expression language (openjd-expr, value.rs): how a    *)
(* list is built and its elements promoted, how a value is coerced toward  *)
(* a type and what that does to a type alone, equality and order, and the  *)
(* memory a value is charged for.  A value is a tuple that starts with its *)
(* kind.  Integers have the width MinInt..MaxInt; floats are a grid of     *)
(* halves, given by how many halves they are, with the text they were read *)
(* from; ranges are increasing sequences of integers.  A result is {} for  *)
(* an error or a singleton, and Panic is what a panicking call returns.    *)
(***************************************************************************)
EXTENDS ExprTypes, FiniteSets

CONSTANTS MinInt, MaxInt, MaxHalves,
          DefaultOperationLimit    \* DEFAULT_OPERATION_LIMIT, of the evaluator

Panic == <<"panic">>
VNull == <<"null">>
VBool(b) == <<"bool", b>>
VInt(i) == <<"int", i>>
VFloat(halves) == <<"float", halves, "">>
VString(s) == <<"string", s>>
VPath(s) == <<"path", s>>
VRange(r) == <<"range_expr", r>>
VUnresolved(t) == <<"unresolved", t>>
\* ListBool, ListInt, ListFloat, ListString, ListPath by element type; ListList otherwise.
VList(elem, es) == <<"list", elem, es>>
EmptyList == VList(TNull, <<>>)

Kind(v) == Head(v)
is_unresolved(v) == Kind(v) = "unresolved"
is_list(v) == Kind(v) = "list"
list_elements(v) == v[3]
list_elem_type(v) == v[2]
IsListList(v) == is_list(v) /\ Code(v[2]) \notin {"bool", "int", "float", "string", "path"}
ElementsOfKind(es, kind) == {i \in DOMAIN es : Kind(es[i]) = kind}

expr_type(v) ==
    CASE Kind(v) = "null" -> TNull
      [] Kind(v) = "list" -> ListOf(v[2])
      [] Kind(v) = "unresolved" -> UnresolvedOf(v[2])
      [] OTHER -> <<Kind(v)>>

\* Negative indices count from the end.
list_get(v, index) ==
    LET i == IF index < 0 THEN Len(list_elements(v)) + index ELSE index
    IN  {list_elements(v)[j] : j \in {i + 1} \cap DOMAIN list_elements(v)}

-----------------------------------------------------------------------------
(* Text *)

Magnitude(n) == IF n < 0 THEN 0 - n ELSE n
ShownFloat(halves) ==
    (IF halves < 0 THEN "-" ELSE "") \o ToString(Magnitude(halves) \div 2) \o (IF halves % 2 = 0 THEN ".0" ELSE ".5")
ShownRange(r) ==
    IF r = <<>> THEN "" ELSE IF Len(r) = 1 THEN ToString(r[1])
    ELSE ToString(r[1]) \o "-" \o ToString(Last(r)) \o (IF r[2] - r[1] = 1 THEN "" ELSE ":" \o ToString(r[2] - r[1]))
SimpleRange == {[i \in 1..n |-> a + i - 1] : n \in 1..2, a \in MinInt..MaxInt}

RECURSIVE to_display_string(_)
to_display_string(v) ==
    CASE Kind(v) = "bool" -> (IF v[2] THEN "true" ELSE "false")
      [] Kind(v) = "int" -> ToString(v[2])
      [] Kind(v) = "float" -> (IF v[3] = "" THEN ShownFloat(v[2]) ELSE v[3])
      [] Kind(v) \in {"string", "path"} -> v[2]
      [] Kind(v) = "range_expr" -> ShownRange(v[2])
      [] Kind(v) = "list" ->
           LET text(e) == IF Kind(e) \in {"string", "path"} THEN "'" \o e[2] \o "'" ELSE to_display_string(e)
               more(acc, e) == acc \o (IF acc = "[" THEN "" ELSE ", ") \o text(e)
           IN  FoldLeft(more, "[", list_elements(v)) \o "]"
      [] OTHER -> "null"

IntsRead(s) == {i \in MinInt..MaxInt : ToString(i) = s}
FloatsRead(s) == {h \in (0 - MaxHalves)..MaxHalves : ShownFloat(h) = s \/ (h % 2 = 0 /\ ToString(h \div 2) = s)}
TrueWord == {"true", "yes", "on", "1"}
FalseWord == {"false", "no", "off", "0"}
from_str_coerce(s, target) ==
    CASE Code(target) = "int" -> {VInt(i) : i \in IntsRead(s)}
      [] Code(target) = "float" -> {<<"float", h, s>> : h \in FloatsRead(s)}
      [] Code(target) = "bool" -> {VBool(s \in TrueWord) : x \in {s} \cap (TrueWord \cup FalseWord)}
      [] Code(target) = "string" -> {VString(s)}
      [] Code(target) = "path" -> {VPath(s)}
      [] Code(target) = "range_expr" -> {VRange(r) : r \in {r \in SimpleRange : ShownRange(r) = s}}
      [] OTHER -> {VNull : x \in {t \in {target} : Code(t) = "nulltype" /\ s = "null"}}

-----------------------------------------------------------------------------
(* Memory, in bytes; capacities are lengths *)

ValueSize == 72
StringSize == 24
FloatSize == 32
IntSize == 8
SumOf(sizes) == FoldLeft(LAMBDA a, b : a + b, 0, sizes)
RECURSIVE heap_size(_)
heap_size(v) ==
    LET n == Len(list_elements(v))
        inner == SumOf([i \in 1..n |-> heap_size(list_elements(v)[i])])
    IN  CASE Kind(v) = "float" -> Len(v[3])
          [] Kind(v) \in {"string", "path"} -> Len(v[2])
          [] Kind(v) = "range_expr" -> 24
          [] Kind(v) = "list" ->
               CASE Code(v[2]) = "bool" -> n
                 [] Code(v[2]) = "int" -> n * IntSize
                 [] Code(v[2]) = "float" -> n * FloatSize
                 [] Code(v[2]) \in {"string", "path"} -> n * StringSize + inner
                 [] OTHER -> n * ValueSize + inner
          [] OTHER -> 0
memory_size(v) == ValueSize + heap_size(v)
estimate_list_heap_size(es) == Len(es) * ValueSize + SumOf([i \in DOMAIN es |-> heap_size(es[i])])

-----------------------------------------------------------------------------
(* Building a list *)

IntAsFloat(v) == IF Kind(v) = "int" THEN VFloat(2 * v[2]) ELSE v
PathAsString(v) == IF Kind(v) = "path" THEN VString(v[2]) ELSE v
make_list_string(texts) == VList(TString, [i \in DOMAIN texts |-> VString(texts[i])])
make_list_list(es, hint) == VList(IF es = <<>> THEN hint ELSE expr_type(es[1]), es)

\* An empty literal among typed lists takes the type of the first that shows one.
TypedSiblings(es) ==
    SelectSeq(es, LAMBDA e : is_list(e) /\ ~IsListList(e) /\ (list_elements(e) # <<>> \/ Code(e[2]) = "float"))
EmptiesTyped(es) ==
    LET typed == TypedSiblings(es)
    IN  IF typed = <<>> THEN es
        ELSE [i \in DOMAIN es |-> IF es[i] = EmptyList THEN VList(typed[1][2], <<>>) ELSE es[i]]
EmptyOfHint(hint) ==
    IF Code(hint) \in {"bool", "int", "float", "path", "string", "list"} THEN VList(hint, <<>>) ELSE EmptyList

\* Numbers of both kinds become floats; `unreachable!` when something else is among them.
PromotedNumbers(es) ==
    IF \A i \in DOMAIN es : Kind(es[i]) \in {"int", "float"}
    THEN {VList(TFloat, [i \in DOMAIN es |-> IntAsFloat(es[i])])}
    ELSE {Panic}
ListsWith(es, elem) == {i \in DOMAIN es : is_list(es[i]) /\ list_elem_type(es[i]) = elem}
\* The lists of element type `from` as lists of `to`.
PromotedLists(es, from, to) ==
    LET cast(v) == IF from = TInt THEN IntAsFloat(v) ELSE PathAsString(v)
        list(v) == VList(to, [k \in DOMAIN list_elements(v) |-> cast(list_elements(v)[k])])
    IN  [i \in DOMAIN es |-> IF i \in ListsWith(es, from) THEN list(es[i]) ELSE es[i]]
\* The first element decides what the others must be.
Homogeneous(es) ==
    LET first == es[1]
    IN  CASE Kind(first) \in {"bool", "int", "float", "string", "path"} ->
               {VList(expr_type(first), es) : x \in {y \in {1} : \A i \in DOMAIN es : Kind(es[i]) = Kind(first)}}
          [] is_list(first) -> {make_list_list(es, TNull)}
          [] Kind(first) = "range_expr" -> {make_list_list(es, TRange)}
          [] OTHER -> {}

make_list(given, hint) ==
    LET es == EmptiesTyped(given)
        has(kind) == ElementsOfKind(es, kind) # {}
        both(a, b) == ListsWith(es, a) # {} /\ ListsWith(es, b) # {}
    IN  IF \E i \in DOMAIN given : IsListList(given[i]) /\ list_elem_type(given[i]) # TNull THEN {}
        ELSE IF \E i \in DOMAIN given : is_unresolved(given[i]) THEN {}
        ELSE IF es = <<>> THEN {EmptyOfHint(hint)}
        ELSE IF has("int") /\ has("float") THEN PromotedNumbers(es)
        ELSE IF both(TInt, TFloat) THEN {make_list_list(PromotedLists(es, TInt, TFloat), TNull)}
        ELSE IF both(TPath, TString) THEN {make_list_list(PromotedLists(es, TPath, TString), TNull)}
        ELSE IF has("path") /\ has("string")
        THEN {make_list_string([i \in DOMAIN es |-> to_display_string(es[i])])}
        ELSE Homogeneous(es)
-----------------------------------------------------------------------------
(* Coercion *)

NoRank == 255
scalar_conversion_rank(source, dest) ==
    CASE <<source, dest>> \in {<<"int", "float">>, <<"float", "int">>, <<"string", "int">>} -> 0
      [] dest = "string" /\ source \in {"bool", "int", "float", "path", "range_expr"} -> 1
      [] source = "string" /\ dest = "float" -> 1
      [] source = "string" /\ dest = "bool" -> 2
      [] source = "string" /\ dest = "range_expr" -> 3
      [] source = "string" /\ dest = "path" -> 4
      [] OTHER -> NoRank
RECURSIVE destination_rank(_, _)
destination_rank(source, dest) ==
    IF Code(source) = "list" /\ Code(dest) = "list" THEN destination_rank(source[2], dest[2])
    ELSE scalar_conversion_rank(Code(source), Code(dest))
is_conversion_destination(t) ==
    \/ Code(t) \in {"bool", "int", "float", "string", "path", "range_expr"}
    \/ Code(t) = "list" /\ DenotesRuntimeValues(t[2]) /\ ~IsSymbolic(t[2])

\* A stable sort by rank.
ByRank(source, ds) ==
    LET ranks == {destination_rank(source, ds[i]) : i \in DOMAIN ds}
        ranked(r) == SelectSeq(ds, LAMBDA d : destination_rank(source, d) = r)
    IN  FlattenSeq([k \in 1..Cardinality(ranks) |->
            ranked(CHOOSE r \in ranks : Cardinality({q \in ranks : q < r}) = k - 1)])
conversion_destinations(source, target) ==
    LET usable == SelectSeq(IF Code(target) = "union" THEN Params(target) ELSE <<target>>, is_conversion_destination)
        scalars == SelectSeq(usable, LAMBDA d : Code(d) # "list")
        lists == SelectSeq(usable, LAMBDA d : Code(d) = "list")
    IN  ByRank(source, scalars) \o ByRank(source, lists)

convert_float_to_int(f) ==
    {VInt(i) : i \in {f[2] \div 2} \cap {i \in MinInt..MaxInt : f[2] % 2 = 0}}
\* No budget applies to a coercion, so the length of the list has a cap of its own.
convert_range_expr_to_list(r, dest) ==
    IF ~Satisfies(ListOf(TInt), dest) \/ Len(r[2]) > DefaultOperationLimit THEN {}
    ELSE {VList(TInt, [i \in DOMAIN r[2] |-> VInt(r[2][i])])}

RECURSIVE coerce_type(_, _), coerce(_, _), convert_to(_, _), convert_list_elementwise(_, _)
convert_type(source, dest) ==
    IF scalar_conversion_rank(Code(source), Code(dest)) # NoRank THEN {dest}
    ELSE IF Code(source) = "range_expr" /\ Code(dest) = "list" THEN {t \in {ListOf(TInt)} : Satisfies(t, dest)}
    ELSE {d \in {dest} : Code(source) = "list" /\ Code(dest) = "list"}

\* The types `source` may become on the way to `target`, as a union.
Joining(results) ==
    LET found == FlattenSeq([i \in DOMAIN results |-> IF results[i] = {} THEN <<>> ELSE <<CHOOSE t \in results[i] : TRUE>>])
    IN  IF found = <<>> THEN {} ELSE {UnionOf(found)}
\* A conversion would be promised from its first destination alone.
CoerceToFirst(source, target) ==
    IF Satisfies(source, target) THEN {source}
    ELSE LET dests == conversion_destinations(source, target)
             able == SelectSeq(dests, LAMBDA d : convert_type(source, d) # {})
         IN  IF able = <<>> THEN {} ELSE convert_type(source, able[1])
CoerceKnownType(source, target) ==
    IF Satisfies(source, target) THEN {source}
    ELSE LET dests == conversion_destinations(source, target)
         IN  Joining([i \in DOMAIN dests |-> convert_type(source, dests[i])])
coerce_type(given, target) ==
    LET source == IF IsSymbolic(given) THEN EraseTypeVars(given) ELSE given
    IN  IF Code(given) = "unresolved" THEN coerce_type(given[2], target)
        ELSE IF ~DenotesRuntimeValues(target) THEN {}
        ELSE IF Code(source) = "any"
        THEN {IF Code(target) = "union" THEN UnionOf(SelectSeq(Params(target), DenotesRuntimeValues)) ELSE target}
        ELSE IF Code(source) = "union"
        THEN Joining([i \in DOMAIN Params(source) |-> coerce_type(Params(source)[i], target)])
        ELSE CoerceKnownType(source, target)

convert_to(v, dest) ==
    CASE Kind(v) = "int" /\ Code(dest) = "float" -> {IntAsFloat(v)}
      [] Kind(v) = "float" /\ Code(dest) = "int" -> convert_float_to_int(v)
      [] Kind(v) = "string" -> from_str_coerce(v[2], dest)
      [] Kind(v) \in {"bool", "int", "float", "path", "range_expr"} /\ Code(dest) = "string" ->
           {VString(to_display_string(v))}
      [] Kind(v) = "range_expr" /\ Code(dest) = "list" -> convert_range_expr_to_list(v, dest)
      [] Kind(v) = "list" /\ Code(dest) = "list" -> convert_list_elementwise(v, dest)
      [] OTHER -> {}
convert_list_elementwise(v, dest) ==
    LET each == [i \in DOMAIN list_elements(v) |-> coerce(list_elements(v)[i], dest[2])]
    IN  IF \E i \in DOMAIN each : each[i] = {} THEN {}
        ELSE IF \E i \in DOMAIN each : each[i] = {Panic} THEN {Panic}
        ELSE make_list([i \in DOMAIN each |-> CHOOSE e \in each[i] : TRUE], dest[2])
coerce(v, target) ==
    LET source == expr_type(v)
        dests == conversion_destinations(source, target)
        tried == SelectSeq([i \in DOMAIN dests |-> convert_to(v, dests[i])], LAMBDA r : r # {})
    IN  IF is_unresolved(v) THEN {VUnresolved(t) : t \in coerce_type(v[2], target)}
        ELSE IF Satisfies(source, target) THEN {v}
        ELSE IF tried = <<>> THEN {} ELSE tried[1]

-----------------------------------------------------------------------------
(* Equality and order *)

NumberKind == {"int", "float"}
TextKind == {"string", "path"}
Halves(v) == IF Kind(v) = "int" THEN 2 * v[2] ELSE v[2]
\* Whether two values are equal, and how many elements were compared.
RECURSIVE equals_charged(_, _), EqualFrom(_, _, _)
EqualFrom(xs, ys, i) ==
    IF i > Len(xs) THEN <<TRUE, 0>>
    ELSE LET here == equals_charged(xs[i], ys[i])
             rest == EqualFrom(xs, ys, i + 1)
         IN  IF here[1] THEN <<rest[1], 1 + here[2] + rest[2]>> ELSE <<FALSE, 1 + here[2]>>
equals_charged(a, b) ==
    LET ints(v) == IF is_list(v) THEN list_elements(v) ELSE [i \in DOMAIN v[2] |-> VInt(v[2][i])]
        kinds == {Kind(a), Kind(b)}
        same(xs, ys) == IF Len(xs) # Len(ys) THEN <<FALSE, 0>> ELSE EqualFrom(xs, ys, 1)
    IN  CASE kinds \subseteq NumberKind -> <<Halves(a) = Halves(b), 0>>
          [] kinds \subseteq TextKind -> <<a[2] = b[2], 0>>
          [] kinds = {"list"} -> same(list_elements(a), list_elements(b))
          [] kinds = {"list", "range_expr"} ->
               IF TInt \in {list_elem_type(v) : v \in {w \in {a, b} : is_list(w)}} THEN same(ints(a), ints(b))
               ELSE <<FALSE, 0>>
          [] OTHER -> <<a = b, 0>>
equals(a, b) == equals_charged(a, b)[1]

CharOrder == "'(),-.0123456789:[]abcdefghijklmnopqrstuvwxyz"
CharRank(s, i) == CHOOSE k \in 1..Len(CharOrder) : SubSeq(CharOrder, k, k) = SubSeq(s, i, i)
Sign(n) == IF n < 0 THEN 0 - 1 ELSE IF n > 0 THEN 1 ELSE 0
RECURSIVE TextOrder(_, _, _), compare(_, _), OrderFrom(_, _, _)
TextOrder(s, t, i) ==
    IF i > Len(s) \/ i > Len(t) THEN Sign(Len(s) - Len(t))
    ELSE IF SubSeq(s, i, i) = SubSeq(t, i, i) THEN TextOrder(s, t, i + 1)
    ELSE Sign(CharRank(s, i) - CharRank(t, i))
OrderFrom(xs, ys, i) ==
    IF i > Len(xs) \/ i > Len(ys) THEN {Sign(Len(xs) - Len(ys))}
    ELSE IF compare(xs[i], ys[i]) = {0} THEN OrderFrom(xs, ys, i + 1) ELSE compare(xs[i], ys[i])
compare(a, b) ==
    LET kinds == {Kind(a), Kind(b)}
        rank(v) == IF v[2] THEN 1 ELSE 0
    IN  CASE kinds \subseteq NumberKind -> {Sign(Halves(a) - Halves(b))}
          [] kinds = {"bool"} -> {Sign(rank(a) - rank(b))}
          [] kinds \subseteq TextKind -> {TextOrder(a[2], b[2], 1)}
          [] kinds = {"list"} -> OrderFrom(list_elements(a), list_elements(b), 1)
          [] OTHER -> {}
=============================================================================
