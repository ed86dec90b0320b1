---------------------------- MODULE ExprFunctions ----------------------------
(***************************************************************************)
(* The functions of the expression language (openjd-expr, functions/).  A  *)
(* call charges operations, has the memory of its result checked before it *)
(* is built, and then returns a value or an error; Did(ops, bytes, result) *)
(* says how much it asks for and what it returns if that is granted.       *)
(* What a function refuses before it charges costs nothing.                *)
(***************************************************************************)
EXTENDS ExprValues

Did(ops, bytes, result) == [ops |-> ops, bytes |-> bytes, result |-> result]
Returns(result) == Did(0, 0, result)
\* Every 256 bytes, or part of them, of a string are one operation.
StringOps(len) == (len + 255) \div 256
OneIf(cond, v) == IF cond THEN {v} ELSE {}
IntResult(i) == OneIf(i \in MinInt..MaxInt, VInt(i))
FloatResult(halves) == OneIf(Magnitude(halves) <= MaxHalves, VFloat(halves))
Checked(ops, bytes, es, hint) ==
    Did(ops, IF bytes > estimate_list_heap_size(es) THEN bytes ELSE estimate_list_heap_size(es), make_list(es, hint))
RangeInts(r) == [i \in DOMAIN r[2] |-> VInt(r[2][i])]

-----------------------------------------------------------------------------
(* Arithmetic *)

add_int(a) == Returns(IntResult(a[1][2] + a[2][2]))
sub_int(a) == Returns(IntResult(a[1][2] - a[2][2]))
mul_int(a) == Returns(IntResult(a[1][2] * a[2][2]))
\* Division rounded toward zero, and what it leaves.
Truncated(l, r) == Sign(l) * Sign(r) * (Magnitude(l) \div Magnitude(r))
Remainder(l, r) == l - r * Truncated(l, r)
truediv_int(a) ==
    Returns(IF a[2][2] = 0 THEN {} ELSE FloatResult(Truncated(2 * a[1][2], a[2][2])))
FloorDivTruncates(a) ==
    LET l == a[1][2]
        r == a[2][2]
    IN  Returns(IF r = 0 THEN {} ELSE IntResult(Truncated(l, r)))
floordiv_int(a) ==
    LET l == a[1][2]
        r == a[2][2]
        d == Truncated(l, r)
    IN  Returns(IF r = 0 \/ d \notin MinInt..MaxInt THEN {}
                ELSE {VInt(IF Sign(l) * Sign(r) < 0 /\ d * r # l THEN d - 1 ELSE d)})
mod_int(a) ==
    LET l == a[1][2]
        r == a[2][2]
        rem == Remainder(l, r)
    IN  Returns(IF r = 0 THEN {} ELSE IF Magnitude(r) = 1 THEN {VInt(0)}
                ELSE {VInt(IF rem # 0 /\ Sign(rem) # Sign(r) THEN rem + r ELSE rem)})
neg_int(a) == Returns(IntResult(0 - a[1][2]))
pos_int(a) == Returns({a[1]})

get_two_floats(a) == <<Halves(a[1]), Halves(a[2])>>
add_float(a) == LET f == get_two_floats(a) IN Returns(FloatResult(f[1] + f[2]))
sub_float(a) == LET f == get_two_floats(a) IN Returns(FloatResult(f[1] - f[2]))
mul_float(a) == LET f == get_two_floats(a) IN Returns(FloatResult((f[1] * f[2]) \div 2))
\* Quotient and remainder, in halves, of l by r.
float_divmod(l, r) ==
    LET rem == Remainder(l, r)
        div == Truncated(l - rem, r)
    IN  IF rem # 0 /\ Sign(rem) # Sign(r) THEN <<div - 1, rem + r>> ELSE <<div, rem>>
floordiv_float(a) ==
    LET f == get_two_floats(a)
    IN  Returns(IF f[2] = 0 THEN {} ELSE IntResult(float_divmod(f[1], f[2])[1]))
mod_float(a) ==
    LET f == get_two_floats(a)
    IN  Returns(IF f[2] = 0 THEN {} ELSE FloatResult(float_divmod(f[1], f[2])[2]))
neg_float(a) == Returns(FloatResult(0 - a[1][2]))
pos_float(a) == Returns(FloatResult(a[1][2]))

add_string(a) == Did(StringOps(Len(a[1][2]) + Len(a[2][2])), 0, {VString(a[1][2] \o a[2][2])})
add_string_range(a) == Returns({VString(a[1][2] \o ShownRange(a[2][2]))})
add_range_string(a) == Returns({VString(ShownRange(a[1][2]) \o a[2][2])})
add_path_string(a) == Did(StringOps(Len(a[1][2]) + Len(a[2][2])), 0, {VPath(a[1][2] \o a[2][2])})
mul_string(a) ==
    LET n == a[2][2]
        len == Len(a[1][2]) * n
        repeated == FoldLeft(LAMBDA s, i : s \o a[1][2], "", [i \in 1..n |-> i])
    IN  IF n < 0 THEN Returns({VString("")}) ELSE Did(StringOps(len), len, {VString(repeated)})

mul_list(a) ==
    LET es == list_elements(a[1])
        n == a[2][2]
        bytes == n * SumOf([i \in DOMAIN es |-> memory_size(es[i])])
    IN  IF n <= 0 \/ es = <<>> THEN Checked(0, 0, <<>>, list_elem_type(a[1]))
        ELSE Checked(n * Len(es), bytes, FlattenSeq([i \in 1..n |-> es]), list_elem_type(a[1]))
Concatenable(s, t) == s = t \/ TNull \in {s, t} \/ {s, t} \in {{TInt, TFloat}, {TPath, TString}}
add_list_list(a) ==
    LET lt == list_elem_type(a[1])
        rt == list_elem_type(a[2])
        es == list_elements(a[1]) \o list_elements(a[2])
    IN  IF Concatenable(lt, rt) THEN Checked(Len(es), 0, es, IF lt = TNull THEN rt ELSE lt)
        ELSE Did(Len(es), 0, {})
add_list_range(a) ==
    LET es == list_elements(a[1]) \o RangeInts(a[2]) IN Checked(Len(es), 0, es, list_elem_type(a[1]))
add_range_list(a) ==
    LET es == RangeInts(a[1]) \o list_elements(a[2]) IN Checked(Len(es), 0, es, list_elem_type(a[2]))
add_range_range(a) == LET es == RangeInts(a[1]) \o RangeInts(a[2]) IN Checked(Len(es), 0, es, TInt)
not_bool(a) == Returns({VBool(~a[1][2])})

-----------------------------------------------------------------------------
(* Comparison and membership *)

values_equal(a) == LET e == equals_charged(a[1], a[2]) IN Did(e[2], 0, {VBool(e[1])})
eq_generic(a) == values_equal(a)
Negated(did) == [did EXCEPT !.result = {VBool(~v[2]) : v \in @}]
ne_generic(a) == Negated(values_equal(a))
Compared(a, orders) == Returns({VBool(o \in orders) : o \in compare(a[1], a[2])})
lt_generic(a) == Compared(a, {0 - 1})
le_generic(a) == Compared(a, {0 - 1, 0})
gt_generic(a) == Compared(a, {1})
ge_generic(a) == Compared(a, {0, 1})

\* The elements are compared one after the other until one is equal.
RECURSIVE FoundFrom(_, _)
FoundFrom(item, es) ==
    IF es = <<>> THEN <<FALSE, 0>>
    ELSE LET here == equals_charged(item, Head(es))
             rest == FoundFrom(item, Tail(es))
         IN  IF here[1] THEN here ELSE <<rest[1], here[2] + rest[2]>>
list_contains(a) ==
    LET found == FoundFrom(a[2], list_elements(a[1]))
    IN  Did(Len(list_elements(a[1])) + found[2], 0, {VBool(found[1])})
contains_list(a) == list_contains(a)
not_contains_list(a) == Negated(list_contains(a))
HasText(s, t) == \E i \in 1..(Len(s) - Len(t) + 1) : SubSeq(s, i, i + Len(t) - 1) = t
contains_string(a) == Did(StringOps(Len(a[1][2]) + Len(a[2][2])), 0, {VBool(HasText(a[1][2], a[2][2]))})
not_contains_string(a) == Negated(contains_string(a))
range_contains(a) == Returns({VBool(\E i \in DOMAIN a[1][2] : 2 * a[1][2][i] = Halves(a[2]))})
contains_range(a) == range_contains(a)
not_contains_range(a) == Negated(range_contains(a))

-----------------------------------------------------------------------------
(* Indexing and slicing *)

getitem_list(a) == Returns(list_get(a[1], a[2][2]))
getitem_string(a) ==
    LET s == a[1][2]
        i == IF a[2][2] < 0 THEN Len(s) + a[2][2] ELSE a[2][2]
    IN  Returns(OneIf(i \in 0..(Len(s) - 1), VString(SubSeq(s, i + 1, i + 1))))
getitem_range(a) == Returns(list_get(VList(TInt, RangeInts(a[1])), a[2][2]))

Larger2(m, n) == IF m > n THEN m ELSE n
Smaller2(m, n) == IF m < n THEN m ELSE n
\* The bounds of a slice; `bound` is an integer or null.
compute_slice_indices(len, start, stop, step) ==
    LET up(bound, none) == IF bound = VNull THEN none
                           ELSE IF bound[2] < 0 THEN Larger2(len + bound[2], 0) ELSE Smaller2(bound[2], len)
        from == IF start = VNull THEN len - 1
                ELSE IF start[2] < 0 THEN len + start[2] ELSE Smaller2(start[2], len - 1)
        to == IF stop = VNull THEN 0 - 1
              ELSE IF stop[2] < 0 THEN Larger2(len + stop[2], 0 - 1) ELSE stop[2]
    IN  IF step > 0 THEN <<up(start, 0), up(stop, len)>> ELSE <<from, to>>
slice_len(start, stop, step) ==
    LET span == IF step > 0 THEN stop - start ELSE start - stop
    IN  IF span <= 0 THEN 0 ELSE (span - 1) \div Magnitude(step) + 1
slice_indices(start, stop, step) ==
    SelectSeq([k \in 1..slice_len(start, stop, step) |-> start + (k - 1) * step], LAMBDA i : i >= 0)

StepOf(v) == IF v = VNull THEN 1 ELSE v[2]
\* BudgetedVec: an exact capacity first, then the values as they are pushed.
with_capacity(capacity) == capacity * ValueSize
PushedBytes(capacity, es) ==
    LET bytes == SumOf([i \in DOMAIN es |-> memory_size(es[i])]) IN bytes + Larger2(capacity - Len(es), 0) * ValueSize
slice_list(a) ==
    LET step == StepOf(a[4])
        es == list_elements(a[1])
        bounds == compute_slice_indices(Len(es), a[2], a[3], step)
        count == slice_len(bounds[1], bounds[2], step)
        picked == SelectSeq(slice_indices(bounds[1], bounds[2], step), LAMBDA i : i < Len(es))
        result == [k \in DOMAIN picked |-> es[picked[k] + 1]]
    IN  IF step = 0 THEN Returns({})
        ELSE Checked(count, Larger2(with_capacity(count), PushedBytes(count, result)), result, list_elem_type(a[1]))
slice_string(a) ==
    LET step == StepOf(a[4])
        s == a[1][2]
        bounds == compute_slice_indices(Len(s), a[2], a[3], step)
        count == slice_len(bounds[1], bounds[2], step)
        picked == slice_indices(bounds[1], bounds[2], step)
        char(acc, i) == acc \o SubSeq(s, i + 1, i + 1)
    IN  IF step = 0 THEN Did(StringOps(Len(s)), 0, {})
        ELSE Did(StringOps(Len(s)), Smaller2(Len(s), 4 * count), {VString(FoldLeft(char, "", picked))})
\* Forward a range again; backward, which no range can be, a list.
slice_range(a) ==
    LET step == StepOf(a[4])
        r == a[1][2]
        len == Len(r)
        given == compute_slice_indices(len, a[2], a[3], step)
        bounds == IF step > 0 THEN given ELSE <<Larger2(given[1], 0 - 1), given[2]>>
        picked == SelectSeq(slice_indices(bounds[1], bounds[2], step), LAMBDA i : i < len)
        values == [k \in DOMAIN picked |-> r[picked[k] + 1]]
        count == slice_len(bounds[1], bounds[2], step)
        ints == [k \in DOMAIN values |-> VInt(values[k])]
    IN  IF step = 0 THEN Returns({})
        ELSE IF step > 0 THEN Returns({VRange(values)})
        ELSE Checked(Len(ints), Larger2(with_capacity(count), PushedBytes(count, ints)), ints, TInt)
-----------------------------------------------------------------------------
(* Lists *)

\* A stable sort that takes incomparable elements for equal.
SortedBy(es) ==
    LET insert(acc, e) ==
            LET before == {i \in DOMAIN acc : compare(acc[i], e) = {1}}
                place == IF before = {} THEN Len(acc) + 1 ELSE CHOOSE i \in before : \A j \in before : i <= j
            IN  SubSeq(acc, 1, place - 1) \o <<e>> \o SubSeq(acc, place, Len(acc))
    IN  FoldLeft(insert, <<>>, es)
sorted_fn(a) ==
    LET es == list_elements(a[1]) IN Checked(Len(es), 0, SortedBy(es), list_elem_type(a[1]))
reversed_fn(a) ==
    LET es == list_elements(a[1]) IN Checked(Len(es), 0, Reverse(es), list_elem_type(a[1]))
\* What a value hashes as; a HashSet compares values of one hash only.
RECURSIVE hash(_)
hash(v) ==
    CASE Kind(v) \in NumberKind -> <<"number", Halves(v)>>
      [] Kind(v) \in TextKind -> <<"text", v[2]>>
      [] Kind(v) = "list" -> <<"list">> \o [i \in DOMAIN list_elements(v) |-> hash(list_elements(v)[i])]
      [] OTHER -> v
unique_fn(a) ==
    LET es == list_elements(a[1])
        seen(acc, e) == \E i \in DOMAIN acc : hash(acc[i]) = hash(e) /\ equals(acc[i], e)
        kept == FoldLeft(LAMBDA acc, e : IF seen(acc, e) THEN acc ELSE Append(acc, e), <<>>, es)
    IN  Checked(Len(es), 0, kept, list_elem_type(a[1]))
flatten_fn(a) ==
    LET es == list_elements(a[1])
        parts == [i \in DOMAIN es |-> IF is_list(es[i]) THEN list_elements(es[i]) ELSE <<es[i]>>]
        inner == SumOf([i \in DOMAIN es |-> IF is_list(es[i]) THEN Len(parts[i]) ELSE 0])
        flat == FlattenSeq(parts)
    IN  Checked(Len(es) + inner, 0, flat, IF flat = <<>> THEN TNull ELSE expr_type(flat[1]))
range_fn(a) ==
    LET start == IF Len(a) = 1 THEN 0 ELSE a[1][2]
        stop == IF Len(a) = 1 THEN a[1][2] ELSE a[2][2]
        step == IF Len(a) = 3 THEN a[3][2] ELSE 1
        values == [k \in 1..slice_len(start, stop, step) |-> VInt(start + (k - 1) * step)]
    IN  IF step = 0 THEN Returns({}) ELSE Checked(Len(values), 0, values, TInt)
join_fn(a) ==
    LET es == list_elements(a[1])
        sep == a[2][2]
        bytes == SumOf([i \in DOMAIN es |-> Len(es[i][2])]) + Len(sep) * Larger2(Len(es) - 1, 0)
        more(acc, i) == acc \o (IF i = 1 THEN "" ELSE sep) \o es[i][2]
    IN  IF es = <<>> THEN Returns({VString("")})
        ELSE IF Kind(es[1]) \notin TextKind THEN Did(Len(es), 0, {})
        ELSE Did(Len(es) + StringOps(bytes), bytes, {VString(FoldLeft(more, "", [i \in DOMAIN es |-> i]))})
list_from_range(a) ==
    LET es == RangeInts(a[1])
    IN  Checked(Len(es), Larger2(with_capacity(Len(es)), PushedBytes(Len(es), es)), es, TInt)
range_expr_from_string(a) == Returns(from_str_coerce(a[1][2], TRange))
range_expr_from_list(a) ==
    LET es == list_elements(a[1])
        ints == SortedBy(es)
        distinct == WithoutRepeats(ints)
    IN  IF es = <<>> THEN Returns({})
        ELSE Did(Len(es), 0, {VRange([i \in DOMAIN distinct |-> distinct[i][2]])})
range_expr_from_empty_list(a) == Returns({})

-----------------------------------------------------------------------------
(* Numbers and conversions *)

\* What min and max choose from; a range is its end.
min_max_items(a, end) ==
    IF Len(a) > 1 THEN a
    ELSE IF is_list(a[1]) THEN list_elements(a[1])
    ELSE IF Kind(a[1]) # "range_expr" THEN a
    ELSE IF a[1][2] = <<>> THEN <<>> ELSE <<VInt(IF end = "min" THEN a[1][2][1] ELSE Last(a[1][2]))>>
Chosen(a, end, worse) ==
    LET items == min_max_items(a, end)
        best == FoldLeft(LAMBDA b, e : IF compare(b, e) = {worse} THEN e ELSE b, items[1], items)
        comparable == \A i, j \in DOMAIN items : compare(items[i], items[j]) # {}
        float == \E i \in DOMAIN items : Kind(items[i]) = "float"
    IN  IF items = <<>> THEN Returns({})
        ELSE Did(Len(items), 0, OneIf(comparable, IF float THEN IntAsFloat(best) ELSE best))
min_fn(a) == Chosen(a, "min", 1)
max_fn(a) == Chosen(a, "max", 0 - 1)
\* Sums stop where the integers overflow.
sum_list(a) ==
    LET es == IF is_list(a[1]) THEN list_elements(a[1]) ELSE RangeInts(a[1])
        float == \E i \in DOMAIN es : Kind(es[i]) = "float"
        upto(n) == SumOf([i \in 1..n |-> Halves(es[i])])
        over == {n \in DOMAIN es : upto(n) \div 2 \notin MinInt..MaxInt}
    IN  IF float THEN Did(Len(es), 0, FloatResult(upto(Len(es))))
        ELSE IF over # {} THEN Did(CHOOSE n \in over : \A k \in over : n <= k, 0, {})
        ELSE Did(Len(es), 0, {VInt(upto(Len(es)) \div 2)})
floor_float(a) == Returns(IntResult(a[1][2] \div 2))
floor_int(a) == Returns({a[1]})
ceil_float(a) == Returns(IntResult((a[1][2] + 1) \div 2))
ceil_int(a) == Returns({a[1]})
abs_int(a) == Returns(IntResult(Magnitude(a[1][2])))
abs_float(a) == Returns(FloatResult(Magnitude(a[1][2])))

any_fn(a) ==
    LET es == list_elements(a[1])
        hits == {i \in DOMAIN es : es[i] = VBool(TRUE)}
    IN  IF hits = {} THEN Did(Len(es), 0, {VBool(FALSE)})
        ELSE Did(CHOOSE i \in hits : \A j \in hits : i <= j, 0, {VBool(TRUE)})
all_fn(a) ==
    LET es == list_elements(a[1])
        hits == {i \in DOMAIN es : es[i] = VBool(FALSE)}
    IN  IF hits = {} THEN Did(Len(es), 0, {VBool(TRUE)})
        ELSE Did(CHOOSE i \in hits : \A j \in hits : i <= j, 0, {VBool(FALSE)})
fail_fn(a) == Returns({})
len_string(a) == Returns({VInt(Len(a[1][2]))})
len_path(a) == Returns({VInt(Len(a[1][2]))})
len_list(a) == Returns({VInt(Len(list_elements(a[1])))})
len_range(a) == Returns({VInt(Len(a[1][2]))})

\* What showing a list may cost: its items, and a bound on the bytes of its
\* text, in which a byte of a string is at most six.
RECURSIVE count_list_items(_)
count_list_items(v) ==
    LET es == list_elements(v)
    IN  Len(es) + SumOf([i \in DOMAIN es |-> IF is_list(es[i]) THEN count_list_items(es[i]) ELSE 0])
escaped_bound(bytes) == 6 * bytes + 2
RECURSIVE output_bound(_)
output_bound(v) ==
    LET es == list_elements(v)
        item(e) == IF is_list(e) THEN output_bound(e)
                   ELSE IF Kind(e) \in TextKind THEN escaped_bound(Len(e[2])) ELSE Len(to_display_string(e)) + 2
    IN  2 + 2 * Larger2(Len(es) - 1, 0) + SumOf([i \in DOMAIN es |-> item(es[i])])
preflight_display_list(v, result) ==
    Did(count_list_items(v) + StringOps(output_bound(v)), output_bound(v), result)
string_fn(a) ==
    LET text == VString(to_display_string(a[1]))
    IN  IF is_list(a[1]) THEN preflight_display_list(a[1], {text}) ELSE Returns({text})
int_from_int(a) == Returns({a[1]})
int_from_float(a) == Returns(convert_float_to_int(a[1]))
int_from_string(a) == Returns(from_str_coerce(a[1][2], TInt))
float_from_float(a) == Returns({VFloat(a[1][2])})
float_from_int(a) == Returns({IntAsFloat(a[1])})
float_from_string(a) == Returns({VFloat(h) : h \in FloatsRead(a[1][2])})
bool_from_bool(a) == Returns({a[1]})
bool_from_int(a) == Returns({VBool(a[1][2] # 0)})
bool_from_float(a) == Returns({VBool(a[1][2] # 0)})
bool_from_null(a) == Returns({VBool(FALSE)})
bool_from_string(a) == Returns(from_str_coerce(a[1][2], TBool))
bool_from_path(a) == Returns({})
bool_from_list(a) == Returns({})
\* The last component of a POSIX path that is no URI.
prop_name(a) ==
    LET p == a[1][2]
        seps == {i \in 1..Len(p) : SubSeq(p, i, i) = "/"}
        place == IF seps = {} THEN 0 ELSE CHOOSE i \in seps : \A j \in seps : j <= i
    IN  Did(StringOps(Len(p)), 0, {VString(SubSeq(p, place + 1, Len(p)))})
=============================================================================
