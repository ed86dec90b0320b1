------------------------------ MODULE ExprTypes ------------------------------
(***************************************************************************)
(* The types of the expression language (openjd-expr, types.rs): their     *)
(* normal forms, how two bindings of a type variable are reconciled, when  *)
(* a type satisfies another, how a signature matches a call, and the text  *)
(* of a type.  A type is its code followed by its parameters.  A result    *)
(* that may be absent is {} or a singleton.                                *)
(***************************************************************************)
EXTENDS Integers, Sequences, SequencesExt, TLC

TypeVar == {"T", "T1", "T2", "T3"}
Code(t) == Head(t)
Params(t) == Tail(t)
TNull == <<"nulltype">>
TBool == <<"bool">>
TInt == <<"int">>
TFloat == <<"float">>
TString == <<"string">>
TPath == <<"path">>
TRange == <<"range_expr">>
TAny == <<"any">>
TNoReturn == <<"noreturn">>
Signature(params, ret) == <<"signature">> \o Append(params, ret)
SigParams(s) == Front(Params(s))
SigReturn(s) == Last(s)

-----------------------------------------------------------------------------
(* Text *)

\* The pieces a type's text is made of, in the order of their characters, so
\* that comparing texts piece by piece is comparing them byte by byte.
TextPiece ==
    <<" | ", "(", ") -> ", ", ", "1", "2", "3", "?", "T", "[", "]", "any", "bool", "float", "int", "list",
      "noreturn", "nulltype", "path", "range_expr", "string", "unresolved">>
PieceRank == [p \in Range(TextPiece) |-> CHOOSE i \in DOMAIN TextPiece : TextPiece[i] = p]
TextBefore(a, b) ==
    \/ IsStrictPrefix(a, b)
    \/ \E i \in 1..Len(a) : /\ i <= Len(b)
                            /\ SubSeq(a, 1, i - 1) = SubSeq(b, 1, i - 1)
                            /\ PieceRank[a[i]] < PieceRank[b[i]]

\* Texts with a separator between them.
RECURSIVE JoinedTexts(_, _)
JoinedTexts(texts, sep) ==
    IF Len(texts) <= 1 THEN FlattenSeq(texts) ELSE Head(texts) \o <<sep>> \o JoinedTexts(Tail(texts), sep)

RECURSIVE TypeText(_)
TypeText(t) ==
    LET texts(ts) == [i \in DOMAIN ts |-> TypeText(ts[i])]
        known == SelectSeq(Params(t), LAMBDA m : m # TNull)
        nullable == Len(known) < Len(Params(t))
    IN  CASE Code(t) = "union" ->
               IF nullable /\ Len(known) = 1 THEN TypeText(known[1]) \o <<"?">>
               ELSE JoinedTexts(texts(known) \o (IF nullable THEN <<<<"nulltype">>>> ELSE <<>>), " | ")
          [] Code(t) = "signature" ->
               <<"(">> \o JoinedTexts(texts(SigParams(t)), ", ") \o <<") -> ">> \o TypeText(SigReturn(t))
          [] Code(t) = "unresolved" /\ Params(t) = <<TAny>> -> <<"unresolved">>
          [] Code(t) \in {"T1", "T2", "T3"} ->
               <<"T", CASE Code(t) = "T1" -> "1" [] Code(t) = "T2" -> "2" [] OTHER -> "3">>
          [] Params(t) = <<>> -> <<Code(t)>>
          [] OTHER -> <<Code(t), "[">> \o TypeText(t[2]) \o <<"]">>

-----------------------------------------------------------------------------
(* Normal forms *)

ListOf(elem) == IF Code(elem) = "unresolved" THEN <<"unresolved", <<"list", elem[2]>>>> ELSE <<"list", elem>>
UnresolvedOf(t) == IF Code(t) = "unresolved" THEN t ELSE <<"unresolved", t>>

TypesSorted(ts) == SortSeq(ts, LAMBDA a, b : TextBefore(TypeText(a), TypeText(b)))
WithoutRepeats(ts) ==
    FoldLeft(LAMBDA kept, t : IF kept # <<>> /\ Last(kept) = t THEN kept ELSE Append(kept, t), <<>>, ts)

\* The union of a sequence of types: flat, without unresolved members, sorted.
RECURSIVE UnionOf(_)
UnionOf(ts) ==
    LET members == FlattenSeq([i \in DOMAIN ts |-> CASE Code(ts[i]) = "noreturn" -> <<>>
                                                      [] Code(ts[i]) = "union" -> Params(ts[i])
                                                      [] OTHER -> <<ts[i]>>])
        open == SelectSeq(members, LAMBDA m : Code(m) = "unresolved")
        known == SelectSeq(members, LAMBDA m : Code(m) # "unresolved")
        kept == WithoutRepeats(TypesSorted(members))
    IN  CASE TAny \in Range(ts) -> TAny
          [] TAny \notin Range(ts) /\ open # <<>> ->
               UnresolvedOf(UnionOf(known \o [i \in DOMAIN open |-> open[i][2]]))
          [] OTHER -> IF kept = <<>> THEN TNoReturn ELSE IF Len(kept) = 1 THEN kept[1] ELSE <<"union">> \o kept

TypeOf(code, params) ==
    CASE code = "union" -> UnionOf(params)
      [] code = "list" /\ Len(params) = 1 -> ListOf(params[1])
      [] code = "unresolved" /\ Len(params) = 1 -> UnresolvedOf(params[1])
      [] OTHER -> <<code>> \o params

-----------------------------------------------------------------------------
(* Queries *)

RECURSIVE IsSymbolic(_), IsConcreteType(_), DenotesRuntimeValues(_), SubstituteVars(_, _), Satisfies(_, _)
IsSymbolic(t) == Code(t) \in TypeVar \/ \E p \in Range(Params(t)) : IsSymbolic(p)
IsConcreteType(t) ==
    /\ Code(t) \notin {"any", "union", "unresolved", "signature"} \cup TypeVar
    /\ \A p \in Range(Params(t)) : IsConcreteType(p)
DenotesRuntimeValues(t) ==
    CASE Code(t) \in {"noreturn", "unresolved", "signature"} \cup TypeVar -> FALSE
      [] Code(t) = "union" -> \E p \in Range(Params(t)) : DenotesRuntimeValues(p)
      [] OTHER -> \A p \in Range(Params(t)) : DenotesRuntimeValues(p)
\* `bindings` maps some type variables to types.
SubstituteVars(t, bindings) ==
    IF Code(t) \in DOMAIN bindings THEN bindings[Code(t)]
    ELSE IF Params(t) = <<>> THEN t
    ELSE TypeOf(Code(t), [i \in DOMAIN Params(t) |-> SubstituteVars(Params(t)[i], bindings)])
EraseTypeVars(t) == SubstituteVars(t, [v \in TypeVar |-> TAny])

\* A value of type `t` is acceptable where `target` is required.
Satisfies(t, target) ==
    /\ DenotesRuntimeValues(target)
    /\ CASE Code(target) = "any" -> TRUE
         [] Code(target) # "any" /\ Code(t) = "unresolved" -> Satisfies(t[2], target)
         [] Code(target) # "any" /\ Code(t) = "union" -> \A m \in Range(Params(t)) : Satisfies(m, target)
         [] Code(target) = "union" /\ Code(t) \notin {"unresolved", "union"} ->
              \E m \in Range(Params(target)) : Satisfies(t, m)
         [] Code(t) = "list" /\ Code(target) = "list" -> Satisfies(t[2], target[2])
         [] OTHER -> ~IsSymbolic(t) /\ t = target

-----------------------------------------------------------------------------
(* Matching a call with a signature *)

\* Two bindings of one type variable, reconciled; `elem` inside a list type.
RECURSIVE UnifyInner(_, _, _)
UnifyInner(a, b, elem) ==
    LET some(members, other) == \E m \in Range(members) : UnifyInner(m, other, elem) # {}
        pair == {Code(a), Code(b)}
    IN  IF a = b THEN {a}
        ELSE IF Code(a) = "any" THEN {b}
        ELSE IF Code(b) = "any" THEN {a}
        ELSE IF elem /\ Code(a) = "nulltype" THEN {b}
        ELSE IF elem /\ Code(b) = "nulltype" THEN {a}
        ELSE IF pair = {"int", "float"} THEN {TFloat}
        ELSE IF pair = {"path", "string"} THEN {TString}
        ELSE IF pair = {"range_expr", "list"} /\ ListOf(TInt) \in {a, b} THEN {ListOf(TInt)}
        ELSE IF pair = {"list"} THEN {ListOf(e) : e \in UnifyInner(a[2], b[2], TRUE)}
        ELSE IF Code(a) = "union" THEN {t \in {a} : some(Params(a), b)}
        ELSE {t \in {b} : Code(b) = "union" /\ some(Params(b), a)}
UnifyBinding(a, b) == UnifyInner(a, b, FALSE)

NoBinding == <<>>
\* Bindings `given` with `new` recorded, each variable's types reconciled.
MergeBindings(given, new) ==
    LET merged(v) == IF v \in DOMAIN given \cap DOMAIN new THEN UnifyBinding(given[v], new[v])
                     ELSE IF v \in DOMAIN new THEN {new[v]} ELSE {given[v]}
        vars == DOMAIN given \cup DOMAIN new
    IN  IF \E v \in vars : merged(v) = {} THEN {}
        ELSE {[v \in vars |-> CHOOSE t \in merged(v) : TRUE]}
ApplyWeakBindings(bindings, weak) == bindings @@ weak

IsEmptyListAgainstListVar(param, arg) ==
    Code(param) = "list" /\ arg = ListOf(TNull) /\ Code(param[2]) \in TypeVar

RECURSIVE MatchType(_, _), MatchAll(_, _, _)
\* The bindings under which type `s` matches type `o`; a union matches as its
\* first matching member does.
MatchType(s, o) ==
    LET first(results) == IF \E r \in Range(results) : r # {} THEN SelectSeq(results, LAMBDA r : r # {})[1] ELSE {}
        all(t) == IF Code(t) = "union" THEN Params(t) ELSE <<t>>
        pairs == FlattenSeq([i \in DOMAIN all(s) |-> [j \in DOMAIN all(o) |-> <<all(s)[i], all(o)[j]>>]])
    IN  IF Code(s) \in TypeVar THEN {Code(s) :> o}
        ELSE IF Code(o) \in TypeVar THEN {Code(o) :> s}
        ELSE IF "any" \in {Code(s), Code(o)} THEN {NoBinding}
        ELSE IF Code(s) = "unresolved" THEN MatchType(s[2], o)
        ELSE IF Code(o) = "unresolved" THEN MatchType(s, o[2])
        ELSE IF "union" \in {Code(s), Code(o)}
        THEN first([k \in DOMAIN pairs |-> MatchType(pairs[k][1], pairs[k][2])])
        ELSE IF Code(s) # Code(o) \/ Len(s) # Len(o) THEN {}
        ELSE MatchAll(Params(s), Params(o), NoBinding)
MatchAll(ss, os, bindings) ==
    IF ss = <<>> THEN {bindings}
    ELSE UNION {MatchAll(Tail(ss), Tail(os), b) :
                  b \in UNION {MergeBindings(bindings, sub) : sub \in MatchType(Head(ss), Head(os))}}

\* The bindings under which a call with arguments of these types matches.
RECURSIVE MatchArgs(_, _, _, _)
MatchArgs(params, args, bindings, weak) ==
    IF args = <<>> THEN {ApplyWeakBindings(bindings, weak)}
    ELSE LET subs == MatchType(Head(params), Head(args))
         IN  IF IsEmptyListAgainstListVar(Head(params), Head(args))
             THEN UNION {MatchArgs(Tail(params), Tail(args), bindings, w) :
                           w \in UNION {MergeBindings(weak, s) : s \in subs}}
             ELSE UNION {MatchArgs(Tail(params), Tail(args), b, weak) :
                           b \in UNION {MergeBindings(bindings, s) : s \in subs}}
MatchCall(sig, args) ==
    IF Len(SigParams(sig)) # Len(args) THEN {} ELSE MatchArgs(SigParams(sig), args, NoBinding, NoBinding)
ResolveCall(sig, args) == {SubstituteVars(SigReturn(sig), b) : b \in MatchCall(sig, args)}

-----------------------------------------------------------------------------
(* Reading a type's text *)

MaxParseDepth == 10
DepthBefore(text, i) ==
    Cardinality({j \in 1..(i - 1) : text[j] \in {"[", "("}}) - Cardinality({j \in 1..(i - 1) : text[j] \in {"]", ") -> "}})
\* The pieces of `text` between the separators outside brackets.
RECURSIVE SplitFrom(_, _, _)
SplitFrom(text, sep, i) ==
    IF i > Len(text) THEN <<text>>
    ELSE IF text[i] = sep /\ DepthBefore(text, i) = 0
    THEN <<SubSeq(text, 1, i - 1)>> \o SplitFrom(SubSeq(text, i + 1, Len(text)), sep, 1)
    ELSE SplitFrom(text, sep, i + 1)
SplitUnion(text) == SplitFrom(text, " | ", 1)
SplitParams(text) ==
    LET parts == SplitFrom(text, ", ", 1) IN IF Last(parts) = <<>> THEN Front(parts) ELSE parts

BaseTypeName == {"bool", "int", "float", "string", "path", "range_expr", "nulltype", "noreturn", "any"}
\* The single member of every result, or {} when some result is absent.
AllParsed(results) ==
    IF \E r \in Range(results) : r = {} THEN {} ELSE {[i \in DOMAIN results |-> CHOOSE t \in results[i] : TRUE]}
RECURSIVE ParseInner(_, _)
ParseInner(text, depth) ==
    LET parse(part) == ParseInner(part, depth + 1)
        parsed(parts) == AllParsed([i \in DOMAIN parts |-> parse(parts[i])])
        arrow == {i \in DOMAIN text : text[i] = ") -> "}
        split == CHOOSE i \in arrow : \A j \in arrow : i <= j
        rest(from) == SubSeq(text, from, Len(text))
        bracketed(word) == Len(text) >= 3 /\ text[1] = word /\ text[2] = "[" /\ Last(text) = "]"
        inside == parse(SubSeq(text, 3, Len(text) - 1))
    IN  IF depth > MaxParseDepth \/ text = <<>> THEN {}
        ELSE IF text[1] = "(" /\ arrow # {}
        THEN {Signature(ps, r) : ps \in parsed(SplitParams(SubSeq(text, 2, split - 1))), r \in parse(rest(split + 1))}
        ELSE IF Len(SplitUnion(text)) > 1 THEN {UnionOf(ts) : ts \in parsed(SplitUnion(text))}
        ELSE IF Len(text) = 1 /\ text[1] \in BaseTypeName THEN {text}
        ELSE IF text = <<"unresolved">> THEN {UnresolvedOf(TAny)}
        ELSE IF Last(text) = "?" THEN {UnionOf(<<t, TNull>>) : t \in parse(Front(text))}
        ELSE IF bracketed("list") THEN {ListOf(t) : t \in inside}
        ELSE IF bracketed("unresolved") THEN {UnresolvedOf(t) : t \in inside}
        ELSE {<<v>> : v \in {v \in TypeVar : TypeText(<<v>>) = text}}
ParseType(text) == ParseInner(text, 0)
=============================================================================
