--------------------------- MODULE JobParameters ---------------------------
(***************************************************************************)
(* From parameter definitions and submitted values to the values a job is   *)
(* created with: merging the definitions of the environment templates and   *)
(* the job template, coercing each value to its declared type, resolving    *)
(* PATH values, checking the merged constraints (create_job/parameters.rs   *)
(* of openjd-model).  Results are {} for Err and {x} for Ok(x).             *)
(*                                                                         *)
(* A submission is a record: `templates`, a sequence of functions from      *)
(* parameter names to definitions (environment templates in order, the job  *)
(* template last); `inputs`, a function from names to values; `expr`        *)
(* (the EXPR extension); and the path options `dir`, `cwd`, `fmt`,          *)
(* `walkUp` and `uris`.                                                     *)
(***************************************************************************)
EXTENDS ParamDefs

JustOf(S) == CHOOSE x \in S : TRUE

SeqOfKind(l, kind) == [i \in DOMAIN l |-> [k \in {kind} |-> l[i]]]

\* default_value: the default as text.
DefaultValue(d) ==
    LET Elements(l) ==
            CASE d.type \in {"LIST[STRING]", "LIST[PATH]"} -> SeqOfKind(l, "string")
              [] d.type = "LIST[INT]"   -> SeqOfKind(l, "int")
              [] d.type = "LIST[FLOAT]" -> SeqOfKind(l, "float")
              [] d.type = "LIST[BOOL]"  -> SeqOfKind(l, "bool")
              [] OTHER -> [i \in DOMAIN l |-> [list |-> SeqOfKind(l[i], "int")]]
        Rendered(x) ==
            CASE d.type \in {"STRING", "PATH", "RANGE_EXPR", "FLOAT"} -> x
              [] d.type = "INT"   -> <<IntText[x]>>
              [] d.type = "BOOL"  -> <<IF x THEN "true" ELSE "false">>
              [] OTHER            -> JsonText([list |-> Elements(x)])
    IN  {Rendered(x) : x \in d.default}
-----------------------------------------------------------------------------
(* Merging.  A merged definition has the fields of a definition; its        *)
(* default is text.                                                         *)

NoConstraint == [min |-> {}, max |-> {}, allowed |-> {}, item |-> {}]

Larger(a, b) == IF Number(a) < Number(b) THEN b ELSE a
Smaller(a, b) == IF Number(b) < Number(a) THEN b ELSE a

Tightened(cur, new, Pick(_, _)) ==
    IF new = {} THEN cur ELSE IF cur = {} THEN new ELSE {Pick(JustOf(cur), JustOf(new))}

\* allowedValues are intersected, floats by their bits.
Intersected(cur, new) == Tightened(cur, new, LAMBDA a, b : a \cap b)

MergeBounds(cur, new) ==
    [min     |-> Tightened(cur.min, new.min, Larger),
     max     |-> Tightened(cur.max, new.max, Smaller),
     allowed |-> Intersected(cur.allowed, new.allowed)]

Only(c, dflt) == IF c = {} THEN dflt ELSE JustOf(c)

MergeConstraints(cur, new) ==
    LET ci == Only(cur.item, NoConstraint)
        ni == Only(new.item, NoConstraint)
        inner == MergeBounds(Only(ci.item, NoConstraint), Only(ni.item, NoConstraint))
    IN  MergeBounds(cur, new)
          @@ [item |-> {MergeBounds(ci, ni) @@ [item |-> {inner @@ [item |-> {}]}]}]

Given(cur, new) == IF new = {} THEN cur ELSE new

DefinitionConflicts(m, d) ==
    \/ m.type # d.type
    \/ /\ m.type = "PATH"
       /\ \/ \E a \in m.objectType, b \in d.objectType : a # b
          \/ \E a \in m.dataFlow, b \in d.dataFlow : a # b

Fresh(d) ==
    MergeConstraints(NoConstraint, d)
      @@ [type |-> d.type, default |-> DefaultValue(d), objectType |-> d.objectType,
          dataFlow |-> d.dataFlow]

Merge(m, d) ==
    MergeConstraints(m, d)
      @@ [type |-> m.type, default |-> Given(m.default, DefaultValue(d)),
          objectType |-> Given(m.objectType, d.objectType),
          dataFlow |-> Given(m.dataFlow, d.dataFlow)]

ParamNames(templates) == UNION {DOMAIN templates[i] : i \in DOMAIN templates}

Contributions(templates, name) ==
    LET with == SelectSeq(templates, LAMBDA t : name \in DOMAIN t)
    IN  [i \in DOMAIN with |-> with[i][name]]

MergeAll(defs) ==
    FoldLeft(LAMBDA acc, d : IF acc = {} \/ \E m \in acc : DefinitionConflicts(m, d) THEN {}
                             ELSE {Merge(JustOf(acc), d)},
             {Fresh(Head(defs))}, Tail(defs))

MergeJobParameterDefinitions(templates) ==
    LET merged == [n \in ParamNames(templates) |-> MergeAll(Contributions(templates, n))]
    IN  IF \E n \in DOMAIN merged : merged[n] = {} THEN {}
        ELSE {[n \in DOMAIN merged |-> JustOf(merged[n])]}

ValidateSatisfiable(m) ==
    /\ \A lo \in m.min, hi \in m.max : Number(lo) <= Number(hi)
    /\ \A a \in m.allowed : a # {}
    /\ m.type \in {"STRING", "PATH"} =>
         \A a \in m.allowed, s \in m.default : s \in a
-----------------------------------------------------------------------------
(* check_constraints of a merged definition, one operator per kind of value *)

CheckInt(m, n) == InBounds(n, m) /\ AmongAllowed(n, m)

CheckFloat(m, f) == FloatInBounds(f, m) /\ FloatAllowed(f, m)

\* The length of a scalar string is counted in bytes ...
CheckStr(m, s) == InBounds(Bytes(s), m) /\ AmongAllowed(s, m)

CheckListBool(m, l) == InBounds(Len(l), m)

CheckListInt(m, l) ==
    /\ InBounds(Len(l), m)
    /\ \A i \in DOMAIN l, it \in m.item : InBounds(l[i].int, it) /\ AmongAllowed(l[i].int, it)

CheckListFloat(m, l) ==
    /\ InBounds(Len(l), m)
    /\ \A i \in DOMAIN l, it \in m.item : FloatInBounds(l[i].float, it) /\ FloatAllowed(l[i].float, it)

\* ... and the length of a list element in characters.
CheckListString(m, l) ==
    /\ InBounds(Len(l), m)
    /\ \A i \in DOMAIN l, it \in m.item :
         InBounds(Chars(l[i].string), it) /\ AmongAllowed(l[i].string, it)

CheckListList(m, l) ==
    /\ InBounds(Len(l), m)
    /\ \A i \in DOMAIN l, it \in m.item : IsListOf(l[i], "int") =>
         /\ InBounds(Len(l[i].list), it)
         /\ \A j \in DOMAIN l[i].list, inner \in it.item :
              InBounds(l[i].list[j].int, inner) /\ AmongAllowed(l[i].list[j].int, inner)

CheckMerged(m, v) ==
    CASE IsKind(v, "int")      -> CheckInt(m, v.int)
      [] IsKind(v, "float")    -> CheckFloat(m, v.float)
      [] IsKind(v, "string")   -> CheckStr(m, v.string)
      [] IsListOf(v, "bool")   -> CheckListBool(m, v.list)
      [] IsListOf(v, "int")    -> CheckListInt(m, v.list)
      [] IsListOf(v, "float")  -> CheckListFloat(m, v.list)
      [] IsListOf(v, "string") -> CheckListString(m, v.list)
      [] IsListOf(v, "list")   -> CheckListList(m, v.list)
      [] OTHER                 -> TRUE
-----------------------------------------------------------------------------
(* Coercion. *)

MatchesType(v, t) ==
    \/ IsKind(v, "string") /\ t \in {"STRING", "PATH"}
    \/ IsKind(v, "int") /\ t = "INT"
    \/ IsKind(v, "float") /\ t = "FLOAT"
    \/ IsKind(v, "bool") /\ t = "BOOL"
    \/ IsKind(v, "range") /\ t = "RANGE_EXPR"
    \/ IsListOf(v, "string") /\ t \in {"LIST[STRING]", "LIST[PATH]"}
    \/ IsListOf(v, "int") /\ t = "LIST[INT]"
    \/ IsListOf(v, "float") /\ t = "LIST[FLOAT]"
    \/ IsListOf(v, "bool") /\ t = "LIST[BOOL]"
    \/ IsListOf(v, "list") /\ t = "LIST[LIST[INT]]"

KindOf(t) ==
    CASE t \in {"STRING", "PATH"} -> "string" [] t = "INT" -> "int" [] t = "FLOAT" -> "float"
      [] t = "BOOL" -> "bool" [] t = "RANGE_EXPR" -> "range" [] OTHER -> "list"

ScalarFromStr(s, t) ==
    IF t \in {"STRING", "PATH"} THEN {[string |-> s]}
    ELSE {[k \in {KindOf(t)} |-> x] : x \in Parse(s, KindOf(t))}

CoerceScalar(v, t) ==
    IF MatchesType(v, t) THEN {v}
    ELSE IF IsKind(v, "int") /\ t = "FLOAT" THEN {[float |-> 2 * v.int]}
    ELSE IF IsKind(v, "float") /\ t = "INT" /\ Number(v.float) % 2 = 0
         THEN {[int |-> Number(v.float) \div 2]}
    ELSE IF IsKind(v, "int") /\ t = "BOOL" /\ v.int \in {0, 1} THEN {[bool |-> v.int = 1]}
    ELSE IF IsKind(v, "float") /\ t = "BOOL" /\ Number(v.float) \in {0, 2}
         THEN {[bool |-> Number(v.float) = 2]}
    ELSE IF \E k \in {"string", "int", "float", "bool"} : IsKind(v, k)
         THEN ScalarFromStr(StrVal(v), t)
    ELSE {}

\* The elements of a list coerced one by one; an empty list is typed by its
\* declared element type, any other by its elements, which is the same.
ListFrom(elems, Coerce(_, _), t) ==
    LET each == [i \in DOMAIN elems |-> Coerce(elems[i], t)]
    IN  IF \E i \in DOMAIN each : each[i] = {} THEN {}
        ELSE {[list |-> [i \in DOMAIN each |-> JustOf(each[i])], of |-> KindOf(t)]}

\* A leaf: null and nested lists are refused.
CoerceJsonLeaf(j, t) ==
    IF IsKind(j, "null") \/ IsKind(j, "list") THEN {} ELSE CoerceScalar(j, t)

CoerceJsonList(j, t) ==
    IF IsKind(j, "list") THEN ListFrom(j.list, CoerceJsonLeaf, ElementType[t]) ELSE {}

CoerceJson(j, t) ==
    IF t = "LIST[LIST[INT]]"
    THEN IF IsKind(j, "list") THEN ListFrom(j.list, CoerceJsonList, "LIST[INT]") ELSE {}
    ELSE CoerceJsonList(j, t)

CoerceFromStr(s, t) ==
    IF t \in Scalar THEN ScalarFromStr(s, t)
    ELSE UNION {CoerceJson(j, t) : j \in Parse(s, "json")}

\* coerce_to_job_parameter_type
CoerceTo(v, t) ==
    IF MatchesType(v, t) THEN {v}
    ELSE IF t \in Scalar THEN CoerceScalar(v, t)
    ELSE IF IsKind(v, "list") \/ IsKind(v, "range") THEN {}
    ELSE CoerceFromStr(StrVal(v), t)
-----------------------------------------------------------------------------
(* PATH values. *)

IsAbsoluteNoUri(s, fmt) == ~IsUri(s) /\ IsAbsolute(s, fmt)

DotDot == <<".", ".">>

\* <<root, rest, components that ".." cannot remove>>
RootOf(p, fmt) ==
    LET sep == Sep(fmt)
    IN  IF fmt = "Windows" /\ Len(p) >= 2 /\ p[1] \in Drive /\ IsSep(p[2], fmt)
        THEN <<<<p[1], sep>>, From(p, 3), 0>>
        ELSE IF fmt = "Windows" /\ Len(p) >= 2 /\ IsSep(p[1], fmt) /\ IsSep(p[2], fmt)
        THEN <<<<sep, sep>>, From(p, 3), 2>>
        ELSE IF /\ fmt # "Windows" /\ StartsWith(p, <<"/", "/">>)
                /\ ~StartsWith(p, <<"/", "/", "/">>)
        THEN <<<<"/", "/">>, From(p, 3), 0>>
        ELSE IF p # <<>> /\ IsSep(p[1], fmt) THEN <<<<sep>>, From(p, 2), 0>>
        ELSE <<<<>>, p, 0>>

NormalizePathStr(p, fmt) ==
    LET r == RootOf(p, fmt)
        step(acc, part) ==
            IF part = DotDot THEN IF Len(acc) > r[3] THEN Front(acc) ELSE acc
            ELSE IF part \in {Dot, <<>>} THEN acc ELSE Append(acc, part)
    IN  r[1] \o Joined(FoldLeft(step, <<>>, Split(r[2], fmt)), Sep(fmt))

\* Mutant: a plain prefix check.
PathIsWithinByPrefix(p, base, fmt) == StartsWith(p, base)

PathIsWithin(p, base, fmt) ==
    \/ p = base
    \/ StartsWith(p, IF EndsIn(base, {Sep(fmt)}) THEN base ELSE Append(base, Sep(fmt)))

\* resolve: {} is an error; a path is left as written (Kept) or replaced.
Kept == {<<>>}
Replacement(s) == {<<s>>}

ResolveSubmitted(s, o) ==
    IF IsAbsoluteNoUri(s, o.fmt) \/ o.cwd = <<>> THEN Kept
    ELSE Replacement(NormalizePathStr(NonUriJoin(o.cwd, s, o.fmt), o.fmt))

ResolveDefault(s, o) ==
    LET full == NormalizePathStr(JoinPath(o.dir, s, o.fmt), o.fmt)
    IN  IF IsAbsoluteNoUri(s, o.fmt) THEN IF o.walkUp THEN Kept ELSE {}
        ELSE IF ~IsAbsolute(o.dir, o.fmt) THEN Kept
        ELSE IF o.walkUp \/ PathIsWithin(full, NormalizePathStr(o.dir, o.fmt), o.fmt)
             THEN Replacement(full)
        ELSE {}

\* An empty path and a permitted URI are left as written.
Resolve(s, origin, o) ==
    IF s = <<>> THEN Kept
    ELSE IF o.expr /\ IsUri(s) THEN IF o.uris THEN Kept ELSE {}
    ELSE IF origin = "Submitted" THEN ResolveSubmitted(s, o) ELSE ResolveDefault(s, o)

Resolved(s, origin, o) == {IF r = <<>> THEN s ELSE r[1] : r \in Resolve(s, origin, o)}

ResolveListPath(v, t, origin, o) ==
    LET each == [i \in DOMAIN v.list |-> Resolved(v.list[i].string, origin, o)]
    IN  IF t # "LIST[PATH]" THEN {v}
        ELSE IF \E i \in DOMAIN each : each[i] = {} THEN {}
        ELSE {[v EXCEPT !.list = [i \in DOMAIN each |-> [string |-> JustOf(each[i])]]]}
-----------------------------------------------------------------------------
(* preprocess_job_parameters. *)

\* as_str_repr: the text of any value, a list's in brackets.
RECURSIVE AsStrRepr(_)
AsStrRepr(v) ==
    LET shown(x) == IF IsKind(x, "string") THEN <<"\"">> \o x.string \o <<"\"">> ELSE AsStrRepr(x)
    IN  CASE IsKind(v, "list")  -> <<"[">> \o Joined([i \in DOMAIN v.list |-> shown(v.list[i])], ", ") \o <<"]">>
          [] IsKind(v, "range") -> RangeText[v.range]
          [] OTHER              -> StrVal(v)

\* The value a submitted input becomes, before the constraints are checked.  The
\* text of a PATH is resolved whatever kind of value it was submitted as; a value
\* that is left as written has to be read as a PATH still.
FromInput(m, v, o) ==
    LET raw == IF m.type # "PATH" THEN {v}
               ELSE {IF r = <<>> THEN v ELSE [string |-> r[1]] :
                       r \in Resolve(AsStrRepr(v), "Submitted", o)}
    IN  UNION {ResolveListPath(w, m.type, "Submitted", o) :
                 w \in UNION {CoerceTo(r, m.type) : r \in raw}}

FromDefault(m, s, o) ==
    LET raw == IF m.type # "PATH" THEN {s} ELSE Resolved(s, "Default", o)
    IN  UNION {ResolveListPath(w, m.type, "Default", o) :
                 w \in UNION {CoerceFromStr(r, m.type) : r \in raw}}

\* The candidate value of a parameter, if it has an input or a default and
\* that can be read as its type.
Candidate(m, n, sub) ==
    IF n \in DOMAIN sub.inputs THEN FromInput(m, sub.inputs[n], sub)
    ELSE UNION {FromDefault(m, s, sub) : s \in m.default}

PreprocessJobParameters(sub) ==
    LET all == MergeJobParameterDefinitions(sub.templates)
        merged == JustOf(all)
        result == [n \in DOMAIN merged |->
                     {v \in Candidate(merged[n], n, sub) : CheckMerged(merged[n], v)}]
    IN  IF ~sub.walkUp /\ ~IsAbsolute(sub.dir, sub.fmt) THEN {}
        ELSE IF all = {} THEN {}
        ELSE IF \/ \E n \in DOMAIN merged : ~ValidateSatisfiable(merged[n])
                \/ \E n \in DOMAIN result : result[n] = {}
                \/ ~(DOMAIN sub.inputs \subseteq DOMAIN merged)
             THEN {}
        ELSE {[n \in DOMAIN merged |-> [type |-> merged[n].type, value |-> JustOf(result[n])]]}

\* The part of create_job that looks at parameter values again: only the job
\* template's own definitions.
CreateJobAccepts(sub, params) ==
    LET own == MergeJobParameterDefinitions(<<Last(sub.templates)>>)
    IN  \E m \in own : \A n \in DOMAIN m : n \in DOMAIN params => CheckMerged(m[n], params[n].value)

-----------------------------------------------------------------------------
(* What preprocessing promises. *)

\* Lengths are counted in bytes after merging and in characters by each
\* definition, a range expression's length is not checked after merging, 0.0
\* and -0.0 are equal to a definition but not to the merge, and inner lists that
\* are not lists of integers are skipped after merging, where a definition that
\* constrains its items refuses them: the values on which the two can disagree.
OneReading(defs, v) ==
    /\ IsKind(v, "string") => Bytes(v.string) = Chars(v.string)
    /\ ~IsKind(v, "range")
    /\ (IsListOf(v, "list") /\ \E i \in DOMAIN defs : defs[i].item # {}) =>
         \A j \in DOMAIN v.list : IsListOf(v.list[j], "int")
    /\ ~ \E i \in DOMAIN defs :
           \/ \E a \in defs[i].allowed : NegZero \in a
           \/ \E it \in defs[i].item : \E a \in it.allowed : NegZero \in a

\* A default that is a valid definition's satisfies that definition, but for
\* the two checks validate_definition leaves out: the length of a RANGE_EXPR
\* default and the allowed items of a LIST[FLOAT] default.
DefaultsAreAdmissible(d) ==
    (/\ ValidateDefinition(d)
     /\ d.type # "RANGE_EXPR"
     /\ ~(d.type = "LIST[FLOAT]" /\ \E it \in d.item : it.allowed # {})) =>
        \A s \in DefaultValue(d) : \A v \in CoerceFromStr(s, d.type) : CheckConstraints(d, v)

\* Lexically, the components of p start with the components of base.
Beneath(p, base, fmt) ==
    LET parts(x) == SelectSeq(Split(x, fmt), LAMBDA c : c # <<>>)
    IN  /\ StartsWith(parts(p), parts(base))
        /\ \A i \in DOMAIN parts(p) : parts(p)[i] # DotDot

PathTexts(v) ==
    IF IsKind(v, "string") THEN {v.string} ELSE {v.list[i].string : i \in DOMAIN v.list}

\* A submission that is accepted gives every parameter of every template a
\* value of its declared type (for LIST[LIST[INT]] that is a list of lists, of
\* whatever: value_matches_type looks no deeper) that each contributing definition
\* accepts on its own, where the two read it alike (OneReading); create_job's
\* second look agrees; a PATH that came from a default lies beneath the
\* template's directory when walking up is not allowed; and submitting the
\* result again, as a client that joined the paths does, changes nothing.
ParametersSound(sub) ==
    \A params \in PreprocessJobParameters(sub) :
        /\ DOMAIN params = ParamNames(sub.templates)
        /\ \A n \in DOMAIN params :
             LET defs == Contributions(sub.templates, n)
                 v == params[n].value
             IN  /\ MatchesType(v, params[n].type)
                 /\ OneReading(defs, v) => \A i \in DOMAIN defs : CheckConstraints(defs[i], v)
                 /\ (/\ params[n].type \in {"PATH", "LIST[PATH]"} /\ ~sub.walkUp
                     /\ n \notin DOMAIN sub.inputs) =>
                      \A s \in PathTexts(v) : s = <<>> \/ (sub.expr /\ IsUri(s))
                         \/ Beneath(s, NormalizePathStr(sub.dir, sub.fmt), sub.fmt)
        /\ CreateJobAccepts(sub, params)
        /\ (IsAbsoluteNoUri(sub.cwd, sub.fmt) /\ IsAbsoluteNoUri(sub.dir, sub.fmt)) =>
             PreprocessJobParameters(
               [sub EXCEPT !.inputs = [n \in DOMAIN params |-> params[n].value]]) = {params}

\* A submission is refused only for a reason: some input or default cannot be
\* read as its type, or no value at all satisfies what the templates demand
\* together.  In particular a value every contributing definition accepts is
\* never refused because the definitions were merged.
NothingSuitableIsRefused(sub) ==
    LET names == ParamNames(sub.templates)
        all == MergeJobParameterDefinitions(sub.templates)
    IN  (/\ all # {} /\ (sub.walkUp \/ IsAbsolute(sub.dir, sub.fmt))
         /\ DOMAIN sub.inputs = names
         /\ \A n \in names :
              LET m == JustOf(all)[n]
                  defs == Contributions(sub.templates, n)
              IN  /\ m.default = {}
                  /\ \E v \in FromInput(m, sub.inputs[n], sub) :
                       OneReading(defs, v) /\ \A i \in DOMAIN defs : CheckConstraints(defs[i], v))
        => PreprocessJobParameters(sub) # {}
=============================================================================
