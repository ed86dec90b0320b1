--------------------------- MODULE ResolvedValues ---------------------------
(***************************************************************************)
(* The constraints on what a format string resolves to, at the three       *)
(* stages that apply them: decoding checks the literal fields              *)
(* (structure.rs), template validation checks what it can know of the      *)
(* others without a job's parameters (format_strings.rs, pass 8), and job  *)
(* creation or the session checks the resolved value (instantiate.rs,      *)
(* ranges.rs, runner/mod.rs).  The fields are the job name, an action's    *)
(* arguments and timing, host requirements and task parameter ranges.      *)
(*                                                                         *)
(* A format string is its kind ("literal", one "whole" expression, or      *)
(* "multi", text around expressions) and the value it resolves to under    *)
(* each submission of the job.  It is static when no submission changes    *)
(* the value.  A value is null, a string, a number or a list of strings,   *)
(* already coerced to the type the field asks for.  A string is the name   *)
(* of an entry of Text, which says what the checks can tell about it.      *)
(***************************************************************************)
EXTENDS Integers, Sequences, FiniteSets, SequencesExt

CONSTANTS Text,         \* name -> [len, lower, name, scope, value, control, number, stripped, range]
          Submission,   \* the parameter values a job may be submitted with
          NameLimit,    \* 100 characters: capability names and values
          CountLimit,   \* 50 elements of anyOf and allOf, 50 requirements
          StringLimit,  \* max_task_param_string_len, max_job_name_len
          RangeLimit,   \* max_task_param_range_len
          ArgLimit,     \* max_resolved_arg_len, a set of at most one number
          NumericLimit, \* MAX_RESOLVED_NUMERIC_LEN
          NotifyLimit,  \* 600 seconds
          MaxMagnitude  \* 2^62, the bound on the values of a range expression

Null == [null |-> TRUE]
Str(s) == [str |-> s]
Num(n) == [num |-> n]
List(l) == [list |-> l]
IsNull(v) == "null" \in DOMAIN v
IsStr(v) == "str" \in DOMAIN v
IsNum(v) == "num" \in DOMAIN v
IsList(v) == "list" \in DOMAIN v

IsPlain(fs) == fs.kind = "literal"
ValueIn(fs, sub) == fs.at[sub]
Static(fs) == \A s1, s2 \in Submission : fs.at[s1] = fs.at[s2]
Raw(fs) == (CHOOSE v \in {fs.at[sub] : sub \in Submission} : TRUE).str

\* The number a text denotes once trimmed, as a set of at most one.
Parsed(v) == IF IsNum(v) THEN {v.num} ELSE Text[v.str].number

(***************************************************************************)
(* What validate_expressions knows of a format string: its value when it   *)
(* is static, that it is certainly a string, and a lower bound on the      *)
(* length of its display form.  Numbers print in one character.            *)
(***************************************************************************)
DisplayLen(v) ==
    CASE IsStr(v) -> Text[v.str].len
      [] IsNum(v) -> 1
      [] IsNull(v) -> 0
      [] IsList(v) -> 2 + FoldLeft(LAMBDA n, s : n + Text[s].len, 0, v.list)

Known(fs) == IF Static(fs) THEN {fs.at[sub] : sub \in Submission} ELSE {}
KnownText(fs) == {v \in Known(fs) : ~IsNull(v)}
CertainlyString(fs) == fs.kind = "multi" \/ \A sub \in Submission : IsStr(fs.at[sub])
AtLeast(fs, n) == \A sub \in Submission : DisplayLen(fs.at[sub]) >= n
ListItems(v) == IF IsList(v) THEN v.list ELSE IF IsNull(v) THEN <<>> ELSE <<v.str>>

-----------------------------------------------------------------------------
(***************************************************************************)
(* Capability names and values.  name[kind] of a text says whether it      *)
(* matches the pattern of that kind, scope whether its scope is reserved.  *)
(***************************************************************************)
StandardAmount == {"amount.worker.vcpu", "amount.worker.memory"}

StandardAttribute ==
    [n \in {"attr.worker.os.family", "attr.worker.cpu.arch"} |->
        IF n = "attr.worker.os.family" THEN {"linux", "windows", "macos"} ELSE {"x86_64", "arm64"}]

StandardNames(kind) == IF kind = "amount" THEN StandardAmount ELSE DOMAIN StandardAttribute

CheckReservedScope(n, kind) == Text[n].lower \in StandardNames(kind) \/ ~Text[n].scope

CheckCapabilityName(n, kind) ==
    /\ Text[n].len <= NameLimit
    /\ Text[n].name[kind]
    /\ CheckReservedScope(n, kind)

AttributeValueOk(n, v) ==
    IF Text[n].lower \in DOMAIN StandardAttribute
    THEN Text[v].lower \in StandardAttribute[Text[n].lower]
    ELSE Text[v].len \in 1..NameLimit /\ Text[v].value

\* Whole-field expressions may vanish or flatten, so only the others count; this
\* counts them all.
CountsEveryElement(n, allOf) ==
    Text[n].lower \in DOMAIN StandardAttribute => Len(allOf) <= 1

CheckSingleValuedAllOf(n, allOf) ==
    Text[n].lower \in DOMAIN StandardAttribute =>
        Len(SelectSeq(allOf, LAMBDA fs : fs.kind # "whole")) <= 1

-----------------------------------------------------------------------------
(***************************************************************************)
(* Pass 8: one check per kind of constraint, for a field that is not a     *)
(* literal.                                                                *)
(***************************************************************************)
TextOk(fs, limit) ==
    /\ ~AtLeast(fs, limit + 1)
    /\ \A v \in KnownText(fs) : Text[v.str].len > 0 /\ ~Text[v.str].control

TextListItemOk(fs, limit, forbidEmpty) ==
    /\ CertainlyString(fs) => ~AtLeast(fs, limit + 1)
    /\ \A v \in Known(fs) : \A i \in DOMAIN ListItems(v) :
           Text[ListItems(v)[i]].len \in (IF forbidEmpty THEN 1 ELSE 0)..limit

ArgListItemOk(fs, limit) == TextListItemOk(fs, limit, FALSE)

Longest(n) == IF Text[n].lower \in DOMAIN StandardAttribute
              THEN CHOOSE k \in {Text[v].len : v \in StandardAttribute[Text[n].lower]} :
                       \A v \in StandardAttribute[Text[n].lower] : Text[v].len <= k
              ELSE NameLimit

\* n is a set: the name when it is known.
AttributeItemOk(fs, n) ==
    /\ CertainlyString(fs) =>
           ~AtLeast(fs, 1 + (IF n = {} THEN NameLimit ELSE Longest(CHOOSE k \in n : TRUE)))
    /\ \A v \in KnownText(fs) : \A i \in DOMAIN ListItems(v) :
           IF n = {} THEN Text[ListItems(v)[i]].len \in 1..NameLimit /\ Text[ListItems(v)[i]].value
           ELSE AttributeValueOk(CHOOSE k \in n : TRUE, ListItems(v)[i])

CapabilityNameOk(fs, kind) ==
    IF Static(fs) THEN \A v \in Known(fs) : CheckCapabilityName(v.str, kind)
    ELSE ~AtLeast(fs, NameLimit + 1)

OverNumericLimit(fs) == AtLeast(fs, NumericLimit + 1)

IntOk(fs, low, high, nullable) ==
    /\ ~OverNumericLimit(fs)
    /\ \A v \in Known(fs) :
           IF IsNull(v) THEN nullable
           ELSE \E n \in Parsed(v) : n >= low /\ \A h \in high : n <= h

FloatOk(fs, positive) ==
    /\ ~OverNumericLimit(fs)
    /\ \A v \in KnownText(fs) : \E n \in Parsed(v) : IF positive THEN n > 0 ELSE n >= 0

CancelationModeOk(fs) ==
    /\ ~AtLeast(fs, Text["NOTIFY_THEN_TERMINATE"].len + 1)
    /\ \A v \in KnownText(fs) : v.str \in {"TERMINATE", "NOTIFY_THEN_TERMINATE"}

-----------------------------------------------------------------------------
(***************************************************************************)
(* Fields with a constraint of their own: what decoding and pass 8 say     *)
(* (Checked) and what happens to the value under a submission (Runs).      *)
(***************************************************************************)
CheckedJobName(fs) ==
    IF IsPlain(fs) THEN Text[Raw(fs)].len \in 1..StringLimit /\ ~Text[Raw(fs)].control
    ELSE TextOk(fs, StringLimit)

ResolveJobName(fs, sub) ==
    LET n == Text[ValueIn(fs, sub).str] IN n.len \in 1..StringLimit /\ ~n.control

CheckedArgs(args) ==
    \A limit \in ArgLimit : \A i \in DOMAIN args :
        IF IsPlain(args[i]) THEN Text[Raw(args[i])].len <= limit ELSE ArgListItemOk(args[i], limit)

ResolveActionArgs(args, sub) ==
    LET argv == FlattenSeq([i \in DOMAIN args |-> ListItems(ValueIn(args[i], sub))])
    IN  \A limit \in ArgLimit : \A i \in DOMAIN argv : Text[argv[i]].len <= limit

\* A literal number of seconds, as structure.rs checks it.
LiteralSeconds(fs, high) == \E n \in Parsed(Str(Raw(fs))) : n >= 1 /\ \A h \in high : n <= h

CheckedTimeout(fs) == IF IsPlain(fs) THEN LiteralSeconds(fs, {}) ELSE IntOk(fs, 1, {}, TRUE)

CheckedNotify(fs) ==
    IF IsPlain(fs) THEN LiteralSeconds(fs, {NotifyLimit}) ELSE IntOk(fs, 1, {NotifyLimit}, TRUE)

\* {} is an error, {{}} an unset field and {{n}} n seconds.
ResolveActionTimeout(fs, sub) ==
    LET v == ValueIn(fs, sub)
    IN  IF IsNull(v) THEN {{}} ELSE {{n} : n \in {m \in Parsed(v) : m > 0}}

ResolveNotifyPeriodSeconds(period, sub) ==
    IF period = {} \/ \E fs \in period : IsNull(ValueIn(fs, sub)) THEN {{}}
    ELSE UNION {{{n} : n \in {m \in Parsed(ValueIn(fs, sub)) : m \in 1..NotifyLimit}} : fs \in period}

\* A deferred mode: null drops the whole object, TERMINATE admits no period.
ResolveEffectiveCancelation(mode, period, sub) ==
    LET v == ValueIn(mode, sub)
        seconds == ResolveNotifyPeriodSeconds(period, sub)
    IN  CASE IsNull(v) -> {[method |-> "undeclared"]}
          [] v = Str("TERMINATE") -> IF seconds = {{}} THEN {[method |-> "terminate"]} ELSE {}
          [] v = Str("NOTIFY_THEN_TERMINATE") -> {[method |-> "notify", after |-> s] : s \in seconds}
          [] OTHER -> {}

CheckedCancelation(mode, period) ==
    /\ ~IsPlain(mode) => CancelationModeOk(mode)
    /\ \A fs \in period : CheckedNotify(fs)

-----------------------------------------------------------------------------
(***************************************************************************)
(* Host requirements: amounts with a name and optional bounds, attributes  *)
(* with a name and optional lists anyOf and allOf (each optional field a   *)
(* set of at most one).                                                    *)
(***************************************************************************)
NamesDiffer(names) == \A i, j \in DOMAIN names : i # j => Text[names[i]].lower # Text[names[j]].lower

LiteralNames(items) == [i \in {k \in DOMAIN items : IsPlain(items[k].name)} |-> Raw(items[i].name)]

LiteralAmount(bound) == UNION {Text[Raw(fs)].number : fs \in {f \in bound : IsPlain(f)}}

AmountStructureOk(a, featureBundle) ==
    /\ IsPlain(a.name) => CheckCapabilityName(Raw(a.name), "amount")
    /\ a.min # {} \/ a.max # {}
    /\ \A fs \in a.min \cup a.max : IF IsPlain(fs) THEN Text[Raw(fs)].number # {} ELSE featureBundle
    /\ \A low \in LiteralAmount(a.min) : low >= 0
    /\ \A high \in LiteralAmount(a.max) : high > 0
    /\ \A low \in LiteralAmount(a.min), high \in LiteralAmount(a.max) : low <= high

LiteralValueOk(v) == Text[v].len \in 1..NameLimit /\ Text[v].value

AttributeStructureOk(a) ==
    /\ IsPlain(a.name) => CheckCapabilityName(Raw(a.name), "attr")
    /\ a.anyOf # {} \/ a.allOf # {}
    /\ \A vals \in a.anyOf \cup a.allOf :
           /\ Len(vals) \in 1..CountLimit
           /\ \A i \in DOMAIN vals : IsPlain(vals[i]) => LiteralValueOk(Raw(vals[i]))
    /\ IsPlain(a.name) => \A vals \in a.allOf : CheckSingleValuedAllOf(Raw(a.name), vals)
    /\ IsPlain(a.name) => \A vals \in a.anyOf \cup a.allOf : \A i \in DOMAIN vals :
           IsPlain(vals[i]) => AttributeValueOk(Raw(a.name), Raw(vals[i]))

ValidateHostRequirements(hr, featureBundle) ==
    /\ Len(hr.amounts) + Len(hr.attributes) \in 1..CountLimit
    /\ NamesDiffer(LiteralNames(hr.amounts)) /\ NamesDiffer(LiteralNames(hr.attributes))
    /\ \A i \in DOMAIN hr.amounts : AmountStructureOk(hr.amounts[i], featureBundle)
    /\ \A i \in DOMAIN hr.attributes : AttributeStructureOk(hr.attributes[i])

\* Pass 8.  A name is known when it is a literal or static.
KnownCapabilityName(fs) == IF IsPlain(fs) THEN {Raw(fs)} ELSE {v.str : v \in Known(fs)}

KnownNamesUnique(items) ==
    \A i, j \in DOMAIN items :
        (i # j /\ ~(IsPlain(items[i].name) /\ IsPlain(items[j].name))) =>
            \A n \in KnownCapabilityName(items[i].name), m \in KnownCapabilityName(items[j].name) :
                Text[n].lower # Text[m].lower

ValuesForStaticNameOk(n, a) ==
    Text[n].lower \in DOMAIN StandardAttribute =>
        /\ \A vals \in a.anyOf \cup a.allOf : \A i \in DOMAIN vals :
               IsPlain(vals[i]) => AttributeValueOk(n, Raw(vals[i]))
        /\ \A vals \in a.allOf : CheckSingleValuedAllOf(n, vals)

AmountFsOk(a) ==
    /\ IsPlain(a.name) \/ CapabilityNameOk(a.name, "amount")
    /\ \A fs \in a.min : IsPlain(fs) \/ FloatOk(fs, FALSE)
    /\ \A fs \in a.max : IsPlain(fs) \/ FloatOk(fs, TRUE)

AttributeFsOk(a) ==
    LET known == KnownCapabilityName(a.name)
    IN  /\ IsPlain(a.name) \/ (CapabilityNameOk(a.name, "attr")
                               /\ \A n \in known : ValuesForStaticNameOk(n, a))
        /\ \A vals \in a.anyOf \cup a.allOf : \A i \in DOMAIN vals :
               IsPlain(vals[i]) \/ AttributeItemOk(vals[i], known)

HostRequirementsFsOk(hr) ==
    /\ \A i \in DOMAIN hr.amounts : AmountFsOk(hr.amounts[i])
    /\ \A i \in DOMAIN hr.attributes : AttributeFsOk(hr.attributes[i])
    /\ KnownNamesUnique(hr.amounts) /\ KnownNamesUnique(hr.attributes)

\* Job creation.
ResolvedNames(items, sub) == [i \in DOMAIN items |-> ValueIn(items[i].name, sub).str]

ResolveToF64(bound, sub) ==
    LET given == {v \in {ValueIn(fs, sub) : fs \in bound} : ~IsNull(v)}
    IN  [ok |-> \A v \in given : Parsed(v) # {}, value |-> UNION {Parsed(v) : v \in given}]

ResolvedAmountBoundsOk(min, max) ==
    /\ min # {} \/ max # {}
    /\ \A low \in min : low >= 0
    /\ \A high \in max : high > 0
    /\ \A low \in min, high \in max : low <= high

ResolveStringList(vals, sub) == FlattenSeq([i \in DOMAIN vals |-> ListItems(ValueIn(vals[i], sub))])

ResolvedAttributeValuesOk(n, values) == \A i \in DOMAIN values : AttributeValueOk(n, values[i])

ResolveAmounts(amounts, sub) ==
    LET names == ResolvedNames(amounts, sub)
    IN  /\ \A i \in DOMAIN amounts : CheckCapabilityName(names[i], "amount")
        /\ NamesDiffer(names)
        /\ \A i \in DOMAIN amounts :
               LET min == ResolveToF64(amounts[i].min, sub)
                   max == ResolveToF64(amounts[i].max, sub)
               IN  min.ok /\ max.ok /\ ResolvedAmountBoundsOk(min.value, max.value)

ResolveAttributes(attributes, sub) ==
    LET names == ResolvedNames(attributes, sub)
        Values(vals) == ResolveStringList(vals, sub)
    IN  /\ \A i \in DOMAIN attributes : CheckCapabilityName(names[i], "attr")
        /\ NamesDiffer(names)
        /\ \A i \in DOMAIN attributes :
               /\ \A vals \in attributes[i].anyOf \cup attributes[i].allOf :
                      /\ Len(Values(vals)) \in 1..CountLimit
                      /\ ResolvedAttributeValuesOk(names[i], Values(vals))
               /\ \A vals \in attributes[i].allOf :
                      Text[names[i]].lower \in DOMAIN StandardAttribute => Len(Values(vals)) <= 1

ResolveHostRequirements(hr, sub) ==
    ResolveAmounts(hr.amounts, sub) /\ ResolveAttributes(hr.attributes, sub)

-----------------------------------------------------------------------------
(***************************************************************************)
(* Task parameter ranges.  A range is a list of items or one expression;   *)
(* the expression of an INT or CHUNK[INT] range may also resolve to a      *)
(* range expression ([range |-> s]) or a list of integers ([ints |-> s]).  *)
(* A FLOAT item is [float |-> n] or a format string, the fields of chunks  *)
(* are [int |-> n] or a format string.                                     *)
(***************************************************************************)
IsIntegral(r) == r.type \in {"INT", "CHUNK[INT]"}
IsText(r) == r.type \in {"STRING", "PATH"}

ValidateTaskParamRange(r) ==
    IF r.form = "list"
    THEN /\ Len(r.items) \in 1..RangeLimit
         /\ r.type = "PATH" => \A i \in DOMAIN r.items :
                IsPlain(r.items[i]) => Text[Raw(r.items[i])].len > 0
    ELSE (IsIntegral(r) /\ IsPlain(r.expr)) => Text[Raw(r.expr)].range # {}

\* Pass 9, on the integers among the fields of chunks.
ValidateTaskChunking(r) ==
    \A c \in r.chunks :
        /\ "int" \in DOMAIN c.default => c.default.int >= 1
        /\ \A f \in c.target : "int" \in DOMAIN f => f.int >= 0

\* Pass 8: the expressions of FLOAT, STRING and PATH ranges are not looked at.
RangeFsOk(r) ==
    /\ (IsText(r) /\ r.form = "list") => \A i \in DOMAIN r.items :
           IsPlain(r.items[i]) \/ TextListItemOk(r.items[i], StringLimit, r.type = "PATH")
    /\ \A c \in r.chunks :
           /\ "kind" \in DOMAIN c.default => (IsPlain(c.default) \/ IntOk(c.default, 1, {}, FALSE))
           /\ \A f \in c.target : "kind" \in DOMAIN f => (IsPlain(f) \/ IntOk(f, 0, {}, TRUE))

Capped(seq) == IF Len(seq) <= RangeLimit THEN {seq} ELSE {}

\* The values and whether they are a list (the other form bounds them itself).
ResolveIntRange(r, sub) ==
    LET v == ValueIn(r.expr, sub)
        Listed(seqs) == {[values |-> s, list |-> TRUE] : s \in seqs}
        Ranged(seqs) == {[values |-> s, list |-> FALSE] : s \in seqs}
    IN  IF r.form = "list" THEN Listed(Capped(r.items))
        ELSE CASE "range" \in DOMAIN v -> Ranged({v.range})
               [] "ints" \in DOMAIN v -> Listed(Capped(v.ints))
               [] IsNum(v) -> Ranged({<<v.num>>})
               [] IsStr(v) -> Ranged(Text[v.str].range)
               [] OTHER -> {}

\* An item keeps the text it was written in, less redundant zeros, unless it is too long.
ResolveFloatItem(item, sub) ==
    IF "float" \in DOMAIN item THEN {[value |-> item.float, text |-> {}]}
    ELSE LET v == ValueIn(item, sub)
         IN  {[value |-> n,
               text |-> IF IsStr(v) THEN {t \in {Text[v.str].stripped} : Text[t].len <= StringLimit}
                        ELSE {}]
                : n \in IF IsStr(v) \/ IsNum(v) THEN Parsed(v) ELSE {}}

ResolveFloatRange(r, sub) ==
    IF r.form = "list"
    THEN IF \E i \in DOMAIN r.items : ResolveFloatItem(r.items[i], sub) = {} THEN {}
         ELSE Capped([i \in DOMAIN r.items |-> CHOOSE f \in ResolveFloatItem(r.items[i], sub) : TRUE])
    ELSE LET v == ValueIn(r.expr, sub)
         IN  IF "ints" \in DOMAIN v
             THEN Capped([i \in DOMAIN v.ints |-> [value |-> v.ints[i], text |-> {}]]) ELSE {}

ResolveStringRange(r, sub) ==
    LET v == ValueIn(r.expr, sub)
        values == IF r.form = "list" THEN ResolveStringList(r.items, sub) ELSE v.list
        low == IF r.type = "PATH" THEN 1 ELSE 0
    IN  IF IF r.form = "list" THEN values # <<>> ELSE IsList(v)
        THEN {s \in Capped(values) : \A i \in DOMAIN s : Text[s[i]].len \in low..StringLimit}
        ELSE {}

\* A number of tasks or of seconds; null is admitted where the field is optional.
ResolveChunkInt(f, low, sub) ==
    IF "int" \in DOMAIN f THEN {{IF f.int < low THEN low ELSE f.int}}
    ELSE LET v == ValueIn(f, sub)
         IN  IF IsNull(v) THEN IF low = 0 THEN {{}} ELSE {}
             ELSE {{n} : n \in {m \in Parsed(v) : m >= low}}

ResolveChunks(c, sub) ==
    {[default |-> d, target |-> t] :
        d \in ResolveChunkInt(c.default, 1, sub),
        t \in IF c.target = {} THEN {{}} ELSE UNION {ResolveChunkInt(f, 0, sub) : f \in c.target}}

InRangeExprs(values) == \A i \in DOMAIN values : values[i] < MaxMagnitude /\ -values[i] < MaxMagnitude

\* The parameter a job is created with: its values and its chunks.
ResolveTaskParameter(r, sub) ==
    CASE r.type = "INT" -> {[values |-> x.values, chunks |-> {}] : x \in ResolveIntRange(r, sub)}
      [] r.type = "FLOAT" -> {[values |-> x, chunks |-> {}] : x \in ResolveFloatRange(r, sub)}
      [] IsText(r) -> {[values |-> x, chunks |-> {}] : x \in ResolveStringRange(r, sub)}
      [] OTHER -> {[values |-> x.values, chunks |-> {c}] :
                      x \in {y \in ResolveIntRange(r, sub) : y.list => InRangeExprs(y.values)},
                      c \in UNION {ResolveChunks(c, sub) : c \in r.chunks}}

-----------------------------------------------------------------------------
(***************************************************************************)
(* A field refused before the job is submitted (structure.rs, pass 8)      *)
(* would have failed whatever it is submitted with; and when the field is  *)
(* settled (a literal or static), what validation accepts works.  There    *)
(* are two exceptions.  The period of a cancelation whose mode resolves to *)
(* null is checked although it is dropped; and a numeric field that        *)
(* resolves to more than NumericLimit characters is refused although a     *)
(* number padded with zeros to that length is one to the later stages.     *)
(***************************************************************************)
Settled(fs) == IsPlain(fs) \/ Static(fs)

PaddedPastLimit(fs) == ~IsPlain(fs) /\ OverNumericLimit(fs) /\ \E sub \in Submission : Parsed(fs.at[sub]) # {}

ScalarStagesAgree(fs) ==
    LET Agree(checked, runs) == /\ ~checked => \A sub \in Submission : ~runs[sub]
                                /\ (checked /\ Settled(fs)) => \A sub \in Submission : runs[sub]
        AgreeOnNumber(checked, runs) == PaddedPastLimit(fs) \/ Agree(checked, runs)
        strings == \A sub \in Submission : IsStr(fs.at[sub])
        numeric == \A sub \in Submission : IsNum(fs.at[sub]) \/ IsNull(fs.at[sub]) \/ (IsStr(fs.at[sub]) /\ fs.kind # "whole")
    IN  /\ strings => Agree(CheckedJobName(fs), [sub \in Submission |-> ResolveJobName(fs, sub)])
        /\ (\A sub \in Submission : ~IsNum(fs.at[sub])) =>
               Agree(CheckedArgs(<<fs>>), [sub \in Submission |-> ResolveActionArgs(<<fs>>, sub)])
        /\ numeric => /\ AgreeOnNumber(CheckedTimeout(fs), [sub \in Submission |-> ResolveActionTimeout(fs, sub) # {}])
                      /\ AgreeOnNumber(CheckedNotify(fs), [sub \in Submission |-> ResolveNotifyPeriodSeconds({fs}, sub) # {}])

CancelationStagesAgree(mode, period) ==
    LET runs == {sub \in Submission : ResolveEffectiveCancelation(mode, period, sub) # {}}
    IN  /\ (~CheckedCancelation(mode, period) /\ ~ \E fs \in period : PaddedPastLimit(fs)) =>
               \A sub \in runs : IsNull(ValueIn(mode, sub))
        /\ (CheckedCancelation(mode, period) /\ \A fs \in {mode} \cup period : Settled(fs)) =>
               \A sub \in Submission \ runs : ValueIn(mode, sub) = Str("TERMINATE") /\ period # {}

(***************************************************************************)
(* The same of host requirements, apart from the rules on how many         *)
(* elements are written, which validation applies before null elements     *)
(* vanish; requirements without format strings are created exactly when    *)
(* they decode.                                                            *)
(***************************************************************************)
CountsOk(hr) ==
    /\ Len(hr.amounts) + Len(hr.attributes) \in 1..CountLimit
    /\ \A i \in DOMAIN hr.attributes :
           LET lists == hr.attributes[i].anyOf \cup hr.attributes[i].allOf
           IN  lists # {} /\ \A l \in lists : Len(l) <= CountLimit

FieldsOf(hr) ==
    UNION {{a.name} \cup a.min \cup a.max : a \in ToSet(hr.amounts)}
    \cup UNION {{a.name} \cup UNION {ToSet(l) : l \in a.anyOf \cup a.allOf} : a \in ToSet(hr.attributes)}

HostStagesAgree(hr) ==
    CountsOk(hr) =>
        LET checked == ValidateHostRequirements(hr, TRUE) /\ HostRequirementsFsOk(hr)
            bounds == UNION {a.min \cup a.max : a \in ToSet(hr.amounts)}
        IN  /\ (~checked /\ ~ \E fs \in bounds : PaddedPastLimit(fs)) =>
                   \A sub \in Submission : ~ResolveHostRequirements(hr, sub)
            /\ (checked /\ \A fs \in FieldsOf(hr) : IsPlain(fs)) =>
                   \A sub \in Submission : ResolveHostRequirements(hr, sub)

(***************************************************************************)
(* The same of ranges.  A range of literals that passes validation is      *)
(* resolved, unless one of its strings is too long or one of its integers  *)
(* is out of the bounds of range expressions, which only job creation      *)
(* looks at.  What a job is created with respects the limits.              *)
(***************************************************************************)
LateRule(r) ==
    \/ IsText(r) /\ \E i \in DOMAIN r.items : Text[Raw(r.items[i])].len > StringLimit
    \/ r.type = "CHUNK[INT]" /\ ~InRangeExprs(r.items)

ChunkFields(r) == UNION {{f \in {c.default} \cup c.target : "kind" \in DOMAIN f} : c \in r.chunks}

LiteralRange(r) ==
    /\ r.form = "list"
    /\ ~IsIntegral(r) => \A i \in DOMAIN r.items : "float" \in DOMAIN r.items[i] \/ (IsText(r) /\ IsPlain(r.items[i]))
    /\ ChunkFields(r) = {}

RangeStagesAgree(r) ==
    LET checked == ValidateTaskParamRange(r) /\ ValidateTaskChunking(r) /\ RangeFsOk(r)
        counted == r.form = "list" => Len(r.items) \in 1..RangeLimit
    IN  /\ (~checked /\ counted /\ ValidateTaskChunking(r) /\ ~ \E f \in ChunkFields(r) : PaddedPastLimit(f)) =>
               \A sub \in Submission : ResolveTaskParameter(r, sub) = {}
        /\ (checked /\ LiteralRange(r) /\ ~LateRule(r)) =>
               \A sub \in Submission : ResolveTaskParameter(r, sub) # {}
        /\ \A sub \in Submission : \A p \in ResolveTaskParameter(r, sub) :
               /\ \A c \in p.chunks : (\A n \in c.default : n >= 1) /\ \A n \in c.target : n >= 0
               /\ r.form = "list" => Len(p.values) <= RangeLimit /\ (checked => p.values # <<>>)
               /\ IsText(r) => \A i \in DOMAIN p.values :
                      Text[p.values[i]].len \in (IF r.type = "PATH" THEN 1 ELSE 0)..StringLimit

=============================================================================
