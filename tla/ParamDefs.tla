----------------------------- MODULE ParamDefs -----------------------------
(***************************************************************************)
(* The twelve kinds of job parameter definition of a template: what         *)
(* template validation demands of a definition (validate_definition) and    *)
(* what a definition demands of a value (check_constraints), in             *)
(* template/parameters.rs and template/expr_parameters.rs of openjd-model.  *)
(*                                                                         *)
(* A string is a sequence of lexemes (see Paths); what a lexeme parses to   *)
(* is the constant Literal.  A value is a record whose only field (besides  *)
(* the element kind `of` of a list) names its kind: [int |-> 1],            *)
(* [string |-> <<"a">>], [list |-> <<...>>, of |-> "int"].                  *)
(*                                                                         *)
(* A definition is a record.  Optional fields are {} or {x}: `default`,     *)
(* `min` and `max` (of the value for INT and FLOAT, of the length           *)
(* otherwise), `allowed` (a set), `item` (constraints of the same shape on  *)
(* every element), `objectType`, `dataFlow` and `ui`.  A FLOAT default is    *)
(* kept as its text, as the code does.                                      *)
(***************************************************************************)
EXTENDS Paths

CONSTANTS Literal,         \* lexeme -> what it parses to, by kind: {} or {x}
          IntText,         \* the lexeme an integer is printed as
          FloatText,       \* the lexeme a float (in halves) is printed as
          RangeText,       \* the lexeme a range expression is printed as
          NegZero,         \* the float -0.0, equal to 0.0 but not the same bits
          Wide,            \* lexemes of one character and two bytes
          MaxStringLen,    \* EffectiveLimits::max_job_param_string_len
          MaxLabelLen,     \* characters of a user interface label
          MaxPatternLen    \* bytes of a file filter pattern

Scalar == {"STRING", "PATH", "INT", "FLOAT", "BOOL", "RANGE_EXPR"}

\* list_element_type
ElementType ==
    [t \in {"LIST[STRING]", "LIST[PATH]", "LIST[INT]", "LIST[FLOAT]", "LIST[BOOL]",
            "LIST[LIST[INT]]"} |->
       CASE t = "LIST[STRING]" -> "STRING"
         [] t = "LIST[PATH]"   -> "PATH"
         [] t = "LIST[INT]"    -> "INT"
         [] t = "LIST[FLOAT]"  -> "FLOAT"
         [] t = "LIST[BOOL]"   -> "BOOL"
         [] OTHER              -> "LIST[INT]"]

ParamType == Scalar \cup DOMAIN ElementType

Parse(text, kind) ==
    IF Len(text) = 1 /\ text[1] \in DOMAIN Literal THEN Literal[text[1]][kind] ELSE {}

\* The text whose JSON value is x.
JsonText(x) == <<CHOOSE l \in DOMAIN Literal : Literal[l].json = {x}>>

Chars(text) == Len(text)
Bytes(text) == Len(text) + Cardinality({i \in DOMAIN text : text[i] \in Wide})

IsKind(v, kind) == kind \in DOMAIN v
IsListOf(v, kind) == IsKind(v, "list") /\ v.of = kind

\* The number a float stands for.
Number(f) == IF f = NegZero THEN 0 ELSE f
Numbers(S) == {Number(f) : f \in S}

InBounds(x, c) == (\A m \in c.min : x >= m) /\ (\A m \in c.max : x <= m)
AmongAllowed(x, c) == \A a \in c.allowed : x \in a
FloatInBounds(f, c) ==
    (\A m \in c.min : Number(f) >= Number(m)) /\ (\A m \in c.max : Number(f) <= Number(m))
FloatAllowed(f, c) == \A a \in c.allowed : Number(f) \in Numbers(a)
-----------------------------------------------------------------------------
(* check_constraints, one operator per kind of definition. *)

StringCheck(d, s) == InBounds(Chars(s), d) /\ AmongAllowed(s, d)

IntCheck(d, s) == \E n \in Parse(s, "int") : InBounds(n, d) /\ AmongAllowed(n, d)

\* Infinities and NaN parse as floats but are refused: Literal has none.
FloatCheck(d, s) == \E f \in Parse(s, "float") : FloatInBounds(f, d) /\ FloatAllowed(f, d)

PathCheck(d, s) == InBounds(Chars(s), d) /\ AmongAllowed(s, d)

BoolCheck(v) ==
    \/ IsKind(v, "bool")
    \/ IsKind(v, "int") /\ v.int \in {0, 1}
    \/ IsKind(v, "string") /\ Parse(v.string, "bool") # {}

RangeExprCheck(d, v) ==
    \/ IsKind(v, "range") /\ InBounds(Chars(RangeText[v.range]), d)
    \/ /\ IsKind(v, "string") /\ Parse(v.string, "range") # {}
       /\ InBounds(Chars(v.string), d)

CheckListLength(n, d) == InBounds(n, d)

CheckStringItems(items, it) ==
    \A i \in DOMAIN items :
        InBounds(Chars(items[i].string), it) /\ AmongAllowed(items[i].string, it)

CheckIntItems(items, it) ==
    \A i \in DOMAIN items : InBounds(items[i].int, it) /\ AmongAllowed(items[i].int, it)

ListStringCheck(d, v) ==
    /\ IsListOf(v, "string")
    /\ CheckListLength(Len(v.list), d)
    /\ \A it \in d.item : CheckStringItems(v.list, it)

ListPathCheck(d, v) ==
    /\ IsListOf(v, "string")
    /\ CheckListLength(Len(v.list), d)
    /\ \A it \in d.item : CheckStringItems(v.list, it)

ListIntCheck(d, v) ==
    /\ IsListOf(v, "int")
    /\ CheckListLength(Len(v.list), d)
    /\ \A it \in d.item : CheckIntItems(v.list, it)

ListFloatCheck(d, v) ==
    /\ IsListOf(v, "float")
    /\ CheckListLength(Len(v.list), d)
    /\ \A it \in d.item : \A i \in DOMAIN v.list :
           FloatInBounds(v.list[i].float, it) /\ FloatAllowed(v.list[i].float, it)

ListBoolCheck(d, v) == IsListOf(v, "bool") /\ CheckListLength(Len(v.list), d)

ListListIntCheck(d, v) ==
    /\ IsListOf(v, "list")
    /\ CheckListLength(Len(v.list), d)
    /\ \A it \in d.item : \A i \in DOMAIN v.list :
           /\ IsListOf(v.list[i], "int")
           /\ InBounds(Len(v.list[i].list), it)
           /\ \A inner \in it.item : CheckIntItems(v.list[i].list, inner)

\* The text the scalar checks read; a list has none.
StrVal(v) ==
    CASE IsKind(v, "string") -> v.string
      [] IsKind(v, "int")    -> <<IntText[v.int]>>
      [] IsKind(v, "float")  -> <<FloatText[v.float]>>
      [] IsKind(v, "bool")   -> <<IF v.bool THEN "true" ELSE "false">>
      [] OTHER               -> <<>>

CheckConstraints(d, v) ==
    CASE d.type = "STRING"       -> StringCheck(d, StrVal(v))
      [] d.type = "INT"          -> IntCheck(d, StrVal(v))
      [] d.type = "FLOAT"        -> FloatCheck(d, StrVal(v))
      [] d.type = "PATH"         -> PathCheck(d, StrVal(v))
      [] d.type = "BOOL"         -> BoolCheck(v)
      [] d.type = "RANGE_EXPR"   -> RangeExprCheck(d, v)
      [] d.type = "LIST[STRING]" -> ListStringCheck(d, v)
      [] d.type = "LIST[PATH]"   -> ListPathCheck(d, v)
      [] d.type = "LIST[INT]"    -> ListIntCheck(d, v)
      [] d.type = "LIST[FLOAT]"  -> ListFloatCheck(d, v)
      [] d.type = "LIST[BOOL]"   -> ListBoolCheck(d, v)
      [] OTHER                   -> ListListIntCheck(d, v)
-----------------------------------------------------------------------------
(* User interface properties: [labels (a set of [len, ctl]), control (a     *)
(* string or absent), delta, decimals ({} or {number}), filters ({} or a    *)
(* set of sets of patterns), filterDefault].                                *)

LabelOk(l) == l.len # 0 /\ l.len <= MaxLabelLen /\ ~l.ctl

LabelsOk(ui) == \A l \in ui.labels : LabelOk(l)

ControlOf(ui, otherwise) == IF ui.control = {} THEN otherwise ELSE CHOOSE c \in ui.control : TRUE

BoolPair == {{<<"true">>, <<"false">>}, {<<"yes">>, <<"no">>}, {<<"on">>, <<"off">>},
             {<<"1">>, <<"0">>}}

\* A STRING definition has no control unless it names one.
StringUiOk(d, ui) ==
    /\ LabelsOk(ui)
    /\ \A c \in ui.control :
         \/ c \in {"LINE_EDIT", "MULTILINE_EDIT"} /\ d.allowed = {}
         \/ c = "DROPDOWN_LIST" /\ d.allowed # {}
         \/ c = "CHECK_BOX" /\ \E a \in d.allowed :
                Cardinality(a) = 2 /\ {FoldPath(s) : s \in a} \in BoolPair
         \/ c = "HIDDEN"

NumberControl(d, ui) == ControlOf(ui, IF d.allowed # {} THEN "DROPDOWN_LIST" ELSE "SPIN_BOX")

IntUiOk(d, ui) ==
    /\ LabelsOk(ui)
    /\ \/ NumberControl(d, ui) = "SPIN_BOX" /\ d.allowed = {}
       \/ NumberControl(d, ui) = "DROPDOWN_LIST" /\ d.allowed # {} /\ ui.delta = {}
       \/ NumberControl(d, ui) = "HIDDEN" /\ ui.delta = {}
    /\ \A n \in ui.delta : n > 0

FloatUiOk(d, ui) ==
    /\ LabelsOk(ui)
    /\ \/ NumberControl(d, ui) = "SPIN_BOX" /\ d.allowed = {}
       \/ /\ NumberControl(d, ui) = "DROPDOWN_LIST" /\ d.allowed # {}
          /\ ui.delta = {} /\ ui.decimals = {}
       \/ NumberControl(d, ui) = "HIDDEN" /\ ui.delta = {} /\ ui.decimals = {}
    /\ \A n \in ui.delta : n > 0

PathControl(d, ui) ==
    ControlOf(ui, IF d.allowed # {} THEN "DROPDOWN_LIST"
                  ELSE IF d.objectType # {"FILE"} THEN "CHOOSE_DIRECTORY"
                  ELSE IF d.dataFlow = {"OUT"} THEN "CHOOSE_OUTPUT_FILE"
                  ELSE "CHOOSE_INPUT_FILE")

\* "*", "*.*" or "*." and an extension of plain characters
FilterPatternOk(pat) ==
    /\ pat # <<>> /\ Len(pat) <= MaxPatternLen
    /\ \/ pat \in {<<"*">>, <<"*", ".", "*">>}
       \/ /\ Len(pat) > 2 /\ pat[1] = "*" /\ pat[2] = "."
          /\ \A i \in 3..Len(pat) : pat[i] \notin {"*", "/", "\\"}

PathUiOk(d, ui) ==
    LET c == PathControl(d, ui)
        chooser == c \in {"CHOOSE_INPUT_FILE", "CHOOSE_OUTPUT_FILE"}
    IN  /\ LabelsOk(ui)
        /\ \/ chooser /\ d.allowed = {} /\ d.objectType = {"FILE"}
           \/ c = "CHOOSE_DIRECTORY" /\ d.allowed = {} /\ d.objectType # {"FILE"}
           \/ c = "DROPDOWN_LIST" /\ d.allowed # {}
           \/ c = "HIDDEN"
        /\ \A patterns \in ui.filters :
             chooser /\ patterns # {} /\ \A p \in patterns : FilterPatternOk(p)
        /\ \A patterns \in ui.filterDefault :
             chooser /\ \A p \in patterns : FilterPatternOk(p)

UiOk(ui, controls) == LabelsOk(ui) /\ ui.control \subseteq controls
-----------------------------------------------------------------------------
(* validate_definition, one operator per kind of definition. *)

OrderedBounds(c) == \A lo \in c.min, hi \in c.max : lo <= hi

StringValid(d) ==
    /\ \A a \in d.allowed : a # {} /\ \A s \in a : Chars(s) <= MaxStringLen /\ InBounds(Chars(s), d)
    /\ OrderedBounds(d) /\ 0 \notin d.max
    /\ \A s \in d.default : Chars(s) <= MaxStringLen /\ InBounds(Chars(s), d) /\ AmongAllowed(s, d)
    /\ \A ui \in d.ui : StringUiOk(d, ui)

\* The allowed values are not held against the bounds.
IntValid(d) ==
    /\ \A a \in d.allowed : a # {}
    /\ OrderedBounds(d)
    /\ \A n \in d.default : IntCheck(d, <<IntText[n]>>)
    /\ \A ui \in d.ui : IntUiOk(d, ui)

FloatValid(d) ==
    /\ \A a \in d.allowed : a # {} /\ \A f \in a : FloatInBounds(f, d)
    /\ \A lo \in d.min, hi \in d.max : Number(lo) <= Number(hi)
    /\ \A s \in d.default : FloatCheck(d, s)
    /\ \A ui \in d.ui : FloatUiOk(d, ui)

PathValid(d) ==
    /\ \A a \in d.allowed : a # {} /\ \A s \in a : Chars(s) <= MaxStringLen /\ InBounds(Chars(s), d)
    /\ OrderedBounds(d)
    /\ \A s \in d.default : Chars(s) <= MaxStringLen /\ InBounds(Chars(s), d) /\ AmongAllowed(s, d)
    /\ \A ui \in d.ui : PathUiOk(d, ui)

BoolValid(d) == \A ui \in d.ui : UiOk(ui, {"CHECK_BOX", "HIDDEN"})

\* The length bounds of the definition are not applied to the default.
RangeExprValid(d) ==
    /\ \A s \in d.default : Parse(s, "range") # {}
    /\ \A ui \in d.ui : UiOk(ui, {"LINE_EDIT", "HIDDEN"})

\* The default of a list definition is a sequence of elements.
ValidListLength(d) == \A l \in d.default : InBounds(Len(l), d)

ValidStringItems(l, it) ==
    \A i \in DOMAIN l : AmongAllowed(l[i], it) /\ InBounds(Chars(l[i]), it)

ValidIntItems(l, it) == \A i \in DOMAIN l : InBounds(l[i], it) /\ AmongAllowed(l[i], it)

ListStringValid(d) ==
    /\ ValidListLength(d)
    /\ \A l \in d.default, it \in d.item : ValidStringItems(l, it)
    /\ \A ui \in d.ui : UiOk(ui, {"LINE_EDIT_LIST", "HIDDEN"})

ListPathValid(d) ==
    /\ ValidListLength(d)
    /\ \A l \in d.default, it \in d.item : ValidStringItems(l, it)
    /\ \A ui \in d.ui : UiOk(ui, {"CHOOSE_INPUT_FILE_LIST", "CHOOSE_OUTPUT_FILE_LIST",
                                  "CHOOSE_DIRECTORY_LIST", "HIDDEN"})

ListIntValid(d) ==
    /\ ValidListLength(d)
    /\ \A l \in d.default, it \in d.item : ValidIntItems(l, it)
    /\ \A ui \in d.ui : UiOk(ui, {"SPIN_BOX_LIST", "HIDDEN"})

\* The allowed values of the items are not applied to the default.
ListFloatValid(d) ==
    /\ ValidListLength(d)
    /\ \A l \in d.default, it \in d.item : \A i \in DOMAIN l : FloatInBounds(l[i], it)
    /\ \A ui \in d.ui : UiOk(ui, {"SPIN_BOX_LIST", "HIDDEN"})

ListBoolValid(d) ==
    /\ ValidListLength(d)
    /\ \A ui \in d.ui : UiOk(ui, {"CHECK_BOX_LIST", "HIDDEN"})

ListListIntValid(d) ==
    /\ ValidListLength(d)
    /\ \A l \in d.default, it \in d.item : \A i \in DOMAIN l :
           InBounds(Len(l[i]), it) /\ \A inner \in it.item : ValidIntItems(l[i], inner)
    /\ \A ui \in d.ui : UiOk(ui, {"HIDDEN"})

ValidateDefinition(d) ==
    CASE d.type = "STRING"       -> StringValid(d)
      [] d.type = "INT"          -> IntValid(d)
      [] d.type = "FLOAT"        -> FloatValid(d)
      [] d.type = "PATH"         -> PathValid(d)
      [] d.type = "BOOL"         -> BoolValid(d)
      [] d.type = "RANGE_EXPR"   -> RangeExprValid(d)
      [] d.type = "LIST[STRING]" -> ListStringValid(d)
      [] d.type = "LIST[PATH]"   -> ListPathValid(d)
      [] d.type = "LIST[INT]"    -> ListIntValid(d)
      [] d.type = "LIST[FLOAT]"  -> ListFloatValid(d)
      [] d.type = "LIST[BOOL]"   -> ListBoolValid(d)
      [] OTHER                   -> ListListIntValid(d)
-----------------------------------------------------------------------------
\* The control a definition ends up with, given or by default.
EffectiveControl(d, ui) ==
    CASE d.type \in {"INT", "FLOAT"} -> {NumberControl(d, ui)}
      [] d.type = "PATH"             -> {PathControl(d, ui)}
      [] OTHER                       -> ui.control

\* In a valid definition the control offers a choice exactly when there are
\* values to choose from (a hidden control offers nothing), and a file
\* chooser is never put on a directory.
ControlsFit(d) ==
    (ValidateDefinition(d) /\ d.type \in {"STRING", "INT", "FLOAT", "PATH"}) =>
      \A ui \in d.ui : \A c \in EffectiveControl(d, ui) \ {"HIDDEN"} :
        /\ (c \in {"DROPDOWN_LIST", "CHECK_BOX"}) = (d.allowed # {})
        /\ c \in {"CHOOSE_INPUT_FILE", "CHOOSE_OUTPUT_FILE"} => d.objectType = {"FILE"}
=============================================================================
