----------------------------- MODULE MCTemplate ------------------------------
(***************************************************************************)
(* What becomes of a template and of the values submitted with it, stage   *)
(* by stage.  A behaviour is about one subject: a submission of job        *)
(* parameters, a path, a template's structure, the symbols it reads, or a  *)
(* value it leaves open.  A subject grows step by step.                    *)
(***************************************************************************)
EXTENDS JobParameters, PathMapping, TemplateStructure, SymbolScopes, ResolvedValues, TLC

-----------------------------------------------------------------------------
(* Job parameters, paths and path mapping: definitions of every type with  *)
(* small bounds, the literals a command line can hold, and paths grown     *)
(* component by component.                                                 *)

I(n) == [int |-> n]
F(half) == [float |-> half]   \* a float is counted in halves
S(t) == [string |-> t]

\* What a text can be read as.
Reading(i, f, b, r, j) == [int |-> i, float |-> f, bool |-> b, range |-> r, json |-> j]
JsonList(xs) == Reading({}, {}, {}, {}, {[list |-> xs]})
MCLiteral ==
    ("1" :> Reading({1}, {2}, {TRUE}, {"1"}, {I(1)})) @@
    ("0" :> Reading({0}, {0}, {FALSE}, {"0"}, {I(0)})) @@
    ("5" :> Reading({5}, {10}, {}, {"5"}, {I(5)})) @@
    ("true" :> Reading({}, {}, {TRUE}, {}, {[bool |-> TRUE]})) @@
    ("yes" :> Reading({}, {}, {TRUE}, {}, {})) @@
    ("Yes" :> Reading({}, {}, {TRUE}, {}, {})) @@
    ("0.5" :> Reading({}, {1}, {}, {}, {F(1)})) @@
    ("1.0" :> Reading({}, {2}, {}, {}, {F(2)})) @@
    ("5.0" :> Reading({}, {10}, {}, {}, {F(10)})) @@
    ("0.0" :> Reading({}, {0}, {}, {}, {F(0)})) @@
    ("-0.0" :> Reading({}, {NegZero}, {}, {}, {F(NegZero)})) @@
    ("1-2" :> Reading({}, {}, {}, {"1-2"}, {})) @@
    ("null" :> Reading({}, {}, {}, {}, {[null |-> TRUE]})) @@
    ("[]" :> JsonList(<<>>)) @@
    ("[1,0]" :> JsonList(<<I(1), I(0)>>)) @@
    ("[5]" :> JsonList(<<I(5)>>)) @@
    ("[\"a\"]" :> JsonList(<<S(<<"a">>)>>)) @@
    ("[\"a/..\"]" :> JsonList(<<S(<<"a", "/", ".", ".">>)>>)) @@
    ("[1.0]" :> JsonList(<<F(2)>>)) @@
    ("[0.5]" :> JsonList(<<F(1)>>)) @@
    ("[-0.0]" :> JsonList(<<F(NegZero)>>)) @@
    ("[true]" :> JsonList(<<[bool |-> TRUE]>>)) @@
    ("[\"1\"]" :> JsonList(<<S(<<"1">>)>>)) @@
    ("[\"../a\"]" :> JsonList(<<S(<<".", ".", "/", "a">>)>>)) @@
    ("[null]" :> JsonList(<<[null |-> TRUE]>>)) @@
    ("[[1],[0]]" :> JsonList(<<[list |-> <<I(1)>>], [list |-> <<I(0)>>]>>))
MCIntText == (0 :> "0") @@ (1 :> "1") @@ (5 :> "5")
MCFloatText == (0 :> "0.0") @@ (1 :> "0.5") @@ (2 :> "1.0") @@ (10 :> "5.0") @@ (NegZero :> "0.0")
MCRangeText == [r \in {"1", "0", "5", "1-2"} |-> <<r>>]
MCFold == ("Yes" :> "yes") @@ ("C:" :> "c:") @@ ("A" :> "a")

Opt(Set) == {{}} \cup {{x} : x \in Set}
Def(t, default, min, max, allowed, item) ==
    [type |-> t, default |-> default, min |-> min, max |-> max, allowed |-> allowed, item |-> item,
     objectType |-> {}, dataFlow |-> {}, ui |-> {}]
ItemOf(min, max, allowed, item) == [min |-> min, max |-> max, allowed |-> allowed, item |-> item]
Items(mins, alloweds) == Opt({ItemOf(mn, {}, al, {}) : mn \in Opt(mins), al \in Opt(alloweds)})

A1 == <<"a">>
Up == <<".", ".", "/", "a">>
Sibling == <<".", ".", "/", "d", "a">>   \* next to /d, and it starts like it
E1 == <<"é">>

DefsOf(t) ==
    CASE t = "STRING" ->
           {Def(t, df, mn, mx, al, {}) : df \in Opt({A1, E1}), mn \in Opt({2}), mx \in Opt({1}),
                                         al \in Opt({{A1}, {A1, E1}})}
      [] t = "PATH" ->
           {[Def(t, df, mn, {}, al, {}) EXCEPT !.objectType = ot, !.dataFlow = fl] :
              df \in Opt({A1, Up, Sibling, <<"/", "a">>}), mn \in Opt({2}),
              al \in Opt({{A1, <<"/", "d", "/", "a">>}}), ot \in Opt({"FILE"}), fl \in Opt({"OUT"})}
      [] t = "INT" ->
           {Def(t, df, mn, mx, al, {}) : df \in Opt({1}), mn \in Opt({1}), mx \in Opt({1, 5}),
                                         al \in Opt({{1}, {0, 5}})}
      [] t = "FLOAT" ->
           {Def(t, df, mn, mx, al, {}) : df \in Opt({<<"1.0">>, <<"-0.0">>}), mn \in Opt({0}),
                                         mx \in Opt({1}), al \in Opt({{0}, {NegZero}, {1, 2}})}
      [] t = "BOOL" -> {Def(t, df, {}, {}, {}, {}) : df \in Opt({TRUE})}
      [] t = "RANGE_EXPR" -> {Def(t, df, mn, {}, {}, {}) : df \in Opt({<<"1-2">>}), mn \in Opt({2})}
      [] t = "LIST[STRING]" ->
           {Def(t, df, mn, {}, {}, it) : df \in Opt({<<>>, <<A1>>}), mn \in Opt({1}),
                                         it \in Items({1, 2}, {{A1}, {<<"1">>}})}
      [] t = "LIST[PATH]" ->
           {Def(t, df, mn, {}, {}, it) : df \in Opt({<<A1>>, <<Up>>, <<<<"a", "/", ".", ".">>>>}),
                                         mn \in Opt({1}), it \in Items({2}, {{<<"/", "d", "/", "a">>}})}
      [] t = "LIST[INT]" ->
           {Def(t, df, mn, mx, {}, it) : df \in Opt({<<1, 0>>, <<5>>}), mn \in Opt({2}),
                                         mx \in Opt({1}), it \in Items({1}, {{1, 0}, {5}})}
      [] t = "LIST[FLOAT]" ->
           {Def(t, df, mn, {}, {}, it) : df \in Opt({<<1>>, <<2>>}), mn \in Opt({1}),
                                         it \in Items({2}, {{1}, {NegZero}})}
      [] t = "LIST[BOOL]" ->
           {Def(t, df, mn, mx, {}, {}) : df \in Opt({<<TRUE>>}), mn \in Opt({1}), mx \in Opt({0, 1})}
      [] OTHER ->
           {Def(t, df, mn, {}, {}, it) : df \in Opt({<<<<1>>, <<0>>>>}), mn \in Opt({2}),
              it \in Opt({ItemOf({1}, {}, {}, in) : in \in Opt({ItemOf({1}, {}, {}, {}), ItemOf({}, {0}, {{5}}, {})})})}

\* The texts worth submitting for a type: the ones that can be read as it.
MayRead(t, r) ==
    CASE t = "INT"        -> r.int # {}
      [] t = "FLOAT"      -> r.float # {}
      [] t = "BOOL"       -> r.bool # {}
      [] t = "RANGE_EXPR" -> r.range # {}
      [] t \in {"STRING", "PATH"} -> FALSE
      [] OTHER            -> \E j \in r.json : "list" \in DOMAIN j

\* The values a client may submit for a type, as text or as typed values.
ValuesOf(t) ==
    {[string |-> <<l>>] : l \in {l \in DOMAIN MCLiteral : l \in {"null", "Yes", "[null]"} \/ MayRead(t, MCLiteral[l])}} \cup
    (CASE t = "STRING" -> {S(A1), S(E1), I(1), F(1), [bool |-> TRUE]}
       [] t = "PATH" -> {S(p) : p \in {A1, Up, <<"/", "a">>, <<"s3:", "/", "/", "b">>,
                                       <<"C:", "\\", "a">>, <<>>}}
                         \cup {I(1), [range |-> "1-2"], [list |-> <<>>, of |-> "int"],
                               [list |-> <<S(Up), S(A1)>>, of |-> "string"]}
       [] t \in {"INT", "FLOAT", "BOOL"} -> {I(0), I(5), F(1), F(2), F(NegZero), [bool |-> TRUE]}
       [] t = "RANGE_EXPR" -> {[range |-> "1-2"]}
       [] t \in {"LIST[STRING]", "LIST[PATH]"} ->
            {[list |-> <<S(A1)>>, of |-> "string"], [list |-> <<S(Up), S(<<"/", "a">>)>>, of |-> "string"]}
       [] t = "LIST[INT]" -> {[list |-> <<>>, of |-> "int"], [list |-> <<F(1)>>, of |-> "float"]}
       [] t = "LIST[FLOAT]" -> {[list |-> <<F(1)>>, of |-> "float"]}
       [] t = "LIST[LIST[INT]]" ->
            {[list |-> <<[list |-> l, of |-> "int"]>>, of |-> "list"] : l \in {<<>>, <<I(0)>>, <<I(5), I(1)>>}} \cup
            {[list |-> <<[list |-> <<S(A1)>>, of |-> "string"], [list |-> <<I(5)>>, of |-> "int"]>>, of |-> "list"]}
       [] OTHER -> {[list |-> <<[bool |-> TRUE]>>, of |-> "bool"]})

\* Where relative paths are resolved.
Plainly == [dir |-> <<"/", "d">>, cwd |-> <<"/", "c">>, fmt |-> "Posix", walkUp |-> FALSE,
            uris |-> FALSE, expr |-> TRUE]
Settings ==
    {[Plainly EXCEPT !.dir = d, !.walkUp = w, !.cwd = c] :
       d \in {<<"/", "d">>, <<"/">>, <<"d">>}, w \in BOOLEAN, c \in {<<>>, <<"/", "c">>}} \cup
    {[Plainly EXCEPT !.uris = u, !.expr = e] : u, e \in BOOLEAN} \cup
    {[Plainly EXCEPT !.fmt = "Windows", !.dir = d, !.walkUp = w, !.cwd = <<"C:", "\\", "c">>] :
       d \in {<<"C:", "\\", "d">>, <<"\\", "\\", "h", "\\", "s", "\\", "d">>}, w \in BOOLEAN}

NoSubmission == [kind |-> "STRING", templates |-> <<>>, inputs |-> <<>>, at |-> Plainly]
Submission0 ==
    {[NoSubmission EXCEPT !.kind = k, !.at = o] :
       k \in ParamType, o \in {Plainly}} \cup
    {[NoSubmission EXCEPT !.kind = k, !.at = o] : k \in {"PATH", "LIST[PATH]"}, o \in Settings}

\* A definition that adds one constraint or a default.
Slight(d) == Cardinality({f \in {"default", "min", "max", "allowed", "item", "objectType", "dataFlow"} : d[f] # {}}) <= 1

\* The parameter has a user interface, which is no concern of its values.
Shown(s) == s.templates # <<>> /\ s.templates[1]["P"].ui # {}

\* One more template that defines the parameter, or the value submitted for it.
Define(s) ==
    IF Len(s.templates) < (IF s.at = Plainly THEN 2 ELSE 1) /\ s.inputs = <<>> /\ ~Shown(s)
    THEN {[s EXCEPT !.templates = Append(@, "P" :> d)] :
            d \in {x \in DefsOf(s.kind) : ValidateDefinition(x) /\ (s.templates # <<>> => Slight(x))}}
    ELSE {}
Submit(s) ==
    IF s.templates # <<>> /\ s.inputs = <<>> /\ ~Shown(s)
    THEN {[s EXCEPT !.inputs = "P" :> v] : v \in ValuesOf(s.kind)}
    ELSE {}

\* Definitions with a user interface.
Uis == {[labels |-> {}, control |-> c, delta |-> de, decimals |-> {}, filters |-> fi, filterDefault |-> {}] :
          c \in Opt({"SPIN_BOX", "DROPDOWN_LIST", "CHECK_BOX", "LINE_EDIT", "CHOOSE_INPUT_FILE",
                     "CHOOSE_DIRECTORY", "HIDDEN"}),
          de \in Opt({0, 1}), fi \in Opt({{}, {<<"*">>}, {<<"*", ".", "/">>}})}
       \cup {[labels |-> {[len |-> n, ctl |-> b]}, control |-> {}, delta |-> {}, decimals |-> {1},
              filters |-> {}, filterDefault |-> {{<<"*", ".", "a">>}}] : n \in {0, 1, 3}, b \in BOOLEAN}
WithUi(s) ==
    {[s EXCEPT !.templates = <<"P" :> [d EXCEPT !.ui = {ui}]>>] :
       d \in {x \in DefsOf(s.kind) : x.default = {} /\ x.min = {} /\ x.max = {}}, ui \in Uis}

Sub(s) == [templates |-> s.templates, inputs |-> s.inputs] @@ s.at

-----------------------------------------------------------------------------
Lexeme == {"/", "\\", ".", "C:", "s3:", "a", "A"}
MappingRules ==
    {[format |-> "Posix", source |-> <<"/", "a">>, dest |-> <<"/", "x">>],
     [format |-> "Posix", source |-> <<"/", "a", "/", "A">>, dest |-> <<"/", "y">>],
     [format |-> "Posix", source |-> <<"a">>, dest |-> <<"z">>],
     [format |-> "Windows", source |-> <<"C:", "\\", "a">>, dest |-> <<"/", "w">>],
     [format |-> "Windows", source |-> <<"C:", "\\">>, dest |-> <<"D:", "\\", "w">>],
     [format |-> "Uri", source |-> <<"s3:", "/", "/", "a">>, dest |-> <<"/", "u">>],
     [format |-> "Uri", source |-> <<"s3:", "/", "/", "a", "/", "a">>, dest |-> <<"/", "v">>]}
RuleSets == {[given |-> g, added |-> a] : g \in SeqOf(MappingRules, 1), a \in SeqOf(MappingRules, 1)}
Grown(p, n) == IF Len(p) >= n THEN {}
               ELSE {Append(p, c) : c \in {x \in Lexeme : x \in {"C:", "s3:"} => p = <<>>}}
Formats == {"Posix", "Windows"}

-----------------------------------------------------------------------------
(* Template validation: templates grown from a smallest one, and templates *)
(* that bind and read symbols.                                             *)

MCBaseLimit ==
    [command |-> 2, notify |-> 2, identifier |-> 2, filename |-> 2, envName |-> 2, varValue |-> 2,
     jobName |-> 2, stepName |-> 2, params |-> 1, taskParams |-> 1, envParams |-> 1]
MCRaisedLimit ==
    [MCBaseLimit EXCEPT !.identifier = 4, !.filename = 6, !.envName = 3, !.jobName = 3,
                        !.stepName = 3, !.params = 2]
MCMaxCount == {3}

\* Texts of the lengths and contents the checks tell apart.
Texts == {<<>>, <<"a">>, <<"NL">>, <<"BEL">>, <<"{{f}}">>, <<"a", "a", "a">>}
LongAndShortNames ==
    {<<>>, <<"b">>, <<"1">>, <<"/">>, <<"1", "b">>, <<"a", "b", "1">>, <<"a", "b", "a", "b">>, <<"NL">>}
NumberForms == {[int |-> 0], [int |-> 3], [expr |-> TRUE], [text |-> TRUE]}

PlainAction == [command |-> <<"a">>, args |-> {}, timeout |-> {}, cancelation |-> {}]
TestActions ==
    {[PlainAction EXCEPT !.command = c] : c \in Texts} \cup
    {[PlainAction EXCEPT !.args = {l}] : l \in {<<>>} \cup {<<<<"a">>, x>> : x \in Texts}} \cup
    {[PlainAction EXCEPT !.timeout = {n}] : n \in NumberForms} \cup
    {[PlainAction EXCEPT !.cancelation = {[mode |-> m, period |-> p]}] :
       m \in {"notify", "deferred"}, p \in {{}} \cup {{n} : n \in NumberForms}}

PlainFile == [name |-> <<"f">>, filename |-> {}, data |-> {<<"a">>}, eol |-> FALSE]
TestFiles ==
    {[PlainFile EXCEPT !.name = n] : n \in {<<>>, <<"1">>, <<"a", "a", "a">>}} \cup
    {[PlainFile EXCEPT !.filename = {n}] : n \in {<<>>, <<"/">>, <<"a">>, <<"a", "a", "a">>}} \cup
    {[PlainFile EXCEPT !.data = d] : d \in {{}, {<<>>}}} \cup {[PlainFile EXCEPT !.eol = TRUE]}
TestFileLists == {{}, {<<>>}} \cup {{<<PlainFile, f>>} : f \in TestFiles \cup {PlainFile}}

TestScripts ==
    {[onRun |-> a, files |-> {}] : a \in TestActions} \cup
    {[onRun |-> [PlainAction EXCEPT !.args = {<<<<"{{f}}">>>>}], files |-> f] : f \in TestFileLists}
TestSugars ==
    {[script |-> s, args |-> a.args, timeout |-> a.timeout, cancelation |-> a.cancelation] :
       a \in TestActions, s \in {<<>>, <<"a">>}}
PlainSugar == [script |-> <<"a">>, args |-> {}, timeout |-> {}, cancelation |-> {}]

BareStep == [name |-> <<"a">>, script |-> {}, sugar |-> <<>>, deps |-> {}, space |-> {}, envs |-> {}]
PlainStep == [BareStep EXCEPT !.script = {[onRun |-> PlainAction, files |-> {}]}]
TestDefs ==
    {[name |-> n, type |-> ty, canonical |-> c, valid |-> v] :
       n \in {<<"a">>, <<"a", "a", "a">>}, ty \in {"INT", "BOOL", "CHUNK[INT]"}, c, v \in BOOLEAN}
TestDefLists == {{}, {<<>>}} \cup {{<<d>>} : d \in TestDefs} \cup
                {{<<d, d>>} : d \in {x \in TestDefs : x.canonical /\ x.valid}}
TestSteps ==
    {[BareStep EXCEPT !.script = {s}] : s \in TestScripts} \cup
    {[BareStep EXCEPT !.name = n, !.sugar = (k :> s)] :
       n \in LongAndShortNames, k \in {"python", "cmd"}, s \in TestSugars} \cup
    {[BareStep EXCEPT !.sugar = [k \in ks |-> PlainSugar], !.script = sc] :
       ks \in SUBSET {"python", "cmd"}, sc \in {{}, PlainStep.script}} \cup
    {[PlainStep EXCEPT !.deps = d] : d \in {{<<>>}, {<<<<"a">>>>}, {<<<<"b">>>>}, {<<<<"b">>, <<"b">>>>}}} \cup
    {[PlainStep EXCEPT !.space = d] : d \in TestDefLists}

PlainEnv == [name |-> <<"e">>, script |-> {}, variables |-> {<<[name |-> <<"a">>, value |-> <<"a">>]>>}]
Scripted(actions, files) == {[actions |-> actions, files |-> files]}
Wrapper(n) ==
    [PlainEnv EXCEPT !.name = <<n>>, !.script = Scripted([h \in WrapHooks |-> PlainAction], {})]
TestEnvs ==
    {[PlainEnv EXCEPT !.name = n] : n \in LongAndShortNames} \cup
    {[PlainEnv EXCEPT !.variables = v] :
       v \in {{}, {<<>>}} \cup {{<<[name |-> n, value |-> x]>>} : n \in LongAndShortNames, x \in {<<"a">>, <<"a", "a", "a">>}}} \cup
    {[PlainEnv EXCEPT !.script = Scripted([h \in hs |-> PlainAction], {})] :
       hs \in SUBSET ({"onEnter"} \cup WrapHooks)} \cup
    {[PlainEnv EXCEPT !.script = Scripted("onEnter" :> a, {})] : a \in TestActions} \cup
    {[PlainEnv EXCEPT !.script = Scripted("onEnter" :> PlainAction, f)] : f \in TestFileLists}
TestEnvLists ==
    {<<>>, <<PlainEnv, PlainEnv>>, <<Wrapper("a")>>, <<Wrapper("a"), Wrapper("b")>>} \cup {<<e>> : e \in TestEnvs}

TestExtensions ==
    {{}} \cup {{l} : l \in {<<>>, <<"EXPR", "EXPR">>, <<"WHAT">>, <<"FEATURE_BUNDLE_1">>, <<"TASK_CHUNKING">>,
                            <<"WRAP_ACTIONS">>, <<"FEATURE_BUNDLE_1", "EXPR", "WRAP_ACTIONS">>}}

SmallestTemplate ==
    [extensions |-> {}, name |-> <<"j">>, params |-> {}, envs |-> {}, steps |-> <<PlainStep>>]

\* The templates one edit away from a template with the given extensions.
Edits(t) ==
    IF t # [SmallestTemplate EXCEPT !.extensions = t.extensions] THEN {}
    ELSE {[t EXCEPT !.steps = <<s>>] : s \in TestSteps} \cup {[t EXCEPT !.steps = <<>>]} \cup
         {[t EXCEPT !.steps = <<u, s>>] :
            u \in {PlainStep, [PlainStep EXCEPT !.deps = {<<<<"b">>>>}], [PlainStep EXCEPT !.envs = {<<PlainEnv>>}]},
            s \in {PlainStep, [PlainStep EXCEPT !.name = <<"b">>],
                   [PlainStep EXCEPT !.name = <<"b">>, !.envs = {<<PlainEnv>>}],
                   [PlainStep EXCEPT !.name = <<"b">>, !.envs = {<<Wrapper("a"), Wrapper("b")>>}]}} \cup
         {[t EXCEPT !.params = p] : p \in TestDefLists} \cup
         {[t EXCEPT !.name = n] : n \in LongAndShortNames} \cup
         {[t EXCEPT !.envs = {e}] : e \in TestEnvLists} \cup
         {[t EXCEPT !.steps[1].envs = {e}] : e \in TestEnvLists} \cup
         {[t EXCEPT !.steps[1].envs = {e}, !.envs = {<<f>>}] :
            e \in {<<PlainEnv>>, <<Wrapper("b")>>}, f \in {PlainEnv, Wrapper("a")}}

-----------------------------------------------------------------------------
(* Templates that read symbols: at most one field reads, one symbol.         *)
Place ==
    {<<"name">>, <<"hostRequirements">>, <<"script", "onRun", "command">>,
     <<"script", "onRun", "timing">>, <<"script", "data">>} \cup
    ({"range"} \X RangeField) \cup ({"jobEnv", "stepEnv"} \X {"variables", "data"}) \cup
    ({"jobEnv", "stepEnv"} \X {"onEnter", "onWrapTaskRun", "onWrapEnvExit"} \X {"command", "timing"})
Symbols ==
    {Param("p"), Param("q"), RawParam("q"), <<"Task", "Param", "i">>, JobName, StepName} \cup
    {WorkingDirectory, <<"Session", "PathMappingRulesFile">>} \cup
    {FileSymbol(b) : b \in {"script", "jobEnv", "stepEnv"}} \cup
    {LetName(b) : b \in Block} \cup HookScope("onWrapTaskRun")
NoBindings == [b \in Block |-> <<>>]
Let(n, refs) == <<[name |-> n, refs |-> refs]>>
Bindings ==
    {[NoBindings EXCEPT ![b] = Let(b, r)] : b \in Block, r \in {{}} \cup {{s} : s \in Symbols}} \cup
    {[NoBindings EXCEPT !["step"] = Let("step", r), ![b] = Let(n, {LetName("step")})] :
       b \in Block \ {"step"}, n \in {"step", "script"}, r \in {{}, {RawParam("q")}}} \cup
    {[NoBindings EXCEPT ![b] = Let(b, {}) \o Let(n, {LetName(b)})] : b \in Block, n \in Block}

NoReader == [expr |-> TRUE, wrap |-> "none", bind |-> NoBindings, reads |-> <<>>, complex |-> {}, loops |-> <<>>]
Binds(t) ==
    IF t # NoReader THEN {}
    ELSE {[t EXCEPT !.wrap = w, !.expr = e, !.bind = b] :
            w \in {"none", "jobEnv", "stepEnv"}, e \in BOOLEAN, b \in Bindings \cup {NoBindings}}
Readers(t) ==
    IF t.reads # <<>> THEN {}
    ELSE {[t EXCEPT !.reads = p :> {s}] : p \in Place, s \in Symbols} \cup
         (IF t.bind # NoBindings THEN {}
          ELSE {[t EXCEPT !.reads = p :> {s}, !.complex = c, !.loops = l] :
                  p \in Place, s \in Symbols, c \in {{}, Place},
                  l \in {<<>>, [x \in {<<"script", "data">>, <<"jobEnv", "onEnter", "command">>} |->
                                  {"step", "script", "jobEnv"}]}})

-----------------------------------------------------------------------------

\* Values that a template leaves open: format strings that resolve to different
\* values in two submissions.
TextOf(len, lower) ==
    [len |-> len, lower |-> lower, name |-> [amount |-> FALSE, attr |-> FALSE], scope |-> FALSE,
     value |-> FALSE, control |-> FALSE, number |-> {}, stripped |-> lower, range |-> {}]
ValueText(len, s) == s :> [TextOf(len, s) EXCEPT !.value = TRUE]
NameText(s, lower, amount, scope) ==
    s :> [TextOf(IF scope THEN 5 ELSE 4, lower) EXCEPT
            !.name = [amount |-> amount, attr |-> ~amount], !.scope = scope]
NumberText(len, s, n, stripped) ==
    s :> [TextOf(len, s) EXCEPT !.number = {n}, !.range = {<<n>>}, !.stripped = stripped]
MCText ==
    ("" :> TextOf(0, "")) @@ ("BEL" :> [TextOf(1, "BEL") EXCEPT !.control = TRUE]) @@
    ValueText(1, "a") @@ ValueText(3, "linux") @@ ValueText(3, "windows") @@ ValueText(3, "macos") @@
    ValueText(3, "x86_64") @@ ValueText(3, "arm64") @@ ValueText(4, "long") @@ ValueText(7, "longer") @@
    ("LINUX" :> [TextOf(3, "linux") EXCEPT !.value = TRUE]) @@
    NameText("amount.a", "amount.a", TRUE, FALSE) @@ NameText("Amount.A", "amount.a", TRUE, FALSE) @@
    NameText("amount.worker.vcpu", "amount.worker.vcpu", TRUE, TRUE) @@
    NameText("amount.worker.x", "amount.worker.x", TRUE, TRUE) @@
    NameText("attr.a", "attr.a", FALSE, FALSE) @@
    NameText("attr.worker.os.family", "attr.worker.os.family", FALSE, TRUE) @@
    NameText("ATTR.worker.os.family", "attr.worker.os.family", FALSE, TRUE) @@
    NameText("attr.worker.x", "attr.worker.x", FALSE, TRUE) @@
    NumberText(1, "0", 0, "0") @@ NumberText(2, "-1", -1, "-1") @@ NumberText(1, "2", 2, "2") @@
    NumberText(2, "02", 2, "2") @@ NumberText(4, "0002", 2, "2") @@ NumberText(1, "9", 9, "9") @@
    ("1-3" :> [TextOf(3, "1-3") EXCEPT !.range = {<<1, 2, 3>>}]) @@
    ("TERMINATE" :> TextOf(3, "TERMINATE")) @@ ("NOTIFY_THEN_TERMINATE" :> TextOf(6, "NOTIFY_THEN_TERMINATE"))
MCSubmission == 1..2
MCArgLimit == {3}

\* A format string, by what it resolves to in each submission.
Fmt(kind, v, w) == [kind |-> kind, at |-> <<v, w>>]
Fixed(s) == Fmt("literal", Str(s), Str(s))
FmtOf(lits, strs, vals) ==
    {Fixed(s) : s \in lits} \cup {Fmt("multi", Str(v), Str(w)) : v, w \in strs} \cup
    {Fmt("whole", v, w) : v, w \in vals}

SomeText == {"", "BEL", "a", "long", "longer", "0", "-1", "02", "0002", "9", "TERMINATE", "1-3"}
SomeValue == {Str(s) : s \in SomeText} \cup
             {Null, List(<<>>), List(<<"a">>), List(<<"longer">>), List(<<"a", "a", "a">>), List(<<"a", "">>)}
SomeNumber == {Num(n) : n \in {-1, 0, 2, 9}} \cup {Null}
Scalars == FmtOf(SomeText, SomeText, SomeValue) \cup FmtOf({}, {}, SomeNumber)

Modes == FmtOf({}, {"a", "longer", "TERMINATE", "NOTIFY_THEN_TERMINATE"},
               {Str("TERMINATE"), Str("NOTIFY_THEN_TERMINATE"), Str("a"), Null})
Periods == {{}} \cup {{fs} : fs \in FmtOf({"0", "2", "9", "a"}, {"2", "0002", "9", "a"}, SomeNumber)}

AmountNames == {"amount.a", "Amount.A", "amount.worker.vcpu", "amount.worker.x", "a", "longer"}
AmountBounds == {{}} \cup {{fs} : fs \in FmtOf({"0", "2", "a"}, {"-1", "2", "0002"}, {Num(0), Num(2), Null})}
FewBounds == {{Fixed("2")}, {}, {Fmt("whole", Num(2), Null)}, {Fmt("multi", Str("9"), Str("9"))}}
TestAmounts ==
    {[name |-> n, min |-> mi, max |-> ma] : n \in FmtOf(AmountNames, AmountNames, {}), mi, ma \in FewBounds} \cup
    {[name |-> Fixed("amount.a"), min |-> mi, max |-> ma] : mi, ma \in AmountBounds}

AttrNames == {"attr.a", "attr.worker.os.family", "ATTR.worker.os.family", "attr.worker.x", "longer"}
AttrValues ==
    {Fixed("linux"), Fixed("a"), Fixed("LINUX"), Fixed(""), Fmt("whole", Null, Str("linux")),
     Fmt("whole", List(<<"linux", "windows">>), Str("a")), Fmt("multi", Str("long"), Str("longer")),
     Fmt("whole", List(<<"a", "long">>), List(<<"a", "long">>)), Fmt("whole", Null, Null),
     Fmt("multi", Str("longer"), Str("longer"))}
AttrLists == {{}, {<<>>}} \cup {{<<v>>} : v \in AttrValues} \cup {{<<v, w>>} : v, w \in AttrValues}
TestAttributes ==
    UNION {{[name |-> n, anyOf |-> l, allOf |-> {}], [name |-> n, anyOf |-> {}, allOf |-> l]} :
             n \in {Fixed(s) : s \in AttrNames} \cup
                   {Fmt("multi", Str(v), Str(w)) : v, w \in {"attr.a", "attr.worker.os.family", "longer"}},
             l \in AttrLists}

TestHosts ==
    {[amounts |-> <<a>>, attributes |-> <<>>] : a \in TestAmounts} \cup
    {[amounts |-> <<>>, attributes |-> <<a>>] : a \in TestAttributes} \cup
    {[amounts |-> <<[name |-> m, min |-> {Fixed("2")}, max |-> {}],
                    [name |-> n, min |-> {Fixed("2")}, max |-> {}]>>, attributes |-> <<>>] :
       m, n \in FmtOf({"amount.a", "Amount.A"}, {"amount.a", "Amount.A", "amount.worker.vcpu"}, {})} \cup
    {[amounts |-> <<>>, attributes |-> <<[name |-> m, anyOf |-> {<<Fixed("a")>>}, allOf |-> {}],
                                         [name |-> n, anyOf |-> {<<Fixed("a")>>}, allOf |-> {}]>>] :
       m, n \in FmtOf({"attr.a"}, {"attr.a", "attr.worker.x"}, {})}

-----------------------------------------------------------------------------
RangeOf(type, form, items, expr, chunks) ==
    [type |-> type, form |-> form, items |-> items, expr |-> expr, chunks |-> chunks]
TextItems == FmtOf({"", "a", "longer"}, {"a", "longer"},
                   {Null, Str("a"), Str(""), List(<<>>), List(<<"a", "a">>), List(<<"longer">>)})
FloatItems == {[float |-> 2]} \cup FmtOf({"02", "a"}, {"02", "a"}, {Num(2), Str("9")})
IntExprs == FmtOf({"1-3", "a"}, {"1-3", "2", "a"},
                  {[range |-> <<1, 2, 3, 4, 5>>], [ints |-> <<>>], [ints |-> <<1, 9>>],
                   [ints |-> <<1, 2, 3, 4, 5>>], Null, Str("1-3"), Num(2)})
Counts(nullable) == {[int |-> n] : n \in {-1, 0, 2}} \cup
                    FmtOf({}, {"0", "2", "0002", "a"}, {Num(n) : n \in {-1, 0, 2}} \cup (IF nullable THEN {Null} ELSE {}))
TwoEach == {[default |-> [int |-> 2], target |-> {}]}
TestRanges ==
    {RangeOf(ty, "list", s, Fixed("a"), {}) : ty \in {"STRING", "PATH"}, s \in SeqOf(TextItems, 2)} \cup
    {RangeOf(ty, "expr", <<>>, e, {}) : ty \in {"STRING", "PATH"}, e \in TextItems} \cup
    {RangeOf(ty, "expr", <<>>, e, {}) : ty \in {"INT", "FLOAT"}, e \in IntExprs} \cup
    {RangeOf("CHUNK[INT]", "expr", <<>>, e, TwoEach) : e \in IntExprs} \cup
    {RangeOf("FLOAT", "list", s, Fixed("a"), {}) : s \in SeqOf(FloatItems, 2)} \cup
    {RangeOf("INT", "list", s, Fixed("a"), {}) : s \in SeqOf({1, 9}, 4)} \cup
    {RangeOf("CHUNK[INT]", "list", s, Fixed("a"), TwoEach) : s \in SeqOf({1, 9}, 4)} \cup
    {RangeOf("CHUNK[INT]", "list", <<1>>, Fixed("a"), {[default |-> d, target |-> t]}) :
       d \in Counts(FALSE), t \in {{}} \cup {{f} : f \in Counts(TRUE)}}

-----------------------------------------------------------------------------
VARIABLES topic, subject
templateVars == <<topic, subject>>

TemplateInit ==
    \/ topic = "parameters" /\ subject \in Submission0
    \/ topic = "path" /\ subject = <<>>
    \/ topic = "mapping" /\ \E r \in RuleSets : subject = [path |-> <<>>] @@ r
    \/ topic = "structure" /\ \E e \in TestExtensions : subject = [SmallestTemplate EXCEPT !.extensions = e]
    \/ topic = "symbols" /\ subject = NoReader
    \/ topic \in {"scalar", "cancelation", "host", "range"} /\ subject = {}

TemplateNext ==
    /\ UNCHANGED topic
    /\ CASE topic = "parameters" -> subject' \in Define(subject) \cup Submit(subject)
                                      \cup (IF subject.templates = <<>> /\ subject.at = Plainly
                                            THEN WithUi(subject) ELSE {})
         [] topic = "path" -> subject' \in Grown(subject, 5)
         [] topic = "mapping" -> \E p \in Grown(subject.path, 4) : subject' = [subject EXCEPT !.path = p]
         [] topic = "structure" -> subject' \in Edits(subject)
         [] topic = "symbols" -> subject' \in Binds(subject) \cup Readers(subject)
         [] topic = "scalar" -> subject = {} /\ \E fs \in Scalars : subject' = {fs}
         [] topic = "cancelation" ->
              subject = {} /\ \E m \in Modes, p \in Periods : subject' = {[mode |-> m, period |-> p]}
         [] topic = "host" -> subject = {} /\ \E h \in TestHosts : subject' = {h}
         [] OTHER -> subject = {} /\ \E r \in TestRanges : subject' = {r}

TemplateSpec == TemplateInit /\ [][TemplateNext]_templateVars

-----------------------------------------------------------------------------
\* Preprocessing gives every parameter a value each of its definitions accepts,
\* refuses nothing suitable, and is a fixed point; a definition's own default is
\* admissible and its control fits (create_job/parameters.rs, template/parameters.rs).
ParametersAreSound ==
    [][topic = "parameters" /\ subject'.templates # <<>> =>
        /\ \A i \in DOMAIN subject'.templates :
             /\ DefaultsAreAdmissible(subject'.templates[i]["P"])
             /\ ControlsFit(subject'.templates[i]["P"])
        /\ \A i \in DOMAIN subject'.templates : subject'.templates[i]["P"].ui = {} =>
             ParametersSound(Sub(subject')) /\ NothingSuitableIsRefused(Sub(subject'))]_templateVars

PathLawful(t, s) ==
    /\ t = "path" => \A f \in Formats :
         /\ PathLaws(s, f)
         /\ \A i \in 0..Len(s) : JoinLaws(SubSeq(s, 1, i), SubSeq(s, i + 1, Len(s)), f)
    /\ t = "mapping" => \A f \in Formats : MappedByTheDeepestRule(s.given, s.added, s.path, f)

\* The pathlib laws that tie name, stem, suffix, parent, parts and join together,
\* in both formats and for URIs (functions/path.rs, path_parse.rs, uri_path.rs),
\* and a path is mapped by the deepest rule that covers it (path_mapping.rs): of
\* the empty path, and of every path grown from it.
PathsAreLawful ==
    PathLawful(topic, subject) /\ [][PathLawful(topic', subject')]_templateVars

\* Errors name fields as written, a simple action is its expansion, extensions
\* only admit, and environments validate alike wherever they are written
\* (template/step.rs, parse.rs, validate_v2023_09).
TemplatesAreReadAsWritten ==
    topic = "structure" =>
        /\ ErrorsNameWhatIsWritten(subject, ModelExtension)
        /\ SimpleActionsAreTheirExpansion(subject, ModelExtension)
        /\ ExtensionsOnlyAdmit(subject)
        /\ EnvironmentsTravel(subject, ModelExtension)

\* What validation lets a field read, job creation resolves and the worker binds,
\* but for the four gaps SymbolScopes names: ranges nobody looks at before job
\* creation, and three between creation and the worker (format_strings.rs:1967,
\* ranges.rs, instantiate.rs, session.rs).
SymbolsAreBound ==
    topic = "symbols" => CreationAgreesWithValidation(subject) /\ WorkerBindsWhatItReads(subject)

\* A value a template leaves open is judged alike by validation, by job creation
\* and on the worker, but for the two exceptions ResolvedValues names (format_strings.rs, instantiate.rs, ranges.rs, runner/mod.rs).
StagesAgree ==
    /\ topic = "scalar" => \A fs \in subject : ScalarStagesAgree(fs)
    /\ topic = "cancelation" => \A c \in subject : CancelationStagesAgree(c.mode, c.period)
    /\ topic = "host" => \A h \in subject : HostStagesAgree(h)
    /\ topic = "range" => \A r \in subject : RangeStagesAgree(r)

\* The table sent to the worker holds all that the fields left to it read.
TableSentIsEnough == topic = "symbols" => SentTablesSuffice(subject)
=============================================================================
