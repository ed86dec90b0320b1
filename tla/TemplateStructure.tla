-------------------------- MODULE TemplateStructure --------------------------
(***************************************************************************)
(* The validation of a decoded template, passes 4 to 7 and 10 (parse.rs,   *)
(* limits.rs, structure.rs, feature_bundle_1.rs, wrap_actions.rs), with    *)
(* the SimpleAction sugar (step.rs) and the diagnostics it produces.       *)
(*                                                                         *)
(* A validator returns the set of the paths it reports errors at; a        *)
(* template is accepted when the set is empty.  Text is a sequence of      *)
(* characters, with "{{}}" for an interpolated expression, "{{f}}" for one *)
(* that reads Task.File.f, and NL, NUL and BEL for control characters.     *)
(* Optional fields are {} or {value}.  Ranges of task parameters and host  *)
(* requirements are in ResolvedValues, dependency cycles in TopoSort; here *)
(* a parameter space is a list of typed names.                             *)
(***************************************************************************)
EXTENDS Integers, Sequences, FiniteSets, SequencesExt

CONSTANTS
    BaseLimit, RaisedLimit,   \* EffectiveLimits without and with FEATURE_BUNDLE_1
    MaxSteps, MaxEnvs,        \* caller limits, {} or {n}
    SafeLen                   \* characters of a step name that desugar keeps

ASSUME LimitsAreRaised ==
    /\ DOMAIN BaseLimit = DOMAIN RaisedLimit
    /\ \A l \in DOMAIN BaseLimit : BaseLimit[l] <= RaisedLimit[l]

ModelExtension == {"EXPR", "FEATURE_BUNDLE_1", "TASK_CHUNKING", "WRAP_ACTIONS"}
Control == {"NL", "NUL", "BEL"}
Expression == {"{{}}", "{{f}}"}
Letter == {"a", "b", "f", "_", "_script"}
Digit == {"1"}
SimpleActionKind == <<"python", "bash", "cmd", "powershell", "node">>
WrapHooks == {"onWrapEnvEnter", "onWrapTaskRun", "onWrapEnvExit"}

HasAny(s, set) == \E i \in DOMAIN s : s[i] \in set

\* An error at path when cond holds.
Error(path, cond) == IF cond THEN {path} ELSE {}
\* The errors of the items of a list, each under its index.
Each(list, Check(_, _), path) ==
    UNION {Check(list[i], Append(path, i)) : i \in DOMAIN list}
\* The errors of an optional field.
OverOption(opt, Check(_)) == UNION {Check(x) : x \in opt}
Repeats(list, i, Key(_)) == \E j \in 1..(i - 1) : Key(list[j]) = Key(list[i])

-----------------------------------------------------------------------------
(* What a revision and its extensions allow.                               *)
EffectiveLimits(ext) == IF "FEATURE_BUNDLE_1" \in ext THEN RaisedLimit ELSE BaseLimit

EffectiveRules(ext) ==
    [jobTypes |-> {"STRING", "INT"} \cup (IF "EXPR" \in ext THEN {"BOOL"} ELSE {}),
     taskTypes |-> {"INT"} \cup (IF "TASK_CHUNKING" \in ext THEN {"CHUNK[INT]"} ELSE {}),
     fmtInNumbers |-> "FEATURE_BUNDLE_1" \in ext]

\* validate_extensions_list: the extensions in force, and the errors.
ValidateExtensionsList(listed, supported) ==
    LET names == UNION {ToSet(l) : l \in listed}
        good == names \cap ModelExtension \cap supported
    IN  [ext |-> good,
         errors |-> Error(<<"extensions">>,
                          \E l \in listed : \/ l = <<>>
                                            \/ Cardinality(ToSet(l)) < Len(l)
                                            \/ names # good)]

\* A written type name that is not in the specification's case.
CheckTypeNameCanonicalCase(defs, path, ext) ==
    IF "EXPR" \in ext THEN {}
    ELSE OverOption(defs, LAMBDA l : Each(l, LAMBDA d, p : Error(p, ~d.canonical), path))

-----------------------------------------------------------------------------
(* Actions, embedded files and scripts.                                    *)

\* A number field: an integer, a format string, or text that is not a number.
NumberErrors(field, rules, path, max) ==
    CASE "int" \in DOMAIN field -> Error(path, field.int <= 0 \/ \E m \in max : field.int > m)
      [] "expr" \in DOMAIN field -> Error(path, ~rules.fmtInNumbers)
      [] OTHER -> {path}

ValidateAction(action, path, limits, rules) ==
    LET command == Append(path, "command")
        args == Append(path, "args")
    IN  Error(command, action.command = <<>> \/ Len(action.command) > limits.command
                           \/ HasAny(action.command, Control))
        \cup OverOption(action.args, LAMBDA l :
                 Error(args, l = <<>>)
                 \cup Each(l, LAMBDA a, p : Error(p, HasAny(a, Control \ {"NL"})), args))
        \cup OverOption(action.cancelation, LAMBDA c :
                 Error(path, c.mode = "deferred" /\ ~rules.fmtInNumbers)
                 \cup OverOption(c.period, LAMBDA n : NumberErrors(n, rules, path, {limits.notify})))
        \cup OverOption(action.timeout, LAMBDA n : NumberErrors(n, rules, path, {}))

IsIdentifier(s) == s # <<>> /\ s[1] \in Letter /\ \A i \in DOMAIN s : s[i] \in Letter \cup Digit

ValidateEmbeddedFile(files, i, path) ==
    LET f == files[i] IN
    Error(path, Repeats(files, i, LAMBDA g : g.name) \/ f.data = {})
        \cup Error(Append(path, "name"), ~IsIdentifier(f.name))
        \cup Error(Append(path, "data"), <<>> \in f.data)
        \cup Error(Append(path, "filename"),
                   \E n \in f.filename : \/ n \in {<<>>, <<".">>, <<".", ".">>}
                                         \/ HasAny(n, {"/", "NUL"}))

ValidateEmbeddedFiles(opt, path) ==
    OverOption(opt, LAMBDA files :
        Error(path, files = <<>>)
        \cup UNION {ValidateEmbeddedFile(files, i, Append(path, i)) : i \in DOMAIN files})

ValidateStepScript(script, path, limits, rules) ==
    LET run == script.onRun
        names == UNION {{l[i].name : i \in DOMAIN l} : l \in script.files}
        texts == {run.command} \cup UNION {ToSet(l) : l \in run.args}
    IN  ValidateAction(run, path \o <<"actions", "onRun">>, limits, rules)
        \cup Error(path, <<"f">> \notin names /\ \E s \in texts : HasAny(s, {"{{f}}"}))
        \cup ValidateEmbeddedFiles(script.files, Append(path, "embeddedFiles"))

-----------------------------------------------------------------------------
(* SimpleAction.                                                           *)
FileExtension(kind) == [k \in ToSet(SimpleActionKind) |-> <<".", "a">>][kind]
ArgPrefix(kind) == IF kind \in {"cmd", "powershell"} THEN <<<<"_">>>> ELSE <<>>
SyntheticArgCount(kind) == Len(ArgPrefix(kind)) + 1

\* Mutation: a name that starts with a digit stays as it is.
SafeNameDigits(name) ==
    LET kept == SubSeq(name, 1, IF Len(name) > SafeLen THEN SafeLen ELSE Len(name))
    IN  [i \in DOMAIN kept |-> IF kept[i] \in Letter \cup Digit THEN kept[i] ELSE "_"]

\* The step's name as an identifier.
SafeName(name) ==
    LET kept == SubSeq(name, 1, IF Len(name) > SafeLen THEN SafeLen ELSE Len(name))
        safe == [i \in DOMAIN kept |-> IF kept[i] \in Letter \cup Digit THEN kept[i] ELSE "_"]
    IN  IF safe # <<>> /\ safe[1] \in Digit THEN <<"_">> \o safe ELSE safe

\* The generated reference is {{Task.File.<name>}}, which the generated file
\* resolves; here it is an expression that reads nothing else.
Desugar(kind, name, sa) ==
    LET fileName == SafeName(name) \o <<"_script">>
        file == [name |-> fileName, filename |-> {fileName \o FileExtension(kind)},
                 data |-> {sa.script}, eol |-> FALSE]
        own == IF sa.args = {} THEN <<>> ELSE CHOOSE l \in sa.args : TRUE
    IN  [onRun |-> [command |-> <<"a">>, timeout |-> sa.timeout, cancelation |-> sa.cancelation,
                    args |-> {ArgPrefix(kind) \o <<<<"{{}}">>>> \o own}],
         files |-> {<<file>>}]

\* An error path of the desugared script, moved to what the author wrote.
RemapDesugaredPath(kind, rel) ==
    LET onRun == Len(rel) > 2 /\ SubSeq(rel, 1, 2) = <<"actions", "onRun">>
        rest == SubSeq(rel, 3, Len(rel))
        n == SyntheticArgCount(kind)
    IN  CASE onRun /\ rest = <<"args">> -> rest
          [] onRun /\ Len(rest) > 1 /\ rest[1] = "args" ->
                IF rest[2] <= n THEN <<>> ELSE <<"args", rest[2] - n>> \o SubSeq(rest, 3, Len(rest))
          [] onRun /\ rest[1] \in {"timeout", "cancelation"} -> rest
          [] rel = <<"embeddedFiles", 1, "data">> -> <<"script">>
          [] OTHER -> <<>>

SimpleActions(step) == SelectSeq(SimpleActionKind, LAMBDA k : k \in DOMAIN step.sugar)

ResolveSyntaxSugar(step) ==
    IF step.script # {} \/ SimpleActions(step) = <<>> THEN step.script
    ELSE LET first == Head(SimpleActions(step))
         IN  {Desugar(first, step.name, step.sugar[first])}

-----------------------------------------------------------------------------
(* Environments.                                                           *)
ValidateEnvVarName(name, path) ==
    Error(path, \/ name = <<>> \/ HasAny(name, Control \cup Expression)
                \/ (name # <<>> /\ name[1] \in Digit))

HasAnyWrapHook(env) == \E s \in env.script : DOMAIN s.actions \cap WrapHooks # {}

ValidateSingleEnvironment(env, path, limits, rules) ==
    Error(path, env.script = {} /\ env.variables = {})
    \cup Error(Append(path, "name"), \/ env.name = <<>> \/ Len(env.name) > limits.envName
                                     \/ HasAny(env.name, Control))
    \cup OverOption(env.variables, LAMBDA vars :
             Error(Append(path, "variables"), vars = <<>>)
             \cup UNION {LET p == path \o <<"variables", i>> IN
                         ValidateEnvVarName(vars[i].name, p)
                         \cup Error(p, HasAny(vars[i].value, {"NUL"})
                                          \/ Len(vars[i].value) > limits.varValue)
                         : i \in DOMAIN vars})
    \cup OverOption(env.script, LAMBDA s :
             Error(path \o <<"script", "actions">>, DOMAIN s.actions = {})
             \cup UNION {ValidateAction(s.actions[h], path \o <<"script", "actions", h>>, limits, rules)
                         : h \in DOMAIN s.actions}
             \cup ValidateEmbeddedFiles(s.files, path \o <<"script", "embeddedFiles">>))

\* Pass 5 for a script's files and for an environment.
FileLimits(opt, path, limits) ==
    OverOption(opt, LAMBDA files : Each(files, LAMBDA f, p :
        Error(Append(p, "name"), Len(f.name) > limits.identifier)
        \cup Error(Append(p, "filename"), \E n \in f.filename : Len(n) > limits.filename),
        path))

EnforceEnvironmentLimits(env, path, limits) ==
    Error(Append(path, "name"), Len(env.name) > limits.envName)
    \cup OverOption(env.script, LAMBDA s : FileLimits(s.files, path \o <<"script", "embeddedFiles">>, limits))

\* Pass 7 for a script's files and for an environment.
FileEndOfLine(opt, path, active) ==
    OverOption(opt, LAMBDA files : Each(files, LAMBDA f, p :
        Error(Append(p, "endOfLine"), f.eol /\ ~active), path))

CheckSingleEnvEmbeddedEol(env, path, active) ==
    OverOption(env.script, LAMBDA s : FileEndOfLine(s.files, path \o <<"script", "embeddedFiles">>, active))

CheckEnvEmbeddedEol(envs, path, active) ==
    OverOption(envs, LAMBDA l : Each(l, LAMBDA e, p : CheckSingleEnvEmbeddedEol(e, p, active), path))

\* Pass 10.
CheckEnvironmentActions(env, path, active) ==
    OverOption(env.script, LAMBDA s :
        LET hooks == DOMAIN s.actions \cap WrapHooks
            actions == path \o <<"script", "actions">>
        IN  IF active THEN Error(actions, hooks \notin {{}, WrapHooks})
            ELSE {Append(actions, h) : h \in hooks})

CheckExprPrerequisite(ext) ==
    Error(<<"extensions">>, "WRAP_ACTIONS" \in ext /\ "EXPR" \notin ext)

Wraps(envs) == Cardinality(UNION {{i \in DOMAIN l : HasAnyWrapHook(l[i])} : l \in envs})

-----------------------------------------------------------------------------
(* The passes over a job template.                                         *)
EnforceLimits(t, limits) ==
    Error(<<"name">>, Len(t.name) > limits.jobName)
    \cup OverOption(t.params, LAMBDA l :
             Error(<<"parameterDefinitions">>, Len(l) > limits.params)
             \cup Each(l, LAMBDA d, p : Error(p, Len(d.name) > limits.identifier),
                       <<"parameterDefinitions">>))
    \cup Each(t.steps, LAMBDA step, path :
             Error(Append(path, "name"), Len(step.name) > limits.stepName)
             \cup OverOption(step.envs, LAMBDA l :
                      Each(l, LAMBDA e, p : EnforceEnvironmentLimits(e, p, limits),
                           Append(path, "stepEnvironments")))
             \cup OverOption(step.script, LAMBDA s :
                      FileLimits(s.files, path \o <<"script", "embeddedFiles">>, limits))
             \cup OverOption(step.space, LAMBDA l :
                      Each(l, LAMBDA d, p : Error(p, Len(d.name) > limits.identifier),
                           path \o <<"parameterSpace", "taskParameterDefinitions">>)),
             <<"steps">>)
    \cup OverOption(t.envs, LAMBDA l :
             Each(l, LAMBDA e, p : EnforceEnvironmentLimits(e, p, limits), <<"jobEnvironments">>))

\* The names of environments: unique in the job, unique in a step, and a
\* step's never one of the job's.
EnvironmentNames(envs, taken, path) ==
    OverOption(envs, LAMBDA l :
        Error(path, l = <<>>)
        \cup {Append(path, i) : i \in {i \in DOMAIN l :
                  l[i].name \in taken \/ Repeats(l, i, LAMBDA e : e.name)}})

ValidateParameterDefinitions(t, rules) ==
    OverOption(t.params, LAMBDA l :
        Error(<<"parameterDefinitions">>, l = <<>>)
        \cup {<<"parameterDefinitions", i>> : i \in {i \in DOMAIN l :
                  \/ Repeats(l, i, LAMBDA d : d.name)
                  \/ l[i].type \notin rules.jobTypes
                  \/ ~l[i].valid}})

ValidateDependencies(t, i, path) ==
    OverOption(t.steps[i].deps, LAMBDA l :
        Error(path, l = <<>>)
        \cup {Append(path, j) : j \in {j \in DOMAIN l :
                  \/ l[j] = t.steps[i].name
                  \/ \A k \in DOMAIN t.steps : t.steps[k].name # l[j]
                  \/ Repeats(l, j, LAMBDA d : d)}})

ValidateStepParamSpace(space, path, limits, rules) ==
    OverOption(space, LAMBDA l :
        LET p == Append(path, "taskParameterDefinitions") IN
        Error(p, l = <<>> \/ Len(l) > limits.taskParams)
        \cup {Append(p, i) : i \in {i \in DOMAIN l :
                  Repeats(l, i, LAMBDA d : d.name) \/ l[i].type \notin rules.taskTypes}})

\* A simple action is checked as the script it stands for.
ValidateSimpleAction(kind, step, path, limits, rules) ==
    LET sa == step.sugar[kind] IN
    Error(Append(path, "args"), <<>> \in sa.args)
    \cup {path \o RemapDesugaredPath(kind, rel) :
          rel \in ValidateStepScript(Desugar(kind, step.name, sa), <<>>, limits, rules)}

ValidateStep(t, i, limits, rules, fb1) ==
    LET step == t.steps[i]
        path == <<"steps", i>>
    IN  Error(Append(path, "name"), \/ Repeats(t.steps, i, LAMBDA s : s.name)
                                    \/ step.name = <<>>
                                    \/ HasAny(step.name, Control \cup Expression))
        \cup Error(path, step.script = {} /\ DOMAIN step.sugar = {})
        \cup ValidateDependencies(t, i, Append(path, "dependencies"))
        \cup ValidateStepParamSpace(step.space, Append(path, "parameterSpace"), limits, rules)
        \cup OverOption(step.script, LAMBDA s :
                 ValidateStepScript(s, Append(path, "script"), limits, rules))
        \cup (IF fb1 /\ step.script = {}
              THEN UNION {ValidateSimpleAction(k, step, Append(path, k), limits, rules)
                          : k \in ToSet(SimpleActions(step))}
              ELSE {})

EnvCount(t) ==
    LET count(opt) == IF opt = {} THEN 0 ELSE Len(CHOOSE l \in opt : TRUE)
    IN  count(t.envs) + FoldSeq(LAMBDA s, n : n + count(s.envs), 0, t.steps)

ValidateStructure(t, ext, limits, rules) ==
    LET jobEnvNames == UNION {{l[i].name : i \in DOMAIN l} : l \in t.envs} IN
    Error(<<>>, t.steps = <<>> \/ \E n \in MaxEnvs : EnvCount(t) > n)
    \cup Error(<<"steps">>, \E n \in MaxSteps : Len(t.steps) > n)
    \cup Error(<<"name">>, t.name = <<>> \/ HasAny(t.name, Control))
    \cup ValidateParameterDefinitions(t, rules)
    \cup EnvironmentNames(t.envs, {}, <<"jobEnvironments">>)
    \cup UNION {EnvironmentNames(t.steps[i].envs, jobEnvNames, <<"steps", i, "stepEnvironments">>)
                : i \in DOMAIN t.steps}
    \cup UNION {ValidateStep(t, i, limits, rules, "FEATURE_BUNDLE_1" \in ext) : i \in DOMAIN t.steps}
    \cup OverOption(t.envs, LAMBDA l :
             Each(l, LAMBDA e, p : ValidateSingleEnvironment(e, p, limits, rules), <<"jobEnvironments">>))
    \cup UNION {OverOption(t.steps[i].envs, LAMBDA l :
                    Each(l, LAMBDA e, p : ValidateSingleEnvironment(e, p, limits, rules),
                         <<"steps", i, "stepEnvironments">>)) : i \in DOMAIN t.steps}

ValidateFeatureBundle1(t, active) ==
    Each(t.steps, LAMBDA step, path :
        Error(path, Cardinality(DOMAIN step.sugar) > 1)
        \cup {Append(path, k) : k \in {k \in DOMAIN step.sugar : ~active \/ step.script # {}}}
        \cup OverOption(step.script, LAMBDA s :
                 FileEndOfLine(s.files, path \o <<"script", "embeddedFiles">>, active))
        \cup CheckEnvEmbeddedEol(step.envs, Append(path, "stepEnvironments"), active), <<"steps">>)
    \cup CheckEnvEmbeddedEol(t.envs, <<"jobEnvironments">>, active)

ValidateWrapActionsJobTemplate(t, ext) ==
    LET active == "WRAP_ACTIONS" \in ext
        check(envs, path) ==
            OverOption(envs, LAMBDA l : Each(l, LAMBDA e, p : CheckEnvironmentActions(e, p, active), path))
    IN  CheckExprPrerequisite(ext)
        \cup check(t.envs, <<"jobEnvironments">>)
        \cup Error(<<"jobEnvironments">>, active /\ Wraps(t.envs) > 1)
        \cup UNION {LET path == <<"steps", i, "stepEnvironments">>
                        envs == t.steps[i].envs
                    IN  check(envs, path)
                        \cup Error(path, active /\ envs # {} /\ Wraps(t.envs) + Wraps(envs) > 1)
                    : i \in DOMAIN t.steps}

ValidateJobTemplate(t, ext) ==
    LET limits == EffectiveLimits(ext)
        rules == EffectiveRules(ext)
    IN  EnforceLimits(t, limits)
        \cup ValidateStructure(t, ext, limits, rules)
        \cup ValidateFeatureBundle1(t, "FEATURE_BUNDLE_1" \in ext)
        \cup ValidateWrapActionsJobTemplate(t, ext)

\* Passes 1 to 4 come first and stop the decoding when they report anything.
DecodeJobTemplate(t, supported) ==
    LET listed == ValidateExtensionsList(t.extensions, supported)
        early == listed.errors
                 \cup CheckTypeNameCanonicalCase(t.params, <<"parameterDefinitions">>, listed.ext)
                 \cup UNION {CheckTypeNameCanonicalCase(t.steps[i].space,
                                 <<"steps", i, "parameterSpace", "taskParameterDefinitions">>, listed.ext)
                             : i \in DOMAIN t.steps}
    IN  IF early # {} THEN early ELSE ValidateJobTemplate(t, listed.ext)

-----------------------------------------------------------------------------
(* The passes over an environment template: no pass 5, and the parameter   *)
(* definitions are only counted.                                           *)
ValidateEnvironmentTemplate(et, ext) ==
    LET limits == EffectiveLimits(ext)
        path == <<"environment">>
    IN  OverOption(et.params, LAMBDA l :
            Error(<<>>, \/ l = <<>> \/ Len(l) > limits.envParams
                        \/ \E i \in DOMAIN l : Repeats(l, i, LAMBDA d : d.name)))
        \cup ValidateSingleEnvironment(et.environment, path, limits, EffectiveRules(ext))
        \cup CheckSingleEnvEmbeddedEol(et.environment, path, "FEATURE_BUNDLE_1" \in ext)
        \cup CheckExprPrerequisite(ext)
        \cup CheckEnvironmentActions(et.environment, path, "WRAP_ACTIONS" \in ext)

DecodeEnvironmentTemplate(et, supported) ==
    LET listed == ValidateExtensionsList(et.extensions, supported)
        early == listed.errors
                 \cup CheckTypeNameCanonicalCase(et.params, <<"parameterDefinitions">>, listed.ext)
    IN  IF early # {} THEN early ELSE ValidateEnvironmentTemplate(et, listed.ext)

-----------------------------------------------------------------------------
(* The nodes of a template, as the author wrote it.                        *)
WrittenFiles(opt, path) ==
    OverOption(opt, LAMBDA l : {path} \cup Each(l, LAMBDA f, p :
        {p, Append(p, "name")} \cup {Append(p, "data") : d \in f.data}
        \cup {Append(p, "filename") : n \in f.filename}
        \cup (IF f.eol THEN {Append(p, "endOfLine")} ELSE {}), path))

WrittenArgs(opt, path) == OverOption(opt, LAMBDA l : {path} \cup {Append(path, i) : i \in DOMAIN l})

WrittenAction(a, path) == {path, Append(path, "command")} \cup WrittenArgs(a.args, Append(path, "args"))

WrittenEnvironments(envs, path) ==
    OverOption(envs, LAMBDA l : {path} \cup Each(l, LAMBDA e, p :
        {p, Append(p, "name")}
        \cup OverOption(e.variables, LAMBDA v :
                 {Append(p, "variables")} \cup {p \o <<"variables", i>> : i \in DOMAIN v})
        \cup OverOption(e.script, LAMBDA s :
                 {p \o <<"script", "actions">>}
                 \cup UNION {WrittenAction(s.actions[h], p \o <<"script", "actions", h>>)
                             : h \in DOMAIN s.actions}
                 \cup WrittenFiles(s.files, p \o <<"script", "embeddedFiles">>)), path))

WrittenList(opt, path) == OverOption(opt, LAMBDA l : {path} \cup {Append(path, i) : i \in DOMAIN l})

WrittenStep(step, path) ==
    {path, Append(path, "name")}
    \cup WrittenList(step.deps, Append(path, "dependencies"))
    \cup WrittenList(step.space, path \o <<"parameterSpace", "taskParameterDefinitions">>)
    \cup WrittenEnvironments(step.envs, Append(path, "stepEnvironments"))
    \cup OverOption(step.script, LAMBDA s :
             {Append(path, "script")}
             \cup WrittenAction(s.onRun, path \o <<"script", "actions", "onRun">>)
             \cup WrittenFiles(s.files, path \o <<"script", "embeddedFiles">>))
    \cup UNION {{Append(path, k), path \o <<k, "script">>}
                \cup WrittenArgs(step.sugar[k].args, path \o <<k, "args">>) : k \in DOMAIN step.sugar}

Written(t) ==
    {<<>>, <<"name">>, <<"steps">>}
    \cup {<<"extensions">> : l \in t.extensions}
    \cup WrittenList(t.params, <<"parameterDefinitions">>)
    \cup WrittenEnvironments(t.envs, <<"jobEnvironments">>)
    \cup Each(t.steps, WrittenStep, <<"steps">>)

-----------------------------------------------------------------------------
(* Properties.                                                             *)

\* Every diagnostic is at a node that exists in the template the author wrote:
\* none points into the script that a simple action is desugared to.
ErrorsNameWhatIsWritten(t, supported) == DecodeJobTemplate(t, supported) \subseteq Written(t)

\* The template with its simple actions written out.
Expanded(t) ==
    [t EXCEPT !.steps = [i \in DOMAIN t.steps |->
        [t.steps[i] EXCEPT !.script = ResolveSyntaxSugar(t.steps[i]), !.sugar = <<>>]]]

\* A template with a simple action is accepted exactly when the author may write
\* the generated script out: the generated file's name, filename and reference
\* never fail a check, whatever the step is called, so only what the author
\* wrote can be wrong.
SimpleActionsAreTheirExpansion(t, supported) ==
    (/\ ValidateExtensionsList(t.extensions, supported).errors = {}
     /\ "FEATURE_BUNDLE_1" \in ValidateExtensionsList(t.extensions, supported).ext
     /\ \A i \in DOMAIN t.steps :
            /\ Cardinality(DOMAIN t.steps[i].sugar) + Cardinality(t.steps[i].script) < 2
            /\ \A k \in DOMAIN t.steps[i].sugar : <<>> \notin t.steps[i].sugar[k].args)
    => /\ (DecodeJobTemplate(t, supported) = {}) <=> (DecodeJobTemplate(Expanded(t), supported) = {})
       /\ \A i \in DOMAIN t.steps : \A k \in DOMAIN t.steps[i].sugar :
              LET sa == t.steps[i].sugar[k] IN
              ValidateStepScript(Desugar(k, t.steps[i].name, sa), <<>>,
                                 EffectiveLimits({"FEATURE_BUNDLE_1"}), EffectiveRules({"FEATURE_BUNDLE_1"}))
                  \subseteq {<<>>, <<"actions", "onRun">>, <<"embeddedFiles", 1, "data">>}
                            \cup {<<"actions", "onRun", "args", j>> :
                                  j \in (SyntheticArgCount(k) + 1)..(SyntheticArgCount(k) + Cardinality(UNION {DOMAIN l : l \in sa.args}))}

\* A further extension never makes a template unacceptable that the passes of
\* this module (4 to 7 and 10) accept.
ExtensionsOnlyAdmit(t) ==
    LET accepting == {ext \in SUBSET ModelExtension : ValidateJobTemplate(t, ext) = {}}
    IN  \A ext \in accepting : \A more \in SUBSET ModelExtension :
            ext \subseteq more /\ CheckExprPrerequisite(more) = {} => more \in accepting

\* An environment that a job template may hold may stand in a template of its
\* own, with the same extensions; and at most one environment of a session of an
\* accepted template wraps actions.
EnvironmentsTravel(t, supported) ==
    DecodeJobTemplate(t, supported) = {} =>
        LET all == t.envs \cup UNION {t.steps[i].envs : i \in DOMAIN t.steps} IN
        /\ \A l \in all : \A i \in DOMAIN l :
               DecodeEnvironmentTemplate([extensions |-> t.extensions, params |-> {}, environment |-> l[i]],
                                         supported) = {}
        /\ \A i \in DOMAIN t.steps : Wraps(t.envs) + Wraps(t.steps[i].envs) <= 1
=============================================================================
