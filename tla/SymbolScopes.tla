---------------------------- MODULE SymbolScopes ----------------------------
(***************************************************************************)
(* Where the names in a job template's format strings come from.  Template *)
(* validation (format_strings.rs) decides which symbols each field may     *)
(* read; job creation (instantiate.rs) checks the same fields again, keeps *)
(* only the symbols the worker still needs and sends them along; the       *)
(* session (session.rs and the script runners) puts a symbol table         *)
(* together around what it was sent and resolves the fields.  The three    *)
(* crates have to agree field by field.                                    *)
(*                                                                         *)
(* A template here has one step, one job environment and one step          *)
(* environment.  A field is a place and the set of symbols it reads, a     *)
(* symbol is its dotted name as a tuple, a symbol table the set of the     *)
(* symbols it binds.  Values and types are left out.                       *)
(***************************************************************************)
EXTENDS Naturals, Sequences, FiniteSets

CONSTANTS PlainParam,   \* job parameters that are not PATH or LIST[PATH]
          PathParam,    \* the others
          TaskParam     \* the step's task parameters

Block == {"step", "script", "jobEnv", "stepEnv"}    \* what may have a "let"
WrapHook == {"onWrapEnvEnter", "onWrapTaskRun", "onWrapEnvExit"}


\* The fields of a task parameter that hold format strings: the expression of an
\* INT or CHUNK[INT] range, the fields of "chunks", the items of a STRING or
\* PATH range, the expression of one, a FLOAT range of either form.
RangeField == {"intExpression", "chunks", "textItems", "textExpression", "float"}

Param(p) == <<"Param", p>>
RawParam(p) == <<"RawParam", p>>
JobName == <<"Job", "Name">>
StepName == <<"Step", "Name">>
WorkingDirectory == <<"Session", "WorkingDirectory">>
MappingSymbols == {<<"Session", "HasPathMappingRules">>, <<"Session", "PathMappingRulesFile">>}
SessionSymbols == {WorkingDirectory} \cup MappingSymbols
TaskSymbols == {<<"Task", k, p>> : k \in {"Param", "RawParam"}, p \in TaskParam}
LetName(n) == <<"let", n>>

\* Every script has one embedded file.
FileSymbol(block) == IF block = "script" THEN <<"Task", "File", "f">> ELSE <<"Env", "File", block>>

(***************************************************************************)
(* A template: expr, whether EXPR is on; wrap, the environment that        *)
(* defines the wrap hooks, or "none"; bind[b], the let bindings of a       *)
(* block, each a name and the symbols its expression reads; reads, the     *)
(* symbols of the places that read any; complex, the places whose          *)
(* expressions are more than a dotted name; loops, the comprehension       *)
(* variables of the places that have any.                                  *)
(***************************************************************************)
Reads(t, place) == IF place \in DOMAIN t.reads THEN t.reads[place] ELSE {}
Loops(t, place) == IF place \in DOMAIN t.loops THEN t.loops[place] ELSE {}
LetNames(t, block) == {t.bind[block][i].name : i \in DOMAIN t.bind[block]}
LetSymbols(t, block) == {LetName(n) : n \in LetNames(t, block)}
ActionsOf(t, env) == {"onEnter", "onExit"} \cup (IF t.wrap = env THEN WrapHook ELSE {})

-----------------------------------------------------------------------------
(***************************************************************************)
(* Template validation, pass 8.                                            *)
(***************************************************************************)
ParamScope ==
    {Param(p) : p \in PlainParam \cup PathParam} \cup {RawParam(p) : p \in PlainParam \cup PathParam}

TemplateScope ==
    {Param(p) : p \in PlainParam} \cup {RawParam(p) : p \in PlainParam \cup PathParam}

SessionScope(t, env) ==
    ParamScope \cup SessionSymbols
        \cup (IF env = "stepEnv" /\ t.expr THEN {StepName} ELSE {})
        \cup (IF t.expr THEN {JobName} ELSE {})
        \cup {FileSymbol(env)}

TaskScope(t) ==
    ParamScope \cup SessionSymbols \cup (IF t.expr THEN {JobName, StepName} ELSE {})
        \cup TaskSymbols \cup {FileSymbol("script")}

WrappedActionScope == {<<"WrappedAction", "Command">>}
WrappedEnvNameScope == {<<"WrappedEnv", "Name">>}
WrappedStepNameScope == {<<"WrappedStep", "Name">>}

\* What a hook sees besides its environment's own scope.
HookScope(hook) ==
    WrappedActionScope \cup (IF hook = "onWrapTaskRun" THEN WrappedStepNameScope
                                                        ELSE WrappedEnvNameScope)

ResolvesIn(t, place, scope) == Reads(t, place) \subseteq scope

\* One binding: it may not read itself, and its expression has to resolve.
EvaluateLetBinding(b, scope) == LetName(b.name) \notin b.refs /\ b.refs \subseteq scope

BoundBefore(bindings, i) == {LetName(bindings[j].name) : j \in 1..(i - 1)}

ValidateLetBindings(t, block, enclosing, scope) ==
    LET bindings == t.bind[block] IN
    \A i \in DOMAIN bindings :
        /\ \A j \in DOMAIN bindings : i # j => bindings[i].name # bindings[j].name
        /\ bindings[i].name \notin enclosing
        /\ EvaluateLetBinding(bindings[i], scope \cup BoundBefore(bindings, i))

\* A block without bindings needs nothing; one with bindings needs EXPR.
LetBlockOk(t, block, enclosing, scope) ==
    \/ t.bind[block] = <<>>
    \/ t.expr /\ ValidateLetBindings(t, block, enclosing, scope)

JobCreationNames(t, inStep) ==
    IF t.expr THEN {JobName} \cup (IF inStep THEN {StepName} ELSE {}) ELSE {}

\* The step's template-scope table: what timeouts and step lets may read.
StepTemplateScope(t) == TemplateScope \cup JobCreationNames(t, TRUE) \cup LetSymbols(t, "step")

ValidateActionFs(t, action, scope) == ResolvesIn(t, Append(action, "command"), scope)

ValidateActionTimingFs(t, action, scope) == ResolvesIn(t, Append(action, "timing"), scope)

ValidateEnvActionsTimingFs(t, env, scope) ==
    \A a \in ActionsOf(t, env) :
        ValidateActionTimingFs(t, <<env, a>>,
                               scope \cup (IF a \in WrapHook THEN WrappedActionScope ELSE {}))

Simple(t, place) == t.expr \/ place \notin t.complex

ValidateStepScriptFs(t) ==
    LET action == <<"script", "onRun">>
        scope == TaskScope(t) \cup LetSymbols(t, "step")
        full == scope \cup LetSymbols(t, "script")
    IN  /\ LetBlockOk(t, "script", LetNames(t, "step"), scope)
        /\ Simple(t, Append(action, "command"))
        /\ ValidateActionFs(t, action, full)
        /\ ValidateActionTimingFs(t, action, StepTemplateScope(t))
        /\ ResolvesIn(t, <<"script", "data">>, full)
        /\ \A place \in {Append(action, "command"), <<"script", "data">>} :
               Loops(t, place) \cap (LetNames(t, "step") \cup LetNames(t, "script")) = {}

ValidateEnvFs(t, env, scope, templateScope) ==
    /\ Simple(t, <<env, "variables">>) /\ ResolvesIn(t, <<env, "variables">>, scope)
    /\ \A a \in ActionsOf(t, env) :
           /\ Simple(t, <<env, a, "command">>)
           /\ ValidateActionFs(t, <<env, a>>,
                               scope \cup (IF a \in WrapHook THEN HookScope(a) ELSE {}))
           /\ Loops(t, <<env, a, "command">>) \cap LetNames(t, env) = {}
    /\ ValidateEnvActionsTimingFs(t, env, templateScope)
    /\ Simple(t, <<env, "data">>) /\ ResolvesIn(t, <<env, "data">>, scope)

ValidateJobEnvironments(t) ==
    LET scope == SessionScope(t, "jobEnv") IN
    /\ LetBlockOk(t, "jobEnv", {}, scope)
    /\ ValidateEnvFs(t, "jobEnv", scope \cup LetSymbols(t, "jobEnv"),
                     TemplateScope \cup JobCreationNames(t, FALSE))

ValidateStepEnvironments(t) ==
    LET scope == SessionScope(t, "stepEnv") \cup LetSymbols(t, "step") IN
    /\ LetBlockOk(t, "stepEnv", LetNames(t, "step"), scope)
    /\ ValidateEnvFs(t, "stepEnv", scope \cup LetSymbols(t, "stepEnv"), StepTemplateScope(t))

ValidateHostRequirementsFs(t) ==
    LET scope == TemplateScope \cup JobCreationNames(t, TRUE) IN
    /\ t.expr => ValidateLetBindings(t, "step", {}, scope)
    /\ ResolvesIn(t, <<"hostRequirements">>,
                  scope \cup (IF t.expr THEN LetSymbols(t, "step") ELSE {}))

\* The match over the task parameters has no arm for the other fields.
ValidatedRangeField == {"intExpression", "chunks", "textItems"}

ValidateRangesFs(t) ==
    LET scope == TemplateScope \cup JobCreationNames(t, TRUE)
        bindings == t.bind["step"]
    IN  /\ t.expr => \A i \in DOMAIN bindings :
                         bindings[i].refs \subseteq scope \cup BoundBefore(bindings, i)
        /\ \A f \in ValidatedRangeField :
               ResolvesIn(t, <<"range", f>>,
                          scope \cup (IF t.expr THEN LetSymbols(t, "step") ELSE {}))

ValidateStepLets(t) ==
    LetBlockOk(t, "step", {}, TemplateScope \cup JobCreationNames(t, TRUE))

\* WRAP_ACTIONS, which the hooks need, itself needs EXPR.
WrapNeedsExpr(t) == t.wrap # "none" => t.expr

ValidateFormatStrings(t) ==
    /\ ResolvesIn(t, <<"name">>, TemplateScope)
    /\ ValidateHostRequirementsFs(t)
    /\ ValidateJobEnvironments(t)
    /\ ValidateRangesFs(t)
    /\ ValidateStepLets(t)
    /\ ValidateStepScriptFs(t)
    /\ ValidateStepEnvironments(t)

Accepted(t) == WrapNeedsExpr(t) /\ ValidateFormatStrings(t)

-----------------------------------------------------------------------------
(***************************************************************************)
(* Job creation.  PATH parameters have no Param.* yet: only a session can  *)
(* map them.                                                               *)
(***************************************************************************)
JobTable(t) == TemplateScope \cup JobCreationNames(t, FALSE)

StepTable(t) ==
    JobTable(t) \cup (IF t.expr THEN {StepName} \cup LetSymbols(t, "step") ELSE {})

\* Placeholders for what only a session binds.
AddUnresolvedSessionSymbols(table) ==
    table \cup {Param(p) : p \in {q \in PlainParam \cup PathParam : RawParam(q) \in table}}
          \cup SessionSymbols

TaskCheckTable(t) ==
    AddUnresolvedSessionSymbols(StepTable(t)) \cup TaskSymbols \cup {FileSymbol("script")}
        \cup (IF t.expr THEN LetSymbols(t, "script") ELSE {})

EnvCheckTable(t, env) ==
    AddUnresolvedSessionSymbols(IF env = "jobEnv" THEN JobTable(t) ELSE StepTable(t))
        \cup {FileSymbol(env)} \cup (IF t.expr THEN LetSymbols(t, env) ELSE {})

\* The bindings of a block evaluated into a check table: what they read there.
CheckLetBindings(t, block, table) ==
    t.expr => \A i \in DOMAIN t.bind[block] : t.bind[block][i].refs \subseteq table

CheckEmbeddedFilesData(t, block, table) == ResolvesIn(t, <<block, "data">>, table)

CheckStepScript(t) ==
    LET table == TaskCheckTable(t) IN
    /\ CheckLetBindings(t, "script", table)
    /\ ValidateActionFs(t, <<"script", "onRun">>, table)
    /\ ValidateActionTimingFs(t, <<"script", "onRun">>, StepTable(t))
    /\ CheckEmbeddedFilesData(t, "script", table)

CheckEnvironment(t, env) ==
    LET table == EnvCheckTable(t, env) IN
    /\ CheckLetBindings(t, env, table)
    /\ ResolvesIn(t, <<env, "variables">>, table)
    /\ \A a \in ActionsOf(t, env) :
           ValidateActionFs(t, <<env, a>>,
                            table \cup (IF a \in WrapHook THEN HookScope(a) ELSE {}))
    /\ ValidateEnvActionsTimingFs(t, env, IF env = "jobEnv" THEN JobTable(t) ELSE StepTable(t))
    /\ CheckEmbeddedFilesData(t, env, table)

\* create_job resolves the name before Job.Name exists, and the host
\* requirements and ranges against the step's table.
CreateJobResolves(t) ==
    /\ ResolvesIn(t, <<"name">>, TemplateScope)
    /\ CheckEnvironment(t, "jobEnv")
    /\ CheckLetBindings(t, "step", StepTable(t))
    /\ CheckStepScript(t)
    /\ CheckEnvironment(t, "stepEnv")
    /\ ResolvesIn(t, <<"hostRequirements">>, StepTable(t))
    /\ \A f \in RangeField : ResolvesIn(t, <<"range", f>>, StepTable(t))

(***************************************************************************)
(* The table sent to the worker: of the full table, what the remaining     *)
(* fields read.                                                            *)
(***************************************************************************)
LetRefs(t, block) == UNION {t.bind[block][i].refs : i \in DOMAIN t.bind[block]}

ActionRefs(t, action) == Reads(t, Append(action, "command")) \cup Reads(t, Append(action, "timing"))

EnvActionRefs(t, env) == UNION {ActionRefs(t, <<env, a>>) : a \in ActionsOf(t, env)}

\* What the RawParam fallback looks at; kept in step with the two filters.
CollectAllAccessedSymbols(t) ==
    LetRefs(t, "step")
        \cup ActionRefs(t, <<"script", "onRun">>) \cup Reads(t, <<"script", "data">>)
        \cup LetRefs(t, "script")
        \cup Reads(t, <<"stepEnv", "variables">>)
        \cup UNION {ActionRefs(t, <<"stepEnv", a>>) : a \in ActionsOf(t, "stepEnv")}
        \cup Reads(t, <<"stepEnv", "data">>)

CollectEnvAccessedSymbols(t, env) ==
    Reads(t, <<env, "variables">>)
        \cup UNION {ActionRefs(t, <<env, a>>) : a \in ActionsOf(t, env)}
        \cup Reads(t, <<env, "data">>) \cup LetRefs(t, env)

\* Param.X of a PATH parameter is not in the table; RawParam.X is sent instead.
RawParamFallbacks(symbols, full) ==
    {RawParam(p) : p \in {q \in PlainParam \cup PathParam :
                             Param(q) \in symbols /\ Param(q) \notin full}} \cap full

\* A filter that forgets the step's own timeouts.
FilterWithoutTimeouts(t) ==
    LET full == StepTable(t) IN
    ((CollectAllAccessedSymbols(t) \ Reads(t, <<"script", "onRun", "timing">>)) \cap full)
        \cup RawParamFallbacks(CollectAllAccessedSymbols(t), full)

\* The lets of the step's environments are not among what it copies.
FilterSymtabForStep(t) ==
    LET full == StepTable(t)
        used == LetRefs(t, "step")
                    \cup ActionRefs(t, <<"script", "onRun">>) \cup Reads(t, <<"script", "data">>)
                    \cup LetRefs(t, "script")
                    \cup Reads(t, <<"stepEnv", "variables">>) \cup EnvActionRefs(t, "stepEnv")
                    \cup Reads(t, <<"stepEnv", "data">>)
    IN  (used \cap full) \cup RawParamFallbacks(CollectAllAccessedSymbols(t), full)

FilterSymtabForEnvironment(t, env) ==
    LET full == JobTable(t)
        used == Reads(t, <<env, "variables">>) \cup EnvActionRefs(t, env)
                    \cup Reads(t, <<env, "data">>) \cup LetRefs(t, env)
    IN  (used \cap full) \cup RawParamFallbacks(CollectEnvAccessedSymbols(t, env), full)

-----------------------------------------------------------------------------
(***************************************************************************)
(* The session.  A result of the resolution of some fields is the set of   *)
(* the pairs of a place and a symbol that it finds undefined.              *)
(***************************************************************************)
Undefined(t, places, table) == {<<pl, s>> \in places \X UNION {Reads(t, pl) : pl \in places} :
                                    s \in Reads(t, pl) \ table}

\* base is {} when the caller gives no table and {table} when it does.
BuildSymbolTable(base, taskSymbols) ==
    (IF base = {} THEN ParamScope ELSE (UNION base) \cup {Param(p) : p \in PathParam})
        \cup {WorkingDirectory} \cup taskSymbols

MaterializePathMapping(table) == table \cup MappingSymbols

UndefinedInLets(t, block, table) ==
    UNION {{<<<<block, "let">>, s>> : s \in t.bind[block][i].refs
                                                \ (table \cup BoundBefore(t.bind[block], i))} :
           i \in DOMAIN t.bind[block]}

(***************************************************************************)
(* The order of every runner, and of the scope a wrapped action is         *)
(* resolved in: allocate the file paths, evaluate the lets, write the file *)
(* contents, resolve the action.                                           *)
(***************************************************************************)
RunScript(t, block, action, base) ==
    LET withFile == base \cup {FileSymbol(block)}
        scope == withFile \cup LetSymbols(t, block)
    IN  UndefinedInLets(t, block, withFile)
            \cup Undefined(t, {<<block, "data">>, Append(action, "command"), Append(action, "timing")},
                           scope)

\* The hook of the environment "wrapper", around an action of the session
\* table "base": the wrapper's files, its stored table, its lets, and then
\* the symbols that describe the wrapped action.
RunHook(t, wrapper, stored, hook, base) ==
    LET withTable == base \cup {FileSymbol(wrapper)} \cup UNION stored
        scope == withTable \cup LetSymbols(t, wrapper) \cup HookScope(hook)
    IN  UndefinedInLets(t, wrapper, withTable)
            \cup Undefined(t, {<<wrapper, "data">>, <<wrapper, hook, "command">>,
                               <<wrapper, hook, "timing">>}, scope)

\* What the caller hands enter_environment and exit_environment for the job
\* environment: the CLI hands over nothing, a host may hand over its table.
JobEnvArgument(t, caller) ==
    IF caller = "cli" THEN {} ELSE {FilterSymtabForEnvironment(t, "jobEnv")}

\* The table the session keeps with the environment, for its hooks.
StoredTable(t, env) ==
    IF env = "jobEnv" THEN {FilterSymtabForEnvironment(t, "jobEnv")} ELSE {FilterSymtabForStep(t)}

EnterVariables(t, env, base) == Undefined(t, {<<env, "variables">>}, BuildSymbolTable(base, {}))

\* An environment's own action, wrapped by the job environment's hook or not.
EnvironmentAction(t, env, action, hook, base) ==
    LET table == MaterializePathMapping(BuildSymbolTable(base, {})) IN
    RunScript(t, env, <<env, action>>, table)
        \cup (IF t.wrap = "jobEnv" /\ env = "stepEnv"
              THEN RunHook(t, "jobEnv", StoredTable(t, "jobEnv"), hook, table) ELSE {})

RunTask(t) ==
    LET table == MaterializePathMapping(
                     BuildSymbolTable({FilterSymtabForStep(t)}, TaskSymbols)) IN
    RunScript(t, "script", <<"script", "onRun">>, table)
        \cup (IF t.wrap # "none" THEN RunHook(t, t.wrap, StoredTable(t, t.wrap), "onWrapTaskRun", table)
                                 ELSE {})

\* Everything a run of the job resolves on the worker.
UndefinedOnWorker(t, caller) ==
    LET jobBase == JobEnvArgument(t, caller)
        stepBase == {FilterSymtabForStep(t)}
    IN  UNION {EnterVariables(t, "jobEnv", jobBase),
               EnvironmentAction(t, "jobEnv", "onEnter", "onWrapEnvEnter", jobBase),
               EnterVariables(t, "stepEnv", stepBase),
               EnvironmentAction(t, "stepEnv", "onEnter", "onWrapEnvEnter", stepBase),
               RunTask(t),
               EnvironmentAction(t, "stepEnv", "onExit", "onWrapEnvExit", stepBase),
               EnvironmentAction(t, "jobEnv", "onExit", "onWrapEnvExit", jobBase)}

-----------------------------------------------------------------------------
(***************************************************************************)
(* The gap between validation and job creation: pass 8 does not look at    *)
(* FLOAT ranges or at the expression form of a STRING or PATH range, so    *)
(* what they read is first looked up when the job is created.              *)
(***************************************************************************)
UnvalidatedRangesResolve(t) ==
    \A f \in RangeField \ ValidatedRangeField : ResolvesIn(t, <<"range", f>>, StepTable(t))

(***************************************************************************)
(* Job creation resolves what validation accepted, but for that gap: its   *)
(* check tables bind every symbol the scopes of pass 8 let a field read,   *)
(* so that an accepted template fails on an undefined symbol exactly when  *)
(* a range that nobody looked at reads one.                                *)
(***************************************************************************)
CreationAgreesWithValidation(t) ==
    Accepted(t) => (CreateJobResolves(t) <=> UnvalidatedRangesResolve(t))

(***************************************************************************)
(* The gaps between what validation accepts and what the worker binds: an  *)
(* environment's variables are resolved before its path-mapping file, its  *)
(* embedded files and its lets exist; the lets of a step environment are   *)
(* not looked at when the step's table is filtered; and a caller that      *)
(* passes no table for a job environment leaves Job.Name unbound there,    *)
(* although the environment carries a table that has it.                   *)
(***************************************************************************)
KnownGap(t, caller, place, symbol) ==
    \/ /\ place \in {<<"jobEnv", "variables">>, <<"stepEnv", "variables">>}
       /\ symbol \in MappingSymbols \cup {FileSymbol(place[1])} \cup LetSymbols(t, place[1])
    \/ place = <<"stepEnv", "let">> /\ symbol \in StepTable(t)
    \/ caller = "cli" /\ place[1] = "jobEnv" /\ symbol = JobName

(***************************************************************************)
(* Of an accepted template, every symbol that a field reads on the worker  *)
(* is bound there, but for these three gaps: nothing that the script,      *)
(* its timeouts, the wrap hooks or the job environment read is lost on     *)
(* the way, whichever environment wraps the task.                          *)
(***************************************************************************)
WorkerBindsWhatItReads(t) ==
    Accepted(t) => \A caller \in {"cli", "host"} :
                       \A u \in UndefinedOnWorker(t, caller) : KnownGap(t, caller, u[1], u[2])

(***************************************************************************)
(* As instantiate.rs states the filter: the table sent holds exactly what  *)
(* the fields left to the worker read, so for a host that passes the       *)
(* tables along nothing an accepted template reads in a let, an action or  *)
(* a file is undefined there.                                              *)
(***************************************************************************)
SentTablesSuffice(t) ==
    Accepted(t) => {u \in UndefinedOnWorker(t, "host") : u[1][2] # "variables"} = {}
=============================================================================
