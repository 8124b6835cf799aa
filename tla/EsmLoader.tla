----------------------------- MODULE EsmLoader -----------------------------
(***************************************************************************)
(* Loading of ES modules (src/module.cpp): FetchESModuleTree and its two   *)
(* registries, LoadModule for a plugin's main module and for import(),     *)
(* the dynamic-import table with its 0 ms tasks, the callbacks that settle *)
(* an import once a top-level await has ended, CommonJS modules behind     *)
(* import (FetchCJSModuleAsESModule), modules made from extensions         *)
(* (requests ":name"), and EvalScript, through which require() loads an ES *)
(* module and waits for it.                                                *)
(*                                                                         *)
(* These call each other: fetching a module runs the body of a CommonJS    *)
(* request, the body may require an ES module, and that fetches again,     *)
(* inside the fetch that is under way.  `stack' is the chain of calls:     *)
(*   "load"   LoadModule(path, resolver)                                   *)
(*   "eval"   EvalScript(path)                                             *)
(*   "fetch"  FetchESModuleTree, past the registration of its module       *)
(*   "body"   the code of a CommonJS module, called by a fetch             *)
(*   "microtask"  a promise callback, run by a microtask checkpoint        *)
(*                                                                         *)
(* V8's part (linking through ResolveModule, evaluation) is modelled from  *)
(* how the code calls it.  A path stands for a file that Search finds, or  *)
(* an extension; a read of one in `Breakable' may fail.  The code of ES    *)
(* modules imports, only CommonJS bodies and callbacks require.  No module *)
(* resolver of an embedder is installed (nothing here calls                *)
(* SetModuleResolver).                                                     *)
(***************************************************************************)
EXTENDS Naturals, Sequences, FiniteSets, SequencesExt

CONSTANTS
    Paths,
    Kind,         \* "esm", "cjs" or "ext"
    Requests,     \* Requests[p]: the paths that p imports statically, in order
    BodyRequires, \* BodyRequires[x]: ES modules that the CommonJS x requires
    Slow,         \* modules whose top-level await needs a task of the scheduler
    Breakable,    \* files that can be missing or broken when they are read
    Mains,        \* paths that are plugins' main modules, each loaded once
    Dynamic,      \* paths that scripts import()
    None, Fail,
    MaxMods,      \* bound: v8::Module objects made
    MaxImports    \* bound: import() calls that make a new promise

Mods == 1 .. MaxMods
Imports == 1 .. MaxImports

ASSUME EsmConstants ==
    /\ Kind \in [Paths -> {"esm", "cjs", "ext"}]
    /\ Requests \in [Paths -> Seq(Paths)]
    /\ \A p \in Paths : Kind[p] # "esm" => Requests[p] = <<>>
    /\ BodyRequires \in [Paths -> SUBSET {p \in Paths : Kind[p] = "esm"}]
    /\ Slow \subseteq Paths /\ Breakable \subseteq Paths
    /\ Mains \union Dynamic \subseteq {p \in Paths : Kind[p] = "esm"}
    /\ MaxMods \in Nat /\ MaxImports \in Nat
    /\ {None, Fail} \intersect (Mods \union Imports) = {}

VARIABLES
    made,             \* v8::Module objects made so far
    modPath,          \* the path of each
    status,           \* V8's status of each
    resolveCache,     \* ModuleInfo::resolveCache of each
    tracked,          \* modules in _idToModuleInfo
    pathToModule,     \* _pathToModule
    required,         \* require()'s cache: "none", "running", "done", "threw",
                      \* "unread" (the file could not be read)
    stack,            \* the chain of calls
    ret,              \* what the last call returned: module, Fail, or None
    main,             \* each main module: "none", "loading", "failed", or the
                      \* status it had when LoadModule returned it
    dynamicImports,   \* _dynamicImports
    queue,            \* the import tasks in the scheduler
    promise,          \* state of each import() promise
    waiting,          \* module whose promise has OnDynamicModule* attached
    imports           \* import() promises made so far

modVars == <<made, modPath, status, resolveCache, tracked, pathToModule>>
loadVars == <<stack, ret, required, main>>
importVars == <<dynamicImports, queue, promise, waiting, imports>>
vars == <<modVars, loadVars, importVars>>

Init ==
    /\ made = 0
    /\ modPath = [m \in Mods |-> None]
    /\ status = [m \in Mods |-> "none"]
    /\ resolveCache = [m \in Mods |-> [p \in Paths |-> None]]
    /\ tracked = {}
    /\ pathToModule = [p \in Paths |-> None]
    /\ required = [p \in Paths |-> "none"]
    /\ stack = <<>> /\ ret = None
    /\ main = [p \in Mains |-> "none"]
    /\ dynamicImports = [p \in Paths |-> None]
    /\ queue = <<>>
    /\ promise = [i \in Imports |-> "none"]
    /\ waiting = [i \in Imports |-> None]
    /\ imports = 0

Idle == stack = <<>>

----------------------------------------------------------------------------
\* Calls.  `step' is where LoadModule and EvalScript are: "fetch", "eval", or
\* "spin" in EvalScript's loop; `mod' the module they work on.
LoadCall(p, i) == [call |-> "load", path |-> p, resolver |-> i, step |-> "fetch", mod |-> None]
EvalCall(p) == [call |-> "eval", path |-> p, resolver |-> None, step |-> "fetch", mod |-> None]
FetchCall(m) == [call |-> "fetch", mod |-> m, next |-> 1]
BodyCall(x) == [call |-> "body", path |-> x]
MicrotaskCall == [call |-> "microtask"]

Top == Last(stack)
On(call) == stack # <<>> /\ Top.call = call
Rooted == (On("load") \/ On("eval"))
Goto(step, m) == stack' = [stack EXCEPT ![Len(stack)].step = step, ![Len(stack)].mod = m]

\* Mutant: the path is registered once the requests are fetched.
RegisterLate(p) ==
    /\ made < MaxMods
    /\ made' = made + 1
    /\ modPath' = [modPath EXCEPT ![made + 1] = p]
    /\ status' = [status EXCEPT ![made + 1] = "unlinked"]
    /\ tracked' = tracked \union {made + 1}
    /\ UNCHANGED pathToModule

\* Both tables have the module before its requests are looked at.
Register(p) ==
    LET m == made + 1 IN
      /\ made < MaxMods
      /\ made' = m
      /\ modPath' = [modPath EXCEPT ![m] = p]
      /\ status' = [status EXCEPT ![m] = "unlinked"]
      /\ tracked' = tracked \union {m}
      /\ pathToModule' = [pathToModule EXCEPT ![p] = m]

\* FetchESModuleTree(p) of a path that is not registered: the file does not
\* load or compile, or the module is registered and its requests are next.
FetchFile(p) ==
    /\ pathToModule[p] = None
    /\ \/ /\ p \in Breakable
          /\ ret' = Fail
          /\ UNCHANGED <<modVars, stack>>
       \/ /\ Register(p)
          /\ stack' = Append(stack, FetchCall(made + 1))
          /\ UNCHANGED <<resolveCache, ret>>

\* The call that LoadModule or EvalScript makes.
FetchRoot ==
    /\ Rooted /\ Top.step = "fetch" /\ ret = None
    /\ LET p == Top.path IN
       \/ /\ pathToModule[p] # None
          /\ ret' = pathToModule[p]
          /\ UNCHANGED <<modVars, stack>>
       \/ FetchFile(p)
    /\ UNCHANGED <<required, main, importVars>>

Requesting == On("fetch") /\ ret = None /\ Top.next <= Len(Requests[modPath[Top.mod]])
Request == Requests[modPath[Top.mod]][Top.next]

\* The request on top is answered with module m: the next one.
Answered(s, p, m) ==
    /\ resolveCache' = [resolveCache EXCEPT ![Last(s).mod][p] = m]
    /\ stack' = [s EXCEPT ![Len(s)].next = @ + 1]

\* A request for an ES module.
FetchRequest ==
    /\ Requesting /\ Kind[Request] = "esm"
    /\ LET p == Request IN
         \/ /\ pathToModule[p] # None
            /\ Answered(stack, p, pathToModule[p])
            /\ UNCHANGED <<made, modPath, status, tracked, pathToModule, ret>>
         \/ FetchFile(p)
    /\ UNCHANGED <<required, main, importVars>>

\* A new synthetic module, in no registry by itself.
Synthetic(p, st) ==
    /\ made < MaxMods
    /\ made' = made + 1
    /\ modPath' = [modPath EXCEPT ![made + 1] = p]
    /\ status' = [status EXCEPT ![made + 1] = st]
    /\ UNCHANGED pathToModule

\* A request ":name": the extension is looked for, and a module is made from
\* it (each time a new one), linked and evaluated at once.
FetchExtension ==
    /\ Requesting /\ Kind[Request] = "ext"
    /\ \/ /\ Request \in Breakable
          /\ ret' = Fail
          /\ UNCHANGED <<modVars, stack>>
       \/ /\ Synthetic(Request, "evaluated")
          /\ Answered(stack, Request, made + 1)
          /\ UNCHANGED <<tracked, ret>>
    /\ UNCHANGED <<required, main, importVars>>

\* The value of a CommonJS request, wrapped: FetchCJSModuleAsESModule.
Wrapped(s, x) ==
    /\ Synthetic(x, "unlinked")
    /\ tracked' = tracked \union {made + 1}
    /\ Answered(s, x, made + 1)

\* A request for a CommonJS module calls require: the cached value (of a body
\* that is still running: its exports so far), a TypeError if the body threw,
\* a new entry in the cache and an exception if the file cannot be read, or
\* the body starts.
FetchCjs ==
    /\ Requesting /\ Kind[Request] = "cjs"
    /\ LET file == Request IN
         \/ /\ required[file] \in {"running", "done", "unread"}
            /\ Wrapped(stack, file)
            /\ UNCHANGED <<required, ret>>
         \/ /\ required[file] = "threw"
            /\ ret' = Fail
            /\ UNCHANGED <<modVars, stack, required>>
         \/ /\ required[file] = "none" /\ file \in Breakable
            /\ required' = [required EXCEPT ![file] = "unread"]
            /\ ret' = Fail
            /\ UNCHANGED <<modVars, stack>>
         \/ /\ required[file] = "none"
            /\ required' = [required EXCEPT ![file] = "running"]
            /\ stack' = Append(stack, BodyCall(file))
            /\ UNCHANGED <<modVars, ret>>
    /\ UNCHANGED <<main, importVars>>

\* Every request is there: return the module to LoadModule or EvalScript, or
\* to the fetch that requested it.
FetchReturn ==
    /\ On("fetch") /\ ret = None
    /\ Top.next > Len(Requests[modPath[Top.mod]])
    /\ LET below == Front(stack) IN
       IF Last(below).call = "fetch"
       THEN /\ Answered(below, modPath[Top.mod], Top.mod)
            /\ UNCHANGED ret
       ELSE /\ stack' = below
            /\ ret' = Top.mod
            /\ UNCHANGED resolveCache
    /\ UNCHANGED <<made, modPath, status, tracked, pathToModule, required,
                   main, importVars>>

\* Mutant: _pathToModule keeps the module.
UnregisterInfoOnly(m) ==
    /\ tracked' = tracked \ {m}
    /\ UNCHANGED pathToModule

\* A failure takes the module whose request failed out of both tables.
Unregister(m) ==
    /\ tracked' = tracked \ {m}
    /\ pathToModule' = [pathToModule EXCEPT ![modPath[m]] = None]

FetchUnwind ==
    /\ On("fetch") /\ ret = Fail
    /\ Unregister(Top.mod)
    /\ stack' = Front(stack)
    /\ UNCHANGED <<made, modPath, status, resolveCache, ret, required,
                   main, importVars>>

----------------------------------------------------------------------------
\* The code of a CommonJS module.  It requires an ES module for the first time
\* (a second require returns what the cache has, or throws)...
RequireEsm(q) ==
    /\ required[q] = "none"
    /\ required' = [required EXCEPT ![q] = "running"]
    /\ stack' = Append(stack, EvalCall(q))
    /\ UNCHANGED <<modVars, ret, main, importVars>>

BodyRequiresEsm ==
    /\ On("body") /\ ret = None
    /\ \E q \in BodyRequires[Top.path] : RequireEsm(q)

\* ... catches what that threw ...
BodyCatches ==
    /\ On("body") /\ ret = Fail
    /\ ret' = None
    /\ UNCHANGED <<modVars, stack, required, main, importVars>>

\* ... ends ...
BodyEnds ==
    /\ On("body") /\ ret = None
    /\ required' = [required EXCEPT ![Top.path] = "done"]
    /\ Wrapped(Front(stack), Top.path)
    /\ UNCHANGED <<ret, main, importVars>>

\* ... or throws.
BodyThrows ==
    /\ On("body")
    /\ required' = [required EXCEPT ![Top.path] = "threw"]
    /\ stack' = Front(stack)
    /\ ret' = Fail
    /\ UNCHANGED <<modVars, main, importVars>>

\* require of an ES module in a task of the scheduler or a call from native
\* code.
ScriptRequires ==
    /\ Idle
    /\ \E q \in UNION {BodyRequires[x] : x \in Paths} : RequireEsm(q)

Spinning == On("eval") /\ Top.step = "spin"

\* Microtasks are being run: PerformMicrotaskCheckpoint returns at once.
InMicrotask == \E k \in DOMAIN stack : stack[k].call = "microtask"

\* require of an ES module in a promise callback, which runs when a script has
\* returned or in the checkpoint of EvalScript's loop.
MicrotaskRequires ==
    /\ Idle \/ (Spinning /\ ~ InMicrotask)
    /\ \E q \in UNION {BodyRequires[x] : x \in Paths} :
         /\ required[q] = "none"
         /\ required' = [required EXCEPT ![q] = "running"]
         /\ stack' = Append(Append(stack, MicrotaskCall), EvalCall(q))
    /\ UNCHANGED <<modVars, ret, main, importVars>>

MicrotaskEnds ==
    /\ On("microtask")
    /\ stack' = Front(stack)
    /\ ret' = None
    /\ UNCHANGED <<modVars, required, main, importVars>>

----------------------------------------------------------------------------
\* Modules that linking visits from m: through resolveCache, not beyond
\* modules that are linked already.
Reach(m) ==
    LET next(x) == {x} \union ({resolveCache[x][p] : p \in Paths} \ {None})
        r[k \in 0 .. made] == IF k = 0 THEN {m} ELSE UNION {next(x) : x \in r[k - 1]}
    IN  r[made]

Visited(m) == {x \in Reach(m) : status[x] = "unlinked"}

\* ResolveModule: the referrer must be tracked and the request in its cache.
Resolves(x) ==
    x \in tracked /\ \A i \in DOMAIN Requests[modPath[x]] : resolveCache[x][Requests[modPath[x]][i]] # None

\* A module without requests never calls ResolveModule.
Linkable(m) == \A x \in Visited(m) : Requests[modPath[x]] = <<>> \/ Resolves(x)

Settle(i, s) == promise' = IF i = None THEN promise ELSE [promise EXCEPT ![i] = s]

\* What ExecuteModule learns of a main module.
MainEnds(s) ==
    main' = IF Top.resolver = None THEN [main EXCEPT ![Top.path] = s] ELSE main

\* EvalScript is left: require() caches the namespace, or throws.
RequireEnds(outcome) ==
    /\ required' = [required EXCEPT ![Top.path] = outcome]
    /\ stack' = Front(stack)
    /\ ret' = IF outcome = "threw" /\ Len(stack) > 1 THEN Fail ELSE None

\* LoadModule is left.
LeaveLoad == stack' = Front(stack) /\ ret' = None

\* Nothing was fetched, or it cannot be linked.
NotLinked == ret = Fail \/ (ret \in Mods /\ ~ Linkable(ret))

\* LoadModule returns no module: ImportDynamic(path) rejects.
LoadFails ==
    /\ On("load") /\ Top.step = "fetch" /\ NotLinked
    /\ Settle(Top.resolver, "rejected")
    /\ MainEnds("failed")
    /\ LeaveLoad
    /\ UNCHANGED <<modVars, required, dynamicImports, queue, waiting, imports>>

\* EvalScript throws.
EvalFails ==
    /\ On("eval") /\ Top.step = "fetch" /\ NotLinked
    /\ RequireEnds("threw")
    /\ UNCHANGED <<modVars, main, importVars>>

InstantiateModule ==
    /\ Rooted /\ Top.step = "fetch"
    /\ ret \in Mods /\ Linkable(ret)
    /\ \E visited \in {Visited(ret)} :
         status' = [m \in Mods |-> IF m \in visited THEN "linked" ELSE status[m]]
    /\ Goto("eval", ret)
    /\ ret' = None
    /\ UNCHANGED <<made, modPath, resolveCache, tracked, pathToModule,
                   required, main, importVars>>

\* The status after Evaluate(m), where reach[x] is what x reaches: unchanged if
\* m was evaluated before.  Else one module of it that nothing holds up may
\* throw, or one may begin to await.  Modules that reach one that threw are
\* errored, and the evaluation ends there: of the others only those in `ran'
\* have their turn, before whom comes all that they reach.  Modules that reach
\* an awaiting one are pending.
Evaluated(m, reach) ==
    LET all == DOMAIN reach
        todo == {x \in all : status[x] = "linked"}
        failed == {x \in all : status[x] = "errored"}
        awaiting == {x \in all : status[x] = "pending"}
        ready == {x \in todo : reach[x] \cap (failed \union awaiting) = {}}
        turns == {UNION {reach[x] : x \in S} : S \in SUBSET todo}
        result(ran, threw, awaits) ==
            [x \in Mods |-> IF x \notin todo THEN status[x]
                            ELSE IF reach[x] \cap threw # {} THEN "errored"
                            ELSE IF x \notin ran THEN "linked"
                            ELSE IF reach[x] \cap awaits # {} THEN "pending"
                            ELSE "evaluated"]
    IN
    IF m \notin todo THEN {status}
    ELSE {result(ran \union reach[x], failed \union {x}, awaiting) : x \in ready, ran \in turns}
         \union
         IF failed # {} THEN {result(ran, failed, awaiting) : ran \in turns}
         ELSE {result(all, {}, awaiting \union new)
                 : new \in {{}} \union {{x} : x \in {y \in todo : Kind[modPath[y]] = "esm"}}}

StatusEvaluated(m) ==
    \E reach \in {[x \in Reach(m) |-> Reach(x)]} : status' \in Evaluated(m, reach)

\* Evaluate, and LoadModule's three cases for a resolver.  Without one the
\* promise is only looked at while it is pending.
Evaluate ==
    /\ On("load") /\ Top.step = "eval"
    /\ LET m == Top.mod  i == Top.resolver IN
       /\ StatusEvaluated(m)
       /\ \/ /\ status'[m] = "evaluated"
             /\ Settle(i, "fulfilled")
             /\ UNCHANGED waiting
          \/ /\ status'[m] = "errored"
             /\ Settle(i, "rejected")
             /\ UNCHANGED waiting
          \/ /\ status'[m] = "pending"
             /\ waiting' = IF i = None THEN waiting ELSE [waiting EXCEPT ![i] = m]
             /\ UNCHANGED promise
       /\ MainEnds(status'[m])
    /\ LeaveLoad
    /\ UNCHANGED <<made, modPath, resolveCache, tracked, pathToModule,
                   required, dynamicImports, queue, imports>>

\* Evaluate in EvalScript: the loop is entered if the promise is pending.
EvalEvaluate ==
    /\ On("eval") /\ Top.step = "eval"
    /\ StatusEvaluated(Top.mod)
    /\ \/ /\ status'[Top.mod] = "pending"
          /\ Goto("spin", Top.mod)
          /\ UNCHANGED <<ret, required>>
       \/ status'[Top.mod] = "evaluated" /\ RequireEnds("done")
       \/ status'[Top.mod] = "errored" /\ RequireEnds("threw")
    /\ UNCHANGED <<made, modPath, resolveCache, tracked, pathToModule,
                   main, importVars>>

\* Mutant: the loop is left although the promise is pending.
SpinOnce ==
    /\ On("eval") /\ Top.step = "spin"
    /\ RequireEnds(IF status[Top.mod] = "errored" THEN "threw" ELSE "done")
    /\ UNCHANGED <<modVars, main, importVars>>

\* EvalScript's loop ends with the promise.
SpinEnds ==
    /\ On("eval") /\ Top.step = "spin"
    /\ \/ status[Top.mod] = "evaluated" /\ RequireEnds("done")
       \/ status[Top.mod] = "errored" /\ RequireEnds("threw")
    /\ UNCHANGED <<modVars, main, importVars>>

\* m waits, itself or through what it imports, for a task of the scheduler.
NeedsTask(m) == \E x \in Reach(m) : modPath[x] \in Slow /\ status[x] = "pending"

\* The import cycle that m is in: its modules finish together.
Cycle(m) == {x \in Reach(m) : m \in Reach(x)}

\* The await ends, once those of m's dependencies have: OnDynamicModuleResolve
\* or -Failure for every import that was attached.  Microtasks run between
\* calls and in the loop of EvalScript, unless that was called by a microtask;
\* tasks of the scheduler only between calls.
AwaitEnds(m) ==
    /\ status[m] = "pending"
    /\ Idle \/ (Spinning /\ ~ InMicrotask /\ ~ NeedsTask(m))
    /\ \E cycle \in {Cycle(m)} :
       /\ \A x \in Reach(m) : status[x] = "pending" => x \in cycle
       /\ \E s \in {"evaluated", "errored"} :
            /\ (\E x \in Reach(m) : status[x] = "errored") => s = "errored"
            /\ status' = [x \in Mods |->
                 IF x \in cycle /\ status[x] = "pending" THEN s ELSE status[x]]
            /\ promise' = [i \in Imports |->
                 IF waiting[i] \notin cycle THEN promise[i]
                 ELSE IF s = "evaluated" THEN "fulfilled" ELSE "rejected"]
       /\ waiting' = [i \in Imports |-> IF waiting[i] \in cycle THEN None ELSE waiting[i]]
    /\ UNCHANGED <<made, modPath, resolveCache, tracked, pathToModule,
                   loadVars, dynamicImports, queue, imports>>

----------------------------------------------------------------------------
\* ExecuteModule for a plugin's entry point.
LoadMain(p) ==
    /\ Idle /\ main[p] = "none"
    /\ main' = [main EXCEPT ![p] = "loading"]
    /\ stack' = <<LoadCall(p, None)>>
    /\ UNCHANGED <<modVars, ret, required, importVars>>

\* Scripts run between loads, in CommonJS bodies and microtasks, while modules
\* are evaluated and in the loop of EvalScript.
ScriptRuns ==
    \/ Idle
    \/ On("body") /\ ret = None
    \/ On("microtask")
    \/ Rooted /\ Top.step = "eval"
    \/ Spinning /\ ~ InMicrotask

\* Mutant: no task is queued.
ImportDynamicUnqueued(p) ==
    /\ ScriptRuns
    /\ dynamicImports[p] = None
    /\ imports < MaxImports
    /\ imports' = imports + 1
    /\ promise' = [promise EXCEPT ![imports + 1] = "pending"]
    /\ dynamicImports' = [dynamicImports EXCEPT ![p] = imports + 1]
    /\ UNCHANGED <<modVars, loadVars, queue, waiting>>

\* import(p): join the import that is under way, or queue one.
ImportDynamic(p) ==
    /\ ScriptRuns
    /\ dynamicImports[p] = None
    /\ imports < MaxImports
    /\ imports' = imports + 1
    /\ promise' = [promise EXCEPT ![imports + 1] = "pending"]
    /\ dynamicImports' = [dynamicImports EXCEPT ![p] = imports + 1]
    /\ queue' = Append(queue, p)
    /\ UNCHANGED <<modVars, loadVars, waiting>>

\* import(name) of a name that Search does not find: the promise is rejected
\* before it is returned.
ImportMiss ==
    /\ ScriptRuns
    /\ imports < MaxImports
    /\ imports' = imports + 1
    /\ promise' = [promise EXCEPT ![imports + 1] = "rejected"]
    /\ UNCHANGED <<modVars, loadVars, dynamicImports, queue, waiting>>

\* Mutant: the entry stays in the table.
ImportTaskKeepsEntry ==
    /\ Idle /\ queue # <<>>
    /\ queue' = Tail(queue)
    /\ dynamicImports[Head(queue)] # None
    /\ stack' = <<LoadCall(Head(queue), dynamicImports[Head(queue)])>>
    /\ UNCHANGED <<modVars, ret, required, main, dynamicImports, promise, waiting, imports>>

\* The queued task ImportDynamic(path): take the resolver out of the table and
\* load (with no entry it would return at once).
ImportTask ==
    /\ Idle /\ queue # <<>>
    /\ queue' = Tail(queue)
    /\ LET p == Head(queue) IN
         /\ dynamicImports[p] # None
         /\ dynamicImports' = [dynamicImports EXCEPT ![p] = None]
         /\ stack' = <<LoadCall(p, dynamicImports[p])>>
    /\ UNCHANGED <<modVars, ret, required, main, promise, waiting, imports>>

LoadStep ==
    \/ FetchRoot \/ FetchRequest \/ FetchExtension \/ FetchCjs \/ FetchReturn \/ FetchUnwind
    \/ BodyRequiresEsm \/ BodyCatches \/ BodyEnds \/ BodyThrows \/ MicrotaskEnds
    \/ LoadFails \/ EvalFails \/ InstantiateModule \/ Evaluate \/ EvalEvaluate \/ SpinEnds

Next ==
    \/ \E p \in Dynamic : ImportDynamic(p)
    \/ \E p \in Mains : LoadMain(p)
    \/ ScriptRequires \/ MicrotaskRequires
    \/ ImportMiss \/ ImportTask \/ LoadStep
    \/ \E m \in Mods : AwaitEnds(m)

Spec == Init /\ [][Next]_vars

\* The thread that has the isolate does not stop: loading is sequential code,
\* the scheduler runs queued tasks on every tick, and what a top-level await
\* waits for happens.
Fairness == WF_vars(LoadStep \/ ImportTask \/ \E m \in Mods : AwaitEnds(m))

FairSpec == Spec /\ Fairness

----------------------------------------------------------------------------
TypeOK ==
    /\ made \in 0 .. MaxMods
    /\ modPath \in [Mods -> Paths \union {None}]
    /\ status \in [Mods -> {"none", "unlinked", "linked", "pending", "evaluated", "errored"}]
    /\ resolveCache \in [Mods -> [Paths -> Mods \union {None}]]
    /\ tracked \subseteq Mods
    /\ pathToModule \in [Paths -> Mods \union {None}]
    /\ required \in [Paths -> {"none", "running", "done", "threw", "unread"}]
    /\ \A k \in DOMAIN stack :
         \/ stack[k] \in [call : {"load", "eval"}, path : Paths, resolver : Imports \union {None},
                          step : {"fetch", "eval", "spin"}, mod : Mods \union {None}]
         \/ stack[k] \in [call : {"fetch"}, mod : Mods, next : Nat]
         \/ stack[k] \in [call : {"body"}, path : Paths]
         \/ stack[k] = MicrotaskCall
    /\ ret \in Mods \union {None, Fail}
    /\ main \in [Mains -> {"none", "loading", "failed", "evaluated", "pending", "errored"}]
    /\ dynamicImports \in [Paths -> Imports \union {None}]
    /\ queue \in Seq(Paths)
    /\ promise \in [Imports -> {"none", "pending", "fulfilled", "rejected"}]
    /\ waiting \in [Imports -> Mods \union {None}]

\* An import() promise is never forgotten: while it is pending exactly one of
\* these holds it: the table together with one queued task, a load that is
\* under way, or the handlers on a module that is still awaiting.  And every
\* entry of _dynamicImports has exactly one task and every task an entry:
\* joining an import that is under way never waits for a task that has run.
NoOrphanImport ==
    /\ \A i \in Imports :
         promise[i] = "pending" =>
             \/ \E p \in Paths : dynamicImports[p] = i
             \/ \E k \in DOMAIN stack : stack[k].call = "load" /\ stack[k].resolver = i
             \/ waiting[i] # None /\ status[waiting[i]] = "pending"
    /\ \A p \in Paths :
         Cardinality({k \in DOMAIN queue : queue[k] = p})
             = IF dynamicImports[p] = None THEN 0 ELSE 1

Fetches == {k \in DOMAIN stack : stack[k].call = "fetch"}

\* Recursion ends on import cycles and never registers a path twice, through
\* every load, body and require that is nested in a fetch: the fetches under
\* way are of different modules, each of them the registered one.
CallsAreDistinct ==
    \A i, k \in Fetches :
        /\ pathToModule[modPath[stack[i].mod]] = stack[i].mod
        /\ stack[i].mod = stack[k].mod => i = k

\* A module that is registered and not being fetched has every one of its
\* requests in its resolveCache (the comment above fetchRequests).
RegisteredIsComplete ==
    \A p \in Paths :
        LET m == pathToModule[p] IN
        m # None /\ (\A k \in Fetches : stack[k].mod # m) =>
            \A i \in DOMAIN Requests[p] : resolveCache[m][Requests[p][i]] # None

\* An ES module that require() has answered with is the one that import gives,
\* and it and all it reaches have been evaluated: a body that requires in the
\* middle of another module's fetch never gets a namespace in which some of
\* the bindings are still to come.
RequiredIsEvaluated ==
    \A q \in Paths :
        Kind[q] = "esm" /\ required[q] = "done" =>
            /\ pathToModule[q] # None
            /\ \A x \in Reach(pathToModule[q]) : status[x] = "evaluated"

\* No half-built module is left for the next import to pick up: when no fetch
\* is under way, all that a registered module reaches and that was fetched is
\* registered too.
NoHalfBuiltModule ==
    stack = <<>> =>
        \A p \in Paths : pathToModule[p] # None =>
            \A x \in Reach(pathToModule[p]) :
                Kind[modPath[x]] = "esm" => pathToModule[modPath[x]] = x

\* EvalScript waits for what only the scheduler's next run can bring, or for
\* any await at all in a microtask, where its checkpoints do nothing.
Stuck == Spinning /\ (InMicrotask \/ NeedsTask(Top.mod))

\* Every import() promise is settled in the end (top-level awaits end), unless
\* a require() of an ES module that awaits holds the thread: for ever if the
\* await needs a timer or another task of the scheduler, since EvalScript's
\* loop runs microtasks only, and whatever it needs if the require() is made in
\* a promise callback.  Nothing else in the loader waits for ever.
ImportSettles ==
    \A i \in Imports :
        (promise[i] = "pending") ~> (promise[i] \in {"fulfilled", "rejected"} \/ Stuck)
=============================================================================
