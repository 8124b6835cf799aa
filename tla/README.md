# Specifications of plugify-module-v8

plugify-module-v8 lets plugins of the plugify host be written in JavaScript. It
embeds one V8 isolate, gives scripts timers, `fetch`, `fs` and other built-ins,
loads ES and CommonJS modules, and makes functions, values and objects of other
plugins callable from scripts and the other way round. This directory holds TLA+
specifications of the parts of it that keep state or run concurrently, TLC
configurations that check them on small instances, and proofs for TLAPS.

Paths are relative to the repository root (`src/module.cpp` is the file that
`PROJECT.json` calls `src/src/module.cpp`).

## 1. The system

| Component | State | Operations | Where |
|---|---|---|---|
| Task scheduler | `_tasks`, a `std::set` by (executeTime, id); `_nextId`; a recursive mutex | AddTask, RemoveTask, RescheduleTask, Run, Reset | `src/task_scheduler.*` |
| Timer functions | none of their own | setTimeout, setInterval, clearTimeout, clearInterval | `src/builtin/timers.hpp` |
| Threads | the isolate's `v8::Locker`; detached threads; shared `v8::Global` handles | OnUpdate, Shutdown, calls from native threads, fetch and fs threads | `src/module.cpp`, `src/builtin/fetch.hpp`, `src/builtin/fs.hpp` |
| ES module loader | `_pathToModule`, `_idToModuleInfo`, `resolveCache`, `_dynamicImports` | FetchESModuleTree, FetchCJSModuleAsESModule, LoadModule, EvalScript, DynamicImport and its task, OnDynamicModule* | `src/module.cpp` |
| Module search | none; reads the file system | Search and what it tries | `src/module_loader.cpp` |
| CommonJS require | moduleCache, one localModuleCache per require, tmpModuleStorage | require, addModule, getModuleBySID, forceReload | `lib/pps.js` |
| Plugin lifecycle | `_pluginsMap`, `_jsMethods` | OnPluginLoad, OnPluginStart, OnPluginUpdate, OnPluginEnd, Shutdown | `src/module.cpp` |
| Function addresses | `_externalMap`, `__address`, JIT code | AddToFunctionsMap, FindExternal, FindInternal, GetOrCreateFunctionValue, GetOrCreateFunctionObject | `src/module.cpp` |
| Extension imports | export maps at file scope; classRegistry | CreateInternalModule, CreateExternalModule, CreateEnumObject, CreateClassObject, ConvertBinding, bindClassMethods | `src/module.cpp`, `lib/plugify.mjs` |
| Cross-language calls | ArgsScope: parameter registers and storage cells; V8's pending exception | ExternalCall, InternalCall and their marshalling | `src/module.cpp`, `src/module.hpp` |
| Value conversion | none | ValueFromObject, GetType, ArrayFromObject, CreateJsObject, UTF-8 and UTF-16 | `src/module.cpp` |
| Native object ownership | `_handle`, `_owned`, a FinalizationRegistry | constructor, close, release, get, reset, methods, finalizer | `lib/plugify.mjs` |

How they interact. The host calls OnUpdate on every tick; OnUpdate takes the
isolate and calls the scheduler's Run. Everything that is deferred goes through
that scheduler: timers, the result of a `fetch` or of an fs call with a callback,
and every `import()`. Callbacks run inside Run, with its mutex held, and may call
the scheduler again. `import()` enters the loader, a plugin's load enters it for
the main module, and a load hands the functions it exports to the address
registry. The fetch of an ES module runs the body of a CommonJS module it imports,
and that body may `require` an ES module: EvalScript then fetches and evaluates it
inside the fetch that is under way. `require` and `import` find files through the
same search, but keep caches of their own. A request `:name` makes a module out of
the metadata of another extension. Cross-language calls use the registry for parameters that are functions
and the conversions for all others; `lib/plugify.mjs` builds its classes on top of
such calls.

What is hard. A callback that removes itself or others while Run holds an
iterator; a 32-bit counter that wraps; threads that post results while the host is
in Run or in Shutdown; handles of V8 released on the wrong thread; import cycles
in which one file fails, with code running in the middle of the fetch; a wait for
a promise on the only thread that could settle it; requires that nest, throw and
reuse slots; one module name that means two files; JIT addresses that are freed by
a failed load and come back; maps that survive the import that filled them; calls nested in both directions,
each with many early returns; numbers at the edge of their type, and `any`,
whose type is guessed from the value; finalizers that
race with an explicit close, and native code that leads back into a close() under
way. `PROJECT.json` lists these under `hazards`, each at
its line, with the properties that would catch it going wrong.

## 2. Modules

| Module | Models | Instance |
|---|---|---|
| `TaskScheduler` | scheduler and timer functions | `MCTaskScheduler` |
| `Timers` | what the timers promise (abstract specification of `TaskScheduler`) | through `TaskScheduler` |
| `AsyncJobs` | threads and locks; it instantiates `TaskScheduler` and takes its actions | `MCAsyncJobs` |
| `EsmLoader` | ES modules, `import()`, EvalScript, CommonJS modules behind an import | `MCEsmLoader` |
| `ModuleSearch` | the search for a file, as operators | through `CjsRequire` |
| `CjsRequire` | `require`, over `ModuleSearch` | `MCCjsRequire` |
| `PluginLifecycle` | lifecycle and function addresses | `MCPluginLifecycle` |
| `PluginImports` | imports of extensions, composed with `PluginLifecycle` | `MCPluginImports` |
| `CrossCall` | calls across the border | `MCCrossCall` |
| `Convert` | integers, characters and arrays of integers | through `ConvertAny` |
| `ConvertAny` | parameters of type `any`, over `Convert` | `MCConvert` |
| `ObjectOwnership` | wrappers of native objects | `MCObjectOwnership` |

Theorems are in modules of their own: `TaskSchedulerProofs`, `AsyncJobsProofs`, `EsmLoaderProofs`, `CjsRequireProofs`, `PluginProofs` (about
`PluginLifecycle` and `PluginImports`), `CrossCallProofs`,
`ConvertProofs` (about `Convert` and `ConvertAny`) and `ObjectOwnershipProofs`; section 4 says what they prove.

Definitions keep the source's names where TLA+ allows it; `map` in `PROJECT.json`
gives the lines that each one stands for. A definition commented `Mutant:` is a plausible mistake
in the definition that follows it: substituted for it, it makes one of the checked
properties fail, which shows that the property depends on that code.

**TaskScheduler.** A task is a record with the fields of `Task` and a serial
number (history). The set is ordered by `Before`, and `Inserted` loses an element
whose key is there, as `std::set` does. AddTask, RemoveTask, RescheduleTask and
Reset lock, work and unlock, so each is one action. Run holds the mutex while it
calls callbacks, so it is four actions: `RunEnter` (lock and sample the clock),
`RunFire` (take the first task, mark it, call it), `RunReturn` (rearm or erase it),
`RunExit`. Between `RunFire` and `RunReturn` the owner of the mutex may take any
other action except Run's and Reset's. History variables record which serials were
cancelled, spent and wiped.

**Timers.** A set of armed timers and the one that is being called; no lock, no
loop, no marks, no ids. `TaskScheduler` defines the mapping: a task that is
executing and has been killed, or is a one-shot, is no longer armed.

**AsyncJobs.** The host's OnUpdate takes the isolate, runs the scheduler and pumps
microtasks; other threads enter scripts; fetch and fs jobs are threads that work,
post a 0 ms task and unwind. Scripts run in calls from native code, in tasks (of
timers and of jobs) and in microtasks, and set and clear timers and start jobs in
all of them. `refs` says who holds a job's JavaScript handle, and `fate` who
destroyed it: the thread with the Locker, a thread without it while nobody or
somebody else has it, or anyone after the isolate was disposed of. Shutdown resets
the scheduler without the Locker, whoever is in a script, and then disposes of the
isolate, which ends the process if a thread is inside; it waits for no job. A task
posted after that Reset stays in the scheduler until the static objects of the
process are destroyed (`StaticDestruction`). curl's failing to initialise ends the
process.

**EsmLoader.** `stack` is the chain of calls: a load (of a main module, or of an
import's task), EvalScript, fetches, and CommonJS bodies called by a fetch. Each
step is a call, the result of one request, a return or an unwinding. Linking and
evaluation follow a fetch; an evaluation ends, throws, or awaits. `import()` makes a
promise, an entry and a task, or joins an entry; scripts may call it wherever code
of theirs runs. Reading a file of `Breakable` may fail at any time, so a file that
failed may be readable later. EvalScript runs microtasks until its promise is
settled: awaits end meanwhile, except those of modules in `Slow`, which need a task
of the scheduler. A promise callback may require, too, when a script has returned or
in EvalScript's loop (`MicrotaskRequires`); in that call the loop's checkpoints do
nothing, as V8 does not run microtasks within microtasks, and no await ends. V8's link and evaluation are external definitions. Abstractions:
the code of ES modules imports and only CommonJS bodies and callbacks require; one
module of a graph begins to await, or throws, per evaluation; an import() of a
name that the search does not find settles at once, as the embedder's resolver
decides (`ImportMiss`); a module that the resolver makes is the embedder's, and its
registration, linking and evaluation are left out.

**ModuleSearch.** A path is the sequence of its parts. `Search` is the first
existing path of the list of candidates that the code tries in order: absolute, the
endings in each directory above the requester, the library, the plugins.
`lexically_normal` is a fold; `Exists` follows POSIX, where `x/..` needs x. Absolute
requests stand for themselves in each directory. Paths are relative or absolute as
the directory they were found from, and the search makes none absolute: the embedder's
requests start at "", the working directory (`Cwd`).

**CjsRequire.** The bodies in execution are a stack. The top one may require a
name, return or throw; functions of modules that were started may call their own
require at any time, and so may the embedder. A name is searched from the directory
of the requester, and caches are kept by name and by path as in the code.
forceReload flags one cached module object, or all of them, in which case it fails
midway at an entry that a failed require left undefined.

**PluginLifecycle.** OnPluginLoad is split where scripts run: begin, generate the
code of the methods, commit or fail. A failure frees the code it generated. Scripts
and native code convert functions to addresses and back in between.

**PluginImports.** An import of a plugin or of another extension fills the three
maps, builds enums and classes from them by name, and moves the handles into the
module. It is one action: scripts run only in bindClassMethods, which calls none of
the importer's code. Where V8 is called with an exception pending, either outcome is
possible. What the last import gave is a history variable.

**CrossCall.** The calls in progress are a stack of frames, each with its phase.
A value is its provenance: argument i of the script, or parameter i of native code.
That is enough to tell a value that lands in the wrong place from one in the right
place; a conversion may fail at any of them, and may run scripts. A parameter that
is a function is converted by reading its `__address`: if that throws,
`FindInternal` drops the failure, the push succeeds, and the exception stays set
while native code runs (`swallowed`). An element of a result array that throws when
it is read ends the process (`ElementThrows`, ToLocalChecked).

**Convert.** One value is handed from native code to a script and back, or starts
in the script. Integers have widths 2, 4 and 8, of which 8 plays 64 bits: it is the
one that travels as BigInt. All operations on them (cast, saturation, truncation)
are defined by the width. Three sets bound what the run tries (`Codes`, `Numbers`,
`Items`); the theorems hold for any.

**ConvertAny.** A value is its type and content, or its JavaScript sort and content.
Numbers are counted in halves, which tells integers from fractions. An array's
element type is found as the code finds it, from the types of all elements. Strings,
vectors and matrices are opaque. The journey is the one of `Convert`.

**ObjectOwnership.** Constructors, close, release, reset, methods with owned or
borrowed parameters, the collector and the finalizer. close and methods call native
code before they are done and are split there; scripts called back in between may
do everything, also with the wrapper that is being closed. The history variable
`owner` says who has to destroy an object. `disputed` has the objects about which
the library lets scripts make two owners: a wrapper was closed or released inside
its own close(), or given away by a wrapper that had only borrowed it (an owned
parameter is released without a look at who owned it). Of handles that are no
object there are two: `Invalid`, which the library compares with and writes, and
`Null`, which native code may return and the comparison does not recognise.

## 3. Runs

Every configuration bounds its instance through CONSTANTs only. Deadlock checking
is off where the system may stop: bounded loaders and lifecycles have nothing to do
when their bounds are used up, and a conversion that throws ends.

| Run | Shows | Bounds, and why they are enough |
|---|---|---|
| SchedulerSafety | The iterator of Run stays valid, no task is lost, equal delays keep their order, cancelled and one-shot tasks do not fire again, a task fires again in a Run only in the instant it was sampled, and the scheduler implements `Timers` | Two threads, three tasks, delays and periods -1, 0, 1, two ticks. Three tasks are the running one, one before and one after it. Callbacks that add timers for ever are beyond the bound of three |
| SchedulerWrap | With two ids for three tasks and a scheduler that is asked to reschedule: tasks share an id, and one is lost for a taken key, only a whole turn of the counter apart; with positive periods Run returns and a due task leaves the set | IdSpace 2 makes two live tasks share an id. A period of zero or less may keep Run going, hence positive periods for liveness; so may a callback that keeps adding timers without delay, which the bound of three tasks excludes |
| AsyncJobs | One thread in the isolate, both locks taken in one order; a handle lives until its task used it, and a job has one task, so it settles once; an fs handle dies under the Locker, unless Shutdown's Reset found its task waiting, and before the isolate, unless the job posted after that Reset; a job settles, while the module is up and each Run returns, in the end | Host, one native caller, one fetch and one fs thread, three tasks: two jobs and a timer of a script, of delay 0 or 1 or an interval of period -1, which keeps Run going. Timers added for ever are beyond the bound |
| FetchHandle | Finding 1 | As AsyncJobs |
| EsmLoader | The recursion visits each module once, through nested loads; registered modules have their requests; what require() answers with has been evaluated, with all it reaches; every pending import has a holder and settles, unless a require() waits for a task, or for anything from a promise callback | a imports the CommonJS x, b and c, b imports a and an extension e, x may require b or c, c awaits a timer; reads of b, e and x may fail; one main module and two imports; thirteen module objects, which these cannot use up |
| EsmHalfBuilt | Finding 2 | As EsmLoader |
| CjsRequire | Every body finds its own module object; slots are given back; a file runs once under an absolute path, and again only under a key that is relative to the working directory; caches agree; a plugin's modules get the plugin's own copy of a dependency; a failure is final | Two plugins, each with a dependency of the same name; files that require each other, and one itself, under seven names, an absolute one among them; a file in the working directory that the embedder and a plugin both require; three module objects, one reload |
| PluginSafety | An address means the function it was given for, for as long as the module is up; an import gives the extension's own functions, enums and classes; a class is whole or the import throws | Two plugins that share an exported function, one exporting it twice, and a native extension with the same names; three loads, of which some fail, two imports; four addresses, so that freed ones come back |
| PluginUpdate | Finding 3 | The plugins of PluginSafety, six addresses, no imports |
| CrossCall | Values keep their places, reference results go to their own parameter, the return slot is filled once, no exception on its way to a script reaches native code, and none at all but the one that FindInternal drops | Depth 3: a call inside a call inside a call, in both directions; signatures that mix registers, functions, cells, references and a hidden return |
| Convert | A value that native code hands over and gets back is unchanged or rejected; a script's value arrives as it is, arrays element by element, and only integers beyond their type are cut off; an `any` keeps its value, or is rejected | Every value of widths 2, 4 and 8 (4 plays int32_t), all 65536 char16_t codes, arrays of up to two elements at the bounds of the types, typed arrays among them, `any` at the bounds of every type; scripts pass every integer from -258 to 258 |
| Ownership | An object is destroyed twice only after a dispute; an undisputed one is registered for its one wrapper and, once given away, left alone; a wrapper that owns its object passes native code none that was destroyed | Three wrappers, two objects, calls two deep, so that a wrapper is closed, released, used and given away inside its own close() |

Modules with a state machine have a TypeOK that documents their state. All are proved
(section 4), as is IdsUnique of TaskScheduler (ids name tasks until the counter wraps); the runs spend their time
on the properties above, and any TypeOK, which holds on the same instances, can be
added to the configurations.

### Fairness

* `TaskScheduler`: weak fairness of entering Run and of Run's steps. The module
  reports `hasUpdate`, so the host calls OnUpdate on each tick; Run is sequential
  code; callbacks are assumed to return. Nothing makes scripts or the clock move.
* `AsyncJobs`: weak fairness of the host's steps inside an update, of a thread
  leaving a script and of a job's work; strong fairness of the host's taking the
  isolate and of a job's taking the scheduler's mutex, both of which other threads
  compete for. All of them only while the process is alive.
* `EsmLoader`: weak fairness of the disjunction of the loading steps, the import
  tasks and the ends of top-level awaits. The thread that has the isolate does not
  stop (sequential code), the scheduler runs queued tasks on each tick, and what an
  await waits for happens. While EvalScript spins, tasks do not run, nor does
  anything if it was called from a microtask: these exceptions are in the property
  (`Stuck`), not in the fairness.

Safety runs of the other modules assume no fairness.

## 4. Proofs

TLC checks the instances of section 3; the theorems hold for every value of the
constants that the modules' assumptions allow (`SchedulerConstants`,
`AsyncConstants`, `EsmConstants`, `CjsConstants` with `SearchConstants`,
`LifecycleConstants`, `ImportConstants`, `CrossCallConstants`, `ConvertConstants`
with `CodesAreUnits`, `AnyConstants` and `RejectIsApart`, `OwnershipConstants`; TLC evaluates each of them in the runs). The assumptions give
the constants their types, keep values that mark "nothing" apart from real ones, and
say two things of the files and manifests: `Dirs` has the directory of each file that
can be found from it (`CjsConstants`; for any tree there is such a set), and an
extension's methods are named without repetition (`ImportConstants`).

| Proofs module | Theorem | States |
|---|---|---|
| `TaskSchedulerProofs` | `TypeCorrect`, `IteratorStaysValid`, `WrapAloneMixesTasks`, `IdsStayUnique`, `NothingLost` | TypeOK, IteratorValid, OnlyWrapMixesTasks, IdsUnique, Accounted |
| | `RemovedStaysRemoved`, `OneShotOnce`, `NoRefireLater` | RemovedNeverFires, OneShotFiresOnce, RefiresOnlyInSameInstant |
| | `EqualDelaysInOrder` | SameDelayInOrder, when nothing is rescheduled |
| | `SchedulerImplementsTimers` | ImplementsTimers, when no more tasks are made than there are ids |
| `AsyncJobsProofs` | `UsesScheduler` | every behaviour of AsyncJobs is one of TaskScheduler |
| | `TypeCorrect`, `IsolateIsExclusive`, `HandlesOutliveTasks`, `FsHandlesReleasedSafely` | TypeOK, OneThreadInIsolate, HandleOutlivesTask, FsHandleReleasedSafely |
| `EsmLoaderProofs` | `TypeCorrect`, `ImportsAreNotLost`, `FetchesAreDistinct`, `RegisteredModulesAreWhole` | TypeOK, NoOrphanImport, CallsAreDistinct, RegisteredIsComplete |
| | `LinkInvariant`, `RequiredModulesAreEvaluated` | RequiredIsEvaluated |
| `CjsRequireProofs` | `TypeCorrect`, `SidsNameModules`, `LocalCachesAgree`, `FailuresStay` | TypeOK, SidNamesModule, LocalAgrees, FailureIsFinal |
| | `PathsExecutedOnce`, `OneKeyPerAbsolutePath` | one module object per path; ExecutedOnce |
| | `CopiesAreOwn` | OwnCopy |
| `PluginProofs` | `TypeCorrect`, `FunctionsKeepIdentity`, `NativeCallsArrive` | TypeOK, RoundTrip, NativeCallsRightFunction |
| | `ImportsImplementPlugins` | PluginImports implements PluginLifecycle, and keeps RoundTrip and NativeCallsRightFunction |
| | `ImportsTypeCorrect`, `ImportsGiveTheirOwn`, `ClassesAreWhole` | ImportsTypeOK, ImportsAreOwn, ClassWholeOrThrows |
| `CrossCallProofs` | `TypeCorrect`, `EachParameterItsOwn`, `ScriptGetsAllRefs`, `SlotFilledOnce`, `RefsAreTheirOwn`, `NativeCodeSeesNoException` | TypeOK, ParametersAreOwn, ScriptGetsRefs, ReturnSetOnce, RefsKeepOrTake, NoStrayException |
| `ConvertProofs` | `ReceivedHasType` | TypeOK of Convert; type `any` is not one of its types |
| | `EchoIsKept`, `ScriptValueIsKept`, `AnyIsKept` | EchoKept, ScriptValueKept, AnyKept |
| `ObjectOwnershipProofs` | `TypeCorrect`, `NeverDestroyedTwice`, `OneOwner`, `NothingTakenBack`, `NoUseAfterDestroy` | TypeOK, DestroyedOnce, OwnedOnce, GivenAwayIsSafe, OwnersPassLiving |

Each module but `ConvertProofs` also has a theorem `Invariant`, `Spec => []IndInv`. Hardly any of the
properties is inductive; what `IndInv` adds in each module, and why:

**TaskScheduler.** That a removed task does not fire depends on `kill` being set
exactly for the cancelled tasks that are still in the set; that the iterator is
valid depends on serials identifying tasks; that an id names one task depends on ids
being serials modulo the size of the counter, so that tasks with equal ids are a
whole turn apart (`WrapAloneMixesTasks`); that no task is lost before it wraps
depends on fresh ids giving fresh keys, so that an insertion succeeds. There is a lemma per action
(entering and leaving Run and the clock share one), with a step for each conjunct
that the action can disturb. `EqualDelaysInOrder` needs one fact more: no task is
due later than its delay from now, because the clock does not go back. Rescheduling
breaks the order by design, hence `NewDelays = {}`; no code of the repository calls
RescheduleTask.

**Timers.** Each action of the scheduler has a lemma that names its action of
`Timers` (RunEnter and RunExit are stuttering; so is removing a one-shot that is
being called). That ids do not wrap is needed: after 2^32 tasks an insertion may be
lost, which `Timers` does not allow.

**AsyncJobs.** `UsesScheduler` maps each step to a step of the scheduler with the
threads of this module, or to a stutter, so that the scheduler's invariant can be
used as it stands. On top of it: who is inside the isolate or in Run (`LocksOK`),
that a job has at most one task and it does not repeat (`ClosuresOK`), and that the
position of a job's thread tells what there is of its task, its result, its handles
and their fate (`JobsOK`).

**EsmLoader.** What holds of the tables of modules depends on the chain of calls and
the other way round (`TreeOK`): each call of the chain is for the request that the
call below is at (`Invokes`), each fetch is of the module that `_pathToModule` has
and has an answer to each of its requests so far (`FetchOK`), and every registered
module outside the chain has all of them (`Complete`). This is stated of any chain
and any tables, with a lemma for each way in which they change: entering and leaving
a call, leaving or unwinding a fetch, answering a request, making a module. `Queued`
ties the import table to the queue and `Promised` says who holds a pending import;
the latter needs that evaluation changes no module that is pending
(`EvaluatedKeeps`), and that the end of an await settles what is attached to the
whole cycle.

That require() never answers with a module that is still being put together needs a
second invariant, `LinkInv`, in four parts. `Graph`: what a linked module requests is
linked too, below an evaluated one everything is evaluated, and below one that awaits
everything has been evaluated or awaits. `Answers`: a module that is being fetched is
not linked; the request it waits for has no answer, so that linking, which asks for
every request, stops in front of it; and its answers so far stay registered, because
a call above it that fails unregisters its own module, which is none of them. `Roots`: LoadModule and
EvalScript work on the module that is registered for their path. `Finished`: what
require() has answered with is evaluated. `Graph` speaks of single requests, the
property of all that a module reaches. The two meet in `ReachFacts`: as every round of
`Reach` but the last finds a module that is new, `made` rounds find all of them, and
what is reached is the least set that is closed under requests. Trying to prove this
showed that an earlier model of V8's Evaluate was wrong: when a module throws, those
that had no turn yet stay linked (`ran` in `Evaluated`), and are evaluated when a
later import comes to them.

**CjsRequire.** Module objects are numbered in order; both caches name objects of
the file that is looked up (`CacheNamesFiles`, `LocalNamesFiles`); no slot is
shared, and each executing body has one (`SlotsApart`, `StackInSlots`); until the
first reload a path has one object (`BeforeReloads`). Most of the
proofs use nothing of the search but that it is a function of directory and name.
ExecutedOnce speaks of files, that is of absolute normalised paths, and its keys are
normalised only: `SearchIsNormal` says that what the search
returns is a path that `lexically_normal` does not change. It rests on what a path
looks like while its parts are taken up one by one (`NormalStepKeepsForm`): there is
no "." in it, and a ".." only at its beginning or after another. OwnCopy needs that the directory of the
requester comes first among the candidates (`SearchPrefersDir`).

**PluginLifecycle, PluginImports.** `_externalMap` has an address only if the code
there calls the function in the map; the code that a running load has made is its
own and in no map, so that failing frees nothing that anyone uses; the methods that
the host has been given are in the map (`MapHasCode`, `HoldersArePrivate`,
`MethodsAreMapped`). Steps of PluginImports are steps of PluginLifecycle or leave
its variables alone. For the classes: after clear() and the fills, a name has the
handle of the extension being imported or none.

**CrossCall.** A frame is described phase by phase: the parameters pushed so far
are in registers or in cells of their own behind the hidden return
(`ParametersApart`), the noted indices are the cells of the reference parameters in
their order (`IndicesNoted`), an exception is pending only on its way to a
script (`Nested`), and a call that swallowed one has a function among its
parameters. The arithmetic rests on lemmas about `Ordinal`, the number of
reference parameters up to a position: it grows by one at each of them, and so
numbers them 1, 2, ... without gaps. `ArgsScope` bounds the number of parameters,
nothing in the proof bounds the depth of calls but `MaxDepth`, which is arbitrary.

**Convert, ConvertAny.** Nothing bounds how often a value goes there and back, so the
invariant says what it is each time (`ConvertInv`): in native code the first value
that native code had, in a script what that value becomes there, or what the script
started with. That this is kept is one lemma per type, that the two conversions
undo each other (`IntegerEcho`, `CharEcho`, `Char16Echo`,
`ListEcho`). For integers it is arithmetic
modulo powers of two, whose exponents are constants: `Pow2Equations` shows that the
recursive function `Pow2` has the equations it is written with, by induction over a
set of numbers, and `Pow2Grows` is all that the ranges need of it. For characters it
is arithmetic with 64 and 4096 on the bytes of UTF-8: those of a unit read as the
unit (`UnitArrives`), a lone surrogate is rejected when it is handed over, and the
replacement of a byte that is not ASCII when it comes back. Arrays follow
element by element. For `any` the value does not come back as it was, for its type
may change. The invariant (`AnyInv`) says that it still has the content of the start,
which is transitive (`ContentTransitive`), and that what came through once is never
rejected later: after one journey a value is neither a matrix nor an array whose elements
a script sees as different types (`AnyEcho`).

**ObjectOwnership.** The registry cell of a wrapper ties the state together: it is
set only while the wrapper owns its handle (`CellIsOwned`), no two wrappers have the
same undisputed object (`CellsDiffer`), and every undisputed object that a wrapper
has to destroy is in one (`OwnerHasCell`), destroyed already if its close() is under
way. A wrapper that scripts can reach has its object in its cell (`OwnedHasCell`), so
that an owner never passes on what was destroyed. About disputed objects the
invariant says no more than that cell, handle and owned agree, which is why a dispute
about one object does not spread to another.

Only model-checked:

* liveness (RunEnds, DueTaskLeaves, JobSettles, ImportSettles): fairness and
  ENABLED are out of the prover's reach;
* the three findings, which are counterexamples.

## 5. Where code and documentation disagree

1. **fetch releases a V8 handle without the Locker** (run FetchHandle,
   `src/builtin/fetch.hpp:190`). The detached thread keeps copies of the callbacks,
   and with them the promise resolver's `v8::Global`, until its lambda is destroyed.
   When the posted task has run by then, the handle is destroyed on that thread,
   possibly while another thread is in the isolate. `v8/include/v8-locker.h:19-22`
   counts accessing handles as using the isolate, which one thread at a time may do.
2. **A half-built module stays registered** (run EsmHalfBuilt,
   `src/module.cpp:4697`). In a cycle, a module fetched completely before another
   one fails stays in `_pathToModule` and points at a module that was thrown away;
   later imports of it fail. The comment at `src/module.cpp:4602-4604` says that a
   failure unregisters what is half-built.
3. **OnPluginUpdate runs pluginEnd** (run PluginUpdate, `src/module.cpp:3676`). The
   README's plugin has a `pluginUpdate` hook (`README.md:147-149`), which is never
   called.

Met while modelling and visible in the models, without a run of their own:

* `IsInRange<T, U = T>` is called with one type after the cast, so it is always
  true: "Overflow error" cannot be thrown, integers that do not fit are cut off
  (`src/module.cpp:375-376, 597, 600`), and a Number from 2^63 on saturates when the
  type is uint64_t. `Convert` has it so (`IsInRange`, `IntegerValue`).
* LoadModule returns a main module whose evaluation threw (`src/module.cpp:4183`,
  against its comment at 4134-4139); `EsmLoader` reaches main[p] = "errored".
* A lone surrogate in a string of a script arrives as U+FFFD; native code's lone
  surrogate has no JavaScript form.
* close() calls the destructor before it clears the handle
  (`lib/plugify.mjs:493-499`): a destructor whose native code calls a script that
  closes the wrapper again destroys the object twice, and one that releases it gives
  away a destroyed object. An owned parameter is released whether or not the wrapper
  owned its object (566-568). Both make an object `disputed` in `ObjectOwnership`.
* An explicit invalid value is a BigInt (`src/module.cpp:3815`), and handles of the 8
  to 32 bit integer types are Numbers, which `===` never takes for equal
  (`lib/plugify.mjs:420, 492, 526, 546, 593`). An invalid handle that native code
  returns is then wrapped, registered, passed to methods and given to the destructor
  like an object; `ObjectOwnership` has it as `Null`. obj.method(obj) with an owned
  parameter passes invalidValue as the object of the method (593-598).
* FindInternal drops the exception of a throwing `__address`
  (`src/module.cpp:3720-3726`, tested at 3182 by its result only), so that native code is called
  with it set; an element that throws when InternalCall reads the array a script
  returned (2437, 2449) ends the process in ToLocalChecked.
* Shutdown destroys the handles of waiting tasks without the Locker, beside scripts of
  other threads (`src/module.cpp:3410`); a job may post its task after Shutdown, whose
  handle then outlives the isolate; and curl failing to initialise ends the process
  (`fate` and `CurlInitFails` in `AsyncJobs`).
* setInterval takes any period and setTimeout any delay (`src/builtin/timers.hpp:13,
  56`). An interval of negative period is due again at once, and Run does not return
  (`src/task_scheduler.cpp:47-63`); so it is for a period of zero as long as the clock
  shows the instant that Run sampled, since tasks are armed from the clock.
* A require() of an ES module whose top-level await needs a timer, a fetch or an
  import() blocks the host's thread for ever, and in a promise callback so does one
  with any top-level await: the checkpoint at `src/module.cpp:4250` does nothing
  while microtasks run (`Stuck` in `EsmLoader`).
* SearchModule makes no path absolute (`src/module.cpp:4281-4289`): the embedder and a
  plugin may have two module objects of one file in the working directory.
* `ModuleSearch` has the search as it is: requests without a slash made in a
  subdirectory of a plugin are looked for from the top down, the shallowest
  directory first; a directory satisfies fs::exists; plugins are searched in the
  unspecified order of directory_iterator. Requests of the embedder, and CommonJS
  modules behind an import unless they end in .cjs (`src/module.cpp:4677`), go
  through the root require, so that two plugins may share one copy: `OwnCopy` is
  stated for requires of a plugin's own modules only.
* The same .js file is an ES module when imported and CommonJS when required;
  forceReload does not evaluate ES modules again.
* classRegistry is keyed by the bare class name (`lib/plugify.mjs:404`), so the last
  import of a class wins for all. A class with a static method named like a
  read-only property of functions is lost without an error. A method for
  which the JIT makes no callback ends the loop over an extension's methods without an
  error, and those after it are missing too.
  External wrappers carry no `__address`, so handing one to native code makes new
  code for it.
* An `any` that holds a double without a fraction comes back as int32_t, one that
  holds a uint64_t or a pointer as int64_t; arrays that mix integers and fractions,
  or int32_t and larger ones, throw; a single Matrix4x4 throws although arrays of
  them work. `AnyKept` allows the change of type and asks for the value.
* "querystring" is bound to path::Init (`src/module.cpp:3315`); `_failedPromises` is
  read and never filled; Initialize stores `this` in the last data slot of the
  isolate and Shutdown clears slot 0 (3280, 3440).

## 6. Not modelled

* What individual fs and fetch operations do to files and sockets, and synchronous
  fs, path, os, process, console, assert, dls and gc: input and output, or thin
  layers over the standard library without state. `AsyncJobs` has the threads around
  them. The built-ins whose Init is a TODO.
* Modules that the embedder's resolver supplies (`src/module.cpp:4405-4429`).
* An `__address` that a function inherits, or that a proxy answers:
  `PluginLifecycle` has only the property that the module itself sets, though
  FindInternal reads it with Get.
* Rounding to float and minus zero in the conversions; character types inside `any`
  (they become strings); the contents of strings, vectors and matrices.
* The prototypes of functions in the address registry, and the lookup in globalThis
  with which `plugify.mjs` wraps returned handles of classes not yet registered.
* Initialisation of the isolate: straight-line code that runs once, before anything
  else can. Fallback returns of a failed call by type: a table.
* `generator/`, which runs before the program, and the tests.
* V8 itself: its promises, modules, locks and collector are external definitions,
  modelled from how the code uses them.

## 7. Plan

Done, in this order: scheduler with its abstract specification; threads; loaders;
lifecycle and addresses; calls; conversions; ownership; the scheduler's theorems;
the module search under `require`; CommonJS and extensions in the ES loader, with
EvalScript; imports of extensions; `any`; the theorems of all state machines, up to those of
linking, of the search and of the conversions.

To be added:

1. Prototypes in `PluginLifecycle`: a callback that was compiled for one prototype
   and handed out for another.
2. The `path` built-in as a pure algorithm, against `lexically_normal`.
