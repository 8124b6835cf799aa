----------------------------- MODULE CjsRequire -----------------------------
(***************************************************************************)
(* require() as lib/pps.js implements it: the global moduleCache, one      *)
(* local cache per require function (each module body gets its own), the   *)
(* tmpModuleStorage through which executeModule finds its module object,   *)
(* and pps.forceReload.                                                    *)
(*                                                                         *)
(* The bodies that are executing form `stack'; the top one may require a   *)
(* file, finish or throw.  An exception that reaches a body may be caught  *)
(* there, so a failed require simply returns to it.  Functions of loaded   *)
(* modules may call their module's require at any time.                    *)
(*                                                                         *)
(* Local caches are keyed by the name in the request, moduleCache by the   *)
(* path that searchModule finds for it from the requiring directory        *)
(* (ModuleSearch).  Built-in modules are returned before any of this state *)
(* is touched, and a JSON or package.json file is a body that sets its     *)
(* exports.                                                                *)
(***************************************************************************)
EXTENDS ModuleSearch, FiniteSets

CONSTANTS
    Names,       \* the requests that are made
    Deps,        \* Deps[f]: the names that the code in file f requires
    RootDeps,    \* names required through Root
    Dirs,        \* directories that requires are made from
    Root,        \* the require function of the embedder and of ES modules,
                 \* pps.__require
    Absent,      \* the key is not in the cache
    Undefined,   \* the key is in the cache, its value is undefined
    MaxObjs,     \* bound: module objects created
    MaxReloads   \* bound: calls of forceReload

Objs == 1 .. MaxObjs
Requirers == {Root} \union Objs

\* normalize: a leading "./" is dropped.
Normalized(n) == IF Head(n.parts) = "." THEN [n EXCEPT !.parts = Tail(@)] ELSE n
Keys == {Normalized(n) : n \in Names}

\* The directory that executeModule takes from a path, as text: it is empty
\* for a file at the root, as for one in the working directory.
DirOf(path) ==
    LET dir == SubSeq(path, 1, Len(path) - 2) IN IF dir = <<"/">> THEN <<>> ELSE dir

\* What searchModule finds for each name from each directory.
Located == [d \in Dirs |-> [n \in Keys |-> Search(d, n)]]
Files == {Located[d][n] : d \in Dirs, n \in Keys} \ {NotFound}
Cached == Objs \union {Absent, Undefined}

\* Dirs has the directories of all the files that can be found from it.
ASSUME CjsConstants ==
    /\ Names \subseteq [parts : Seq(STRING) \ {<<>>}, ext : Seq(STRING)]
    /\ Dirs \subseteq Seq(STRING)
    /\ Deps \in [Files -> SUBSET Names]
    /\ RootDeps \subseteq Names
    /\ <<>> \in Dirs /\ \A f \in Files : DirOf(f) \in Dirs
    /\ MaxObjs \in Nat
    /\ MaxReloads \in Nat
    /\ {Root, Absent, Undefined} \intersect Objs = {}
    /\ Absent \notin Files \union {Undefined}

VARIABLES
    moduleCache,       \* value of each path
    keys,              \* the keys of moduleCache, in the order of for-in
    localModuleCache,  \* the local cache of each require function
    made,              \* module objects created so far
    file,              \* the file of each module object
    body,              \* "none", "running", "done", "threw", "unread"
    flag,              \* __forceReload of each module object
    slots,             \* tmpModuleStorage
    stack,             \* executing bodies: module object, its sid, who required it
    reloads            \* history: calls of forceReload

vars == <<moduleCache, keys, localModuleCache, made, file, body, flag, slots, stack, reloads>>

Init ==
    /\ moduleCache = [f \in Files |-> Absent]
    /\ keys = <<>>
    /\ localModuleCache = [c \in Requirers |-> [n \in Keys |-> Absent]]
    /\ made = 0
    /\ file = [o \in Objs |-> Absent]
    /\ body = [o \in Objs |-> "none"]
    /\ flag = [o \in Objs |-> FALSE]
    /\ slots = <<>>
    /\ stack = <<>>
    /\ reloads = 0

----------------------------------------------------------------------------
\* Mutant: the slot is not looked at.
SidFirst == 1

\* addModule: the first falsy slot, else a new one.
Sid ==
    IF \E i \in DOMAIN slots : slots[i] = Undefined
    THEN CHOOSE i \in DOMAIN slots :
           slots[i] = Undefined /\ \A k \in 1 .. i - 1 : slots[k] # Undefined
    ELSE Len(slots) + 1

WithSlot(sid, v) ==
    IF sid \in DOMAIN slots THEN [slots EXCEPT ![sid] = v] ELSE Append(slots, v)

\* Require function c runs in code that requires name n.
May(c, n) ==
    \/ c = Root /\ n \in {Normalized(k) : k \in RootDeps}
    \/ c \in Objs /\ body[c] \in {"running", "done", "threw"}
         /\ n \in {Normalized(k) : k \in Deps[file[c]]}

\* The path for a name, from the directory of the requiring file.
Find(c, n) == Located[IF c = Root THEN <<>> ELSE DirOf(file[c])][n]

\* The entry of the local cache decides alone: it is in the cache, and either
\* undefined (reading its flag throws a TypeError) or not to be reloaded.
LocalDecides(c, n) ==
    LET v == localModuleCache[c][n] IN
      \/ v = Undefined
      \/ v \in Objs /\ ~ flag[v]

\* ... or it is there and flagged.
MustReload(c, n) ==
    LET v == localModuleCache[c][n] IN v \in Objs /\ flag[v]

\* Found in moduleCache: the local cache takes its value over, which may be
\* undefined (reading its exports throws a TypeError).  A name that is not
\* found throws and changes nothing.
RequireCached(c, n) ==
    /\ May(c, n)
    /\ ~ LocalDecides(c, n)
    /\ ~ MustReload(c, n)
    /\ Find(c, n) # NotFound
    /\ moduleCache[Find(c, n)] # Absent
    /\ localModuleCache' = [localModuleCache EXCEPT ![c][n] = moduleCache[Find(c, n)]]
    /\ UNCHANGED <<moduleCache, keys, made, file, body, flag, slots, stack, reloads>>

\* Mutant: moduleCache is not filled.
NewModuleLocalOnly(c, n, state) ==
    LET m == made + 1  f == Find(c, n) IN
      /\ May(c, n)
      /\ ~ LocalDecides(c, n)
      /\ f # NotFound
      /\ moduleCache[f] = Absent \/ MustReload(c, n)
      /\ made < MaxObjs
      /\ made' = m
      /\ file' = [file EXCEPT ![m] = f]
      /\ body' = [body EXCEPT ![m] = state]
      /\ localModuleCache' = [localModuleCache EXCEPT ![c][n] = m]
      /\ slots' = WithSlot(Sid, m)
      /\ UNCHANGED <<moduleCache, keys>>

\* A new module object goes into both caches and into a slot before its
\* source is read.
NewModule(c, n, state) ==
    LET m == made + 1  f == Find(c, n) IN
      /\ May(c, n)
      /\ ~ LocalDecides(c, n)
      /\ f # NotFound
      /\ moduleCache[f] = Absent \/ MustReload(c, n)
      /\ made < MaxObjs
      /\ made' = m
      /\ file' = [file EXCEPT ![m] = f]
      /\ body' = [body EXCEPT ![m] = state]
      /\ localModuleCache' = [localModuleCache EXCEPT ![c][n] = m]
      /\ moduleCache' = [moduleCache EXCEPT ![f] = m]
      /\ keys' = IF moduleCache[f] = Absent THEN Append(keys, f) ELSE keys
      /\ slots' = WithSlot(Sid, m)

\* The source is read and the body starts.
RequireStart(c, n) ==
    /\ NewModule(c, n, "running")
    /\ stack' = Append(stack, [obj |-> made + 1, sid |-> Sid, caller |-> c, name |-> n])
    /\ UNCHANGED <<flag, reloads>>

\* loadModule throws; it is called before the try, so nothing is undone.
RequireUnreadable(c, n) ==
    /\ NewModule(c, n, "unread")
    /\ UNCHANGED <<flag, stack, reloads>>

----------------------------------------------------------------------------
Top == Last(stack)

\* finally: the slot is freed.
Leave ==
    /\ slots' = WithSlot(Top.sid, Undefined)
    /\ stack' = Front(stack)

\* The body runs to its end.
Finish ==
    /\ stack # <<>>
    /\ body' = [body EXCEPT ![Top.obj] = "done"]
    /\ Leave
    /\ UNCHANGED <<moduleCache, keys, localModuleCache, made, file, flag, reloads>>

\* Mutant: the keys are deleted from both caches.
ThrowForgets ==
    /\ stack # <<>>
    /\ body' = [body EXCEPT ![Top.obj] = "threw"]
    /\ localModuleCache' = [localModuleCache EXCEPT ![Top.caller][Top.name] = Absent]
    /\ moduleCache' = [moduleCache EXCEPT ![file[Top.obj]] = Absent]
    /\ Leave
    /\ UNCHANGED <<keys, made, file, flag, reloads>>

\* The body throws: both caches keep the key, with undefined.
Throw ==
    /\ stack # <<>>
    /\ body' = [body EXCEPT ![Top.obj] = "threw"]
    /\ localModuleCache' = [localModuleCache EXCEPT ![Top.caller][Top.name] = Undefined]
    /\ moduleCache' = [moduleCache EXCEPT ![file[Top.obj]] = Undefined]
    /\ Leave
    /\ UNCHANGED <<keys, made, file, flag, reloads>>

\* forceReload(key): the flag goes on the module object of that key (an
\* undefined entry throws, an unknown key only warns).
ForceReload(f) ==
    /\ reloads < MaxReloads
    /\ reloads' = reloads + 1
    /\ moduleCache[f] \in Objs
    /\ flag' = [flag EXCEPT ![moduleCache[f]] = TRUE]
    /\ UNCHANGED <<moduleCache, keys, localModuleCache, made, file, body, slots, stack>>

\* forceReload(): the loop over the keys stops with a TypeError at the first
\* entry that is undefined.
ForceReloadAll ==
    /\ reloads < MaxReloads
    /\ reloads' = reloads + 1
    /\ LET reached == {i \in DOMAIN keys : \A k \in 1 .. i : moduleCache[keys[k]] # Undefined}
           hit == {moduleCache[keys[i]] : i \in reached}
       IN  flag' = [o \in Objs |-> flag[o] \/ o \in hit]
    /\ UNCHANGED <<moduleCache, keys, localModuleCache, made, file, body, slots, stack>>

Next ==
    \/ \E c \in Requirers, n \in Keys :
         RequireCached(c, n) \/ RequireStart(c, n) \/ RequireUnreadable(c, n)
    \/ Finish \/ Throw
    \/ \E f \in Files : ForceReload(f)
    \/ ForceReloadAll

Spec == Init /\ [][Next]_vars

----------------------------------------------------------------------------
TypeOK ==
    /\ moduleCache \in [Files -> Cached]
    /\ keys \in Seq(Files)
    /\ localModuleCache \in [Requirers -> [Keys -> Cached]]
    /\ made \in 0 .. MaxObjs
    /\ file \in [Objs -> Files \union {Absent}]
    /\ body \in [Objs -> {"none", "running", "done", "threw", "unread"}]
    /\ flag \in [Objs -> BOOLEAN]
    /\ slots \in Seq(Objs \union {Undefined})
    /\ stack \in Seq([obj : Objs, sid : Nat, caller : Requirers, name : Keys])
    /\ reloads \in 0 .. MaxReloads

\* getModuleBySID(sid) gives each executing body its own module object, in
\* spite of the slots that nested requires, exceptions and unreadable files
\* free, reuse and leak; and only the module objects of executing bodies and
\* of files that could not be read stay in tmpModuleStorage.
SidNamesModule ==
    /\ \A i \in DOMAIN stack : slots[stack[i].sid] = stack[i].obj
    /\ \A i \in DOMAIN slots :
         slots[i] # Undefined => body[slots[i]] \in {"running", "unread"}

\* Until forceReload is used, a file is executed at most once under the
\* absolute path that searchModule gives, however many modules require it and
\* under whatever names ("d", "../m/d", "d.js", "/p/m/d"), whatever the cycles
\* and whatever throws; in a cycle the inner require gets the module object
\* that is still being filled.  A file is executed again only under another
\* key, and one of the two keys is then relative to the working directory: the
\* search makes no path absolute, so what the embedder's require finds in the
\* working directory is not the module that a plugin finds there.
ExecutedOnce ==
    reloads = 0 =>
        \A o, p \in 1 .. made :
            o # p /\ Full(file[o]) = Full(file[p]) =>
                /\ file[o] # file[p]
                /\ ~ Rooted(file[o]) \/ ~ Rooted(file[p])

\* Every require function that has a name agrees with moduleCache on the module
\* object of the file that the name means in its directory, until forceReload
\* is used or the file's body throws.
LocalAgrees ==
    \A c \in Requirers, n \in Keys :
        LET o == localModuleCache[c][n] IN
        o \in Objs =>
            /\ file[o] = Find(c, n)
            /\ reloads = 0 => moduleCache[Find(c, n)] \in {o, Undefined}

\* A plugin's own copy of a dependency: code that lies beside a node_modules
\* directory which has the name, and requires it from there, never gets the copy
\* of another plugin, although both were found under one name.
OwnCopy ==
    \A c \in Objs, n \in Keys :
        LET o == localModuleCache[c][n]
            own == SearchModuleInDir(DirOf(file[c]), n)
        IN  o \in Objs /\ own # NotFound => file[o] = own

\* A file whose body threw is not tried again, by any require function and in
\* spite of forced reloads of other files: no new module object is made for it,
\* unless forceReload has flagged an earlier one of its objects.
FailureIsFinal ==
    [][\A f \in Files :
         LET objs == {o \in Objs : file[o] = f} IN
           (\E o \in objs : body[o] = "threw") /\ (\A o \in objs : ~ flag[o])
             => {o \in Objs : file'[o] = f} = objs]_vars
=============================================================================
