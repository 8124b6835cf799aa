--------------------------- MODULE PluginLifecycle ---------------------------
(***************************************************************************)
(* A plugin's life in the language module (src/module.cpp: OnPluginLoad,   *)
(* OnPluginStart, OnPluginUpdate, OnPluginEnd, Shutdown) and the registry  *)
(* of function addresses that it shares with cross-language calls          *)
(* (AddToFunctionsMap, FindExternal, FindInternal,                         *)
(* GetOrCreateFunctionValue, GetOrCreateFunctionObject).                   *)
(*                                                                         *)
(* An address is a native function of another plugin or JIT code that      *)
(* calls a JavaScript function.  The JIT hands out any address that no     *)
(* live code occupies, so addresses freed by a load that fails come back.  *)
(* A JavaScript function has at most one address, its property __address.  *)
(*                                                                         *)
(* OnPluginLoad runs scripts: the main module and the constructor before   *)
(* it generates code for the exported methods, getters of the hooks after. *)
(* It is split there (LoadBegin, LoadGenerate, then LoadCommit or          *)
(* LoadFails), and scripts convert functions between the steps.            *)
(***************************************************************************)
EXTENDS Naturals, Sequences, FiniteSets, Functions

CONSTANTS
    Plugins,
    Functions,     \* JavaScript functions of the plugins
    Exports,       \* Exports[p]: the functions named by p's methods, in order
    Hooks,         \* Hooks[p]: the hook functions p's class defines
    Natives,       \* addresses of other plugins' native functions
    JitSpace,      \* addresses the JIT can place code at
    None,
    MaxLoads       \* bound: calls of OnPluginLoad

HookNames == {"pluginStart", "pluginUpdate", "pluginEnd"}

ASSUME LifecycleConstants ==
    /\ Exports \in [Plugins -> Seq(Functions)]
    /\ Hooks \in [Plugins -> SUBSET HookNames]
    /\ \A p \in Plugins : Hooks[p] # None
    /\ Natives \intersect JitSpace = {}
    /\ None \notin Plugins \union Functions \union Natives \union JitSpace
    /\ MaxLoads \in Nat

\* The function object that wraps a native address is named by the address.
Objects == Functions \union Natives
Addresses == Natives \union JitSpace

VARIABLES
    life,          \* "up", "down" after Shutdown, "crashed"
    loading,       \* the plugin inside OnPluginLoad
    holders,       \* its methodsHolders: the address of each export, or None
    loads,         \* calls of OnPluginLoad so far
    pluginsMap,    \* _pluginsMap: the hooks found, or None
    stage,         \* the host's view of a plugin
    methods,       \* LoadData::methods as the host keeps it: the addresses
    externalMap,   \* _externalMap
    address,       \* __address of each function object
    code,          \* what the JIT code at each address calls, None if freed
    jsMethods,     \* addresses held by _jsMethods
    given,         \* history: address and function of each conversion
    ran            \* history: plugin, host's call and hook that ran in it

registry == <<externalMap, address, code, jsMethods, given>>
vars == <<life, loading, holders, loads, pluginsMap, stage, methods, registry, ran>>

Init ==
    /\ life = "up"
    /\ loading = None
    /\ holders = None
    /\ loads = 0
    /\ pluginsMap = [p \in Plugins |-> None]
    /\ stage = [p \in Plugins |-> "new"]
    /\ methods = [p \in Plugins |-> <<>>]
    /\ externalMap = [a \in Addresses |-> None]
    /\ address = [f \in Objects |-> None]
    /\ code = [a \in JitSpace |-> None]
    /\ jsMethods = {}
    /\ given = {}
    /\ ran = {}

----------------------------------------------------------------------------
FindExternal(a) == externalMap[a]

FindInternal(f) == address[f]

\* Addresses where the JIT can place new code.
Vacant == {a \in JitSpace : code[a] = None}

\* emplace: an entry that is there already stays.
Emplaced(map, a, f) == IF map[a] = None THEN [map EXCEPT ![a] = f] ELSE map

\* Mutant: the function is told its address, the map is not.
AddressOnly(a, f) ==
    /\ UNCHANGED externalMap
    /\ address' = [address EXCEPT ![f] = a]

\* Set("__address") overwrites.
AddToFunctionsMap(a, f) ==
    /\ externalMap' = Emplaced(externalMap, a, f)
    /\ address' = [address EXCEPT ![f] = a]

\* Mutant: the code goes with the local JitCallback.
ForgottenCode(a, f) == code

\* _internalFunctions keeps the code of a callback.
KeptCode(a, f) == [code EXCEPT ![a] = f]

\* A function is passed to native code: its address, or that of new JIT code.
GetOrCreateFunctionValue(f) ==
    /\ life = "up"
    /\ \/ /\ FindInternal(f) # None
          /\ given' = given \union {<<FindInternal(f), f>>}
          /\ UNCHANGED <<externalMap, address, code>>
       \/ /\ FindInternal(f) = None
          /\ \E a \in Vacant :
               /\ code' = KeptCode(a, f)
               /\ AddToFunctionsMap(a, f)
               /\ given' = given \union {<<a, f>>}
    /\ UNCHANGED <<life, loading, holders, loads, pluginsMap, stage, methods, jsMethods, ran>>

\* A native function that has no entry yet is passed to a script: it is wrapped.
GetOrCreateFunctionObject(n) ==
    /\ life = "up"
    /\ FindExternal(n) = None
    /\ AddToFunctionsMap(n, n)
    /\ UNCHANGED <<life, loading, holders, loads, pluginsMap, stage, methods, code, jsMethods, given, ran>>

----------------------------------------------------------------------------
\* OnPluginLoad(p) starts: p's main module and constructor will run.
LoadBegin(p) ==
    /\ life = "up"
    /\ loading = None
    /\ loads < MaxLoads
    /\ loads' = loads + 1
    /\ loading' = p
    /\ UNCHANGED <<life, holders, pluginsMap, stage, methods, registry, ran>>

\* GenerateMethodExport for every method: new code for each, even for two
\* methods that name one function.  Nothing is registered yet.
LoadGenerate ==
    /\ life = "up"
    /\ loading # None /\ holders = None
    /\ \E g \in [DOMAIN Exports[loading] -> Vacant] :
         /\ IsInjective(g)
         /\ holders' = g
         /\ code' = [a \in JitSpace |->
              IF a \in Range(g) THEN Exports[loading][CHOOSE i \in DOMAIN g : g[i] = a] ELSE code[a]]
    /\ UNCHANGED <<life, loading, loads, pluginsMap, stage, methods, externalMap, address,
                   jsMethods, given, ran>>

\* methodsHolders is destroyed, and the code it owns with it.
DropHolders ==
    code' = [a \in JitSpace |->
        IF holders # None /\ a \in Range(holders) THEN None ELSE code[a]]

\* Any of the checks fails, up to the last: the id may be in the map already.
LoadFails ==
    /\ life = "up"
    /\ loading # None
    /\ loading' = None
    /\ holders' = None
    /\ DropHolders
    /\ UNCHANGED <<life, loads, pluginsMap, stage, methods, externalMap, address,
                   jsMethods, given, ran>>

\* _jsMethods takes the holders over.
KeptMethods == jsMethods \union Range(holders)

\* AddToFunctionsMap for every export in turn: of two exports of one function
\* the last gives the address.  The holders move into _jsMethods.
Registered(p) ==
    LET last == Len(Exports[p])
        lastOf(f) == CHOOSE i \in 1 .. last : Exports[p][i] = f /\ \A k \in i + 1 .. last : Exports[p][k] # f
    IN  /\ externalMap' = [a \in Addresses |->
             IF a \in Range(holders) /\ externalMap[a] = None
             THEN Exports[p][CHOOSE i \in 1 .. last : holders[i] = a] ELSE externalMap[a]]
        /\ address' = [f \in Objects |->
             IF f \in Range(Exports[p]) THEN holders[lastOf(f)] ELSE address[f]]
        /\ jsMethods' = KeptMethods

\* Every check passes.
LoadCommit ==
    /\ life = "up"
    /\ loading # None /\ holders # None
    /\ pluginsMap[loading] = None
    /\ loading' = None
    /\ holders' = None
    /\ pluginsMap' = [pluginsMap EXCEPT ![loading] = Hooks[loading]]
    /\ stage' = [stage EXCEPT ![loading] = "loaded"]
    /\ Registered(loading)
    /\ methods' = [methods EXCEPT ![loading] = holders]
    /\ UNCHANGED <<life, loads, code, given, ran>>

----------------------------------------------------------------------------
\* The host's call `call' for plugin p calls the function kept for `hook':
\* with an empty handle the process crashes.
CallHook(p, call, hook) ==
    /\ IF hook \in pluginsMap[p]
       THEN ran' = ran \union {<<p, call, hook>>} /\ UNCHANGED life
       ELSE life' = "crashed" /\ UNCHANGED ran
    /\ UNCHANGED <<loading, holders, loads, pluginsMap, methods, registry>>

\* The host makes a call only for the hooks that LoadData reports.  A hook
\* that throws makes the call return an error, which changes nothing here.
OnPluginStart(p) ==
    /\ life = "up" /\ loading = None /\ stage[p] = "loaded"
    /\ "pluginStart" \in pluginsMap[p]
    /\ CallHook(p, "start", "pluginStart")
    /\ stage' = [stage EXCEPT ![p] = "started"]

StartWithoutHook(p) ==
    /\ life = "up" /\ loading = None /\ stage[p] = "loaded"
    /\ "pluginStart" \notin pluginsMap[p]
    /\ stage' = [stage EXCEPT ![p] = "started"]
    /\ UNCHANGED <<life, loading, holders, loads, pluginsMap, methods, registry, ran>>

\* Calls the function kept for pluginEnd.
OnPluginUpdate(p) ==
    /\ life = "up" /\ loading = None /\ stage[p] = "started"
    /\ "pluginUpdate" \in pluginsMap[p]
    /\ CallHook(p, "update", "pluginEnd")
    /\ UNCHANGED stage

OnPluginEnd(p) ==
    /\ life = "up" /\ loading = None /\ stage[p] = "started"
    /\ "pluginEnd" \in pluginsMap[p]
    /\ CallHook(p, "end", "pluginEnd")
    /\ stage' = [stage EXCEPT ![p] = "ended"]

\* The module is shut down once its plugins have ended: maps and code go.
Shutdown ==
    /\ life = "up" /\ loading = None
    /\ \A p \in Plugins : pluginsMap[p] # None => stage[p] = "ended" \/ "pluginEnd" \notin pluginsMap[p]
    /\ life' = "down"
    /\ pluginsMap' = [p \in Plugins |-> None]
    /\ externalMap' = [a \in Addresses |-> None]
    /\ code' = [a \in JitSpace |-> None]
    /\ jsMethods' = {}
    /\ address' = [f \in Objects |-> None]
    /\ given' = {}
    /\ methods' = [p \in Plugins |-> <<>>]
    /\ UNCHANGED <<loading, holders, loads, stage, ran>>

Next ==
    \/ \E f \in Objects : GetOrCreateFunctionValue(f)
    \/ \E n \in Natives : GetOrCreateFunctionObject(n)
    \/ \E p \in Plugins :
         \/ LoadBegin(p) \/ OnPluginStart(p) \/ StartWithoutHook(p)
         \/ OnPluginUpdate(p) \/ OnPluginEnd(p)
    \/ LoadGenerate \/ LoadFails \/ LoadCommit \/ Shutdown

Spec == Init /\ [][Next]_vars

----------------------------------------------------------------------------
TypeOK ==
    /\ life \in {"up", "down", "crashed"}
    /\ loading \in Plugins \union {None}
    /\ holders = None \/ holders \in [DOMAIN Exports[loading] -> JitSpace]
    /\ loads \in 0 .. MaxLoads
    /\ pluginsMap \in [Plugins -> (SUBSET HookNames) \union {None}]
    /\ stage \in [Plugins -> {"new", "loaded", "started", "ended"}]
    /\ methods \in [Plugins -> Seq(JitSpace)]
    /\ externalMap \in [Addresses -> Objects \union {None}]
    /\ address \in [Objects -> Addresses \union {None}]
    /\ code \in [JitSpace -> Objects \union {None}]
    /\ jsMethods \subseteq JitSpace
    /\ given \subseteq Addresses \X Objects
    /\ ran \subseteq Plugins \X {"start", "update", "end"} \X HookNames

\* A function value keeps its identity across the boundary: the address that
\* native code has for a function gives back that very function, whatever is
\* exported, wrapped or loaded without success in between, and an address whose
\* code was freed and handed out again is never taken for its former owner.
RoundTrip ==
    /\ \A f \in Objects : address[f] # None => externalMap[address[f]] = f
    /\ \A x \in given : externalMap[x[1]] = x[2]

\* Native code that holds the address of a JavaScript function, as a callback
\* or as an exported method, calls that function for as long as the module is
\* up: its code is never freed nor replaced.
NativeCallsRightFunction ==
    /\ \A x \in given : x[1] \in JitSpace => code[x[1]] = x[2]
    /\ \A p \in Plugins : \A i \in DOMAIN methods[p] : code[methods[p][i]] = Exports[p][i]

\* The README's example plugin prints "ExamplePlugin::pluginUpdate" from its
\* pluginUpdate(dt): the host's update call runs pluginUpdate, not another hook.
UpdateRunsPluginUpdate ==
    \A x \in ran : x[2] = "update" => x[3] = "pluginUpdate"
=============================================================================
