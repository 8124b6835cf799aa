---------------------------- MODULE PluginImports ----------------------------
(***************************************************************************)
(* import ... from ":name" (src/module.cpp: CreateInternalModule for a     *)
(* plugin of this module, CreateExternalModule for any other extension,    *)
(* CreateEnumObject, CreateClassObject, ConvertBinding; lib/plugify.mjs:   *)
(* bindClassMethods' registry), over the plugins of PluginLifecycle.       *)
(*                                                                         *)
(* Both functions collect functions, enums and classes in file-scope maps  *)
(* that survive the import: a class finds its functions there by name, and *)
(* the evaluation of the module moves the handles out, leaving the names.  *)
(* An exception thrown on the way is not looked at again: with one pending *)
(* V8 may do either, give the import or fail it, and bind the classes that *)
(* are left or not.  Nothing is cached: every import makes new classes.    *)
(***************************************************************************)
EXTENDS PluginLifecycle

CONSTANTS
    Extensions,    \* extensions of other language modules
    Methods,       \* Methods[e]: names of e's methods (of Exports[e] if e is a plugin)
    Enums,         \* Enums[e]: names of e's enums that have values
    Classes,       \* Classes[e]: e's classes: name, `uses' (the methods that are
                   \* its constructors, destructor and bindings), and `readonly':
                   \* a static method has the name of a read-only property
    Moved,         \* an empty handle under a name that is still in the map
    MaxImports     \* bound: imports

Importable == Plugins \union Extensions
AllClasses == UNION {Classes[e] : e \in Importable}
MethodNames == UNION ({Range(Methods[e]) : e \in Importable} \union {c.uses : c \in AllClasses})
EnumNames == UNION {Enums[e] : e \in Importable}
ClassNames == {c.name : c \in AllClasses}

\* What a function of the maps is: JavaScript or a wrapper.
FuncValues == Functions \union (Importable \X MethodNames)

ASSUME ImportConstants ==
    /\ Plugins \intersect Extensions = {}
    /\ \A e \in Importable : Methods[e] \in Seq(Range(Methods[e])) /\ IsInjective(Methods[e])
    /\ \A e \in Importable, c \in AllClasses : None \notin [ext : {e}, uses : [c.uses -> FuncValues]]
    /\ \A p \in Plugins : Len(Methods[p]) = Len(Exports[p])
    /\ \A e \in Importable : \A c, d \in Classes[e] : c.name = d.name => c = d
    /\ MaxImports \in Nat

VARIABLES
    exportFuncs, exportEnums, exportClasses,   \* the maps
    classRegistry,                             \* bindClassMethods' classRegistry
    imports,                                   \* imports so far
    imported                                   \* history: what the last import gave

importVars == <<exportFuncs, exportEnums, exportClasses, classRegistry, imports, imported>>
allVars == <<vars, importVars>>

ImportsInit ==
    /\ Init
    /\ exportFuncs = [n \in MethodNames |-> None]
    /\ exportEnums = [n \in EnumNames |-> None]
    /\ exportClasses = [n \in ClassNames |-> None]
    /\ classRegistry = [n \in ClassNames |-> None]
    /\ imports = 0
    /\ imported = None

----------------------------------------------------------------------------
\* Mutant: the map keeps what the last import left.
NotCleared(map) == map

\* clear()
Cleared(map) == [n \in DOMAIN map |-> None]

\* emplace for every name of `new': a name that is there keeps its value.
Filled(map, new) ==
    [n \in DOMAIN map |-> IF map[n] = None /\ n \in DOMAIN new THEN new[n] ELSE map[n]]

\* std::move of every handle.
MovedOut(map) == [n \in DOMAIN map |-> IF map[n] = None THEN None ELSE Moved]

IndexOf(e, n) == CHOOSE i \in DOMAIN Methods[e] : Methods[e][i] = n

\* _jsMethods has the address.
FindJavascriptMethod(a) == IF a \in jsMethods THEN code[a] ELSE None

InternalFuncs(p) == [n \in Range(Methods[p]) |-> FindJavascriptMethod(methods[p][IndexOf(p, n)])]

\* CreateInternalModule makes the module.
IsInternal(e) == e \in Plugins /\ pluginsMap[e] # None /\ None \notin Range(InternalFuncs(e))

\* A new function that calls e's method n.
Wrapper(e, n) == <<e, n>>

\* The wrappers of the first k methods.
ExternalFuncs(e, k) == [n \in {Methods[e][i] : i \in 1 .. k} |-> Wrapper(e, n)]

\* The host finds the extensions that are loaded.
FindExtension(e) == e \in Extensions \union {p \in Plugins : stage[p] # "new"}

----------------------------------------------------------------------------
\* Mutant: a class is bound to the functions that are there.
BoundAnyway(c, funcs) == TRUE

\* Every function that the class names is in exportFuncs; otherwise
\* CreateClassObject throws.
Bindable(c, funcs) == \A n \in c.uses : funcs[n] # None

\* The class that bindClassMethods makes.
Bound(e, c, funcs) == [ext |-> e, uses |-> [n \in c.uses |-> funcs[n]]]

\* bindClassMethods registers a class before it adds the methods.
Registry(e, bound, funcs) ==
    [n \in ClassNames |->
        IF \E c \in bound : c.name = n
        THEN Bound(e, CHOOSE c \in bound : c.name = n, funcs) ELSE classRegistry[n]]

\* CreateClassObject for the classes `bound': a read-only name throws in
\* bindClassMethods, and the exception is dropped with the class.
CreateClassObject(e, bound, funcs) ==
    Filled(Cleared(exportClasses),
           [n \in {c.name : c \in {d \in bound : ~ d.readonly}} |->
               Bound(e, CHOOSE c \in bound : c.name = n, funcs)])

\* An enum without values is left out.
CreateEnumObject(e) == Filled(Cleared(exportEnums), [n \in Enums[e] |-> e])

\* The functions are collected.  Enums and classes are, the module is made,
\* and its evaluation exports the handles and moves them out; or the pending
\* exception ends the import before that.
MakeModule(e, funcs, thrown) ==
    LET whole == {c \in Classes[e] : Bindable(c, funcs)}
        threw == thrown \/ whole # Classes[e]
        enums == CreateEnumObject(e)
    IN
    \E bound \in SUBSET whole, made \in BOOLEAN :
      LET classes == CreateClassObject(e, bound, funcs) IN
      /\ threw \/ (bound = whole /\ made)
      /\ classRegistry' = Registry(e, bound, funcs)
      /\ \/ /\ made
            /\ imported' = [ext |-> e, funcs |-> funcs, enums |-> enums, classes |-> classes,
                            threw |-> threw]
            /\ exportFuncs' = MovedOut(funcs)
            /\ exportEnums' = MovedOut(enums)
            /\ exportClasses' = MovedOut(classes)
         \/ /\ ~ made
            /\ exportFuncs' = funcs /\ exportEnums' = enums /\ exportClasses' = classes
            /\ imported' = None

StartImport(e) ==
    /\ life = "up"
    /\ FindExtension(e)
    /\ imports < MaxImports
    /\ imports' = imports + 1
    /\ UNCHANGED vars

\* CreateInternalModule: the plugin's own functions.
ImportInternal(e) ==
    /\ StartImport(e)
    /\ IsInternal(e)
    /\ MakeModule(e, Filled(Cleared(exportFuncs), InternalFuncs(e)), FALSE)

\* CreateExternalModule: a wrapper for each method, until the JIT gives no
\* address for one (`break').  For a plugin, CreateInternalModule has thrown.
ImportExternal(e) ==
    /\ StartImport(e)
    /\ ~ IsInternal(e)
    /\ \E k \in 0 .. Len(Methods[e]) :
         MakeModule(e, Filled(Cleared(exportFuncs), ExternalFuncs(e, k)), e \in Plugins)

\* CreateExternalModule throws at method k + 1 and returns: no wrapper for the
\* native call, or no function object.
ImportThrows(e) ==
    /\ StartImport(e)
    /\ ~ IsInternal(e)
    /\ \E k \in 0 .. Len(Methods[e]) - 1 :
         exportFuncs' = Filled(Cleared(exportFuncs), ExternalFuncs(e, k))
    /\ exportEnums' = Cleared(exportEnums)
    /\ exportClasses' = Cleared(exportClasses)
    /\ imported' = None
    /\ UNCHANGED classRegistry

ImportsNext ==
    \/ Next /\ UNCHANGED importVars
    \/ \E e \in Importable : ImportInternal(e) \/ ImportExternal(e) \/ ImportThrows(e)

ImportsSpec == ImportsInit /\ [][ImportsNext]_allVars

----------------------------------------------------------------------------
ImportsTypeOK ==
    /\ TypeOK
    /\ DOMAIN exportFuncs = MethodNames
    /\ DOMAIN exportEnums = EnumNames
    /\ DOMAIN exportClasses = ClassNames /\ DOMAIN classRegistry = ClassNames
    /\ imports \in 0 .. MaxImports

\* The function that an import of e has to give under the name n.
Own(e, n) == IF e \in Plugins THEN Exports[e][IndexOf(e, n)] ELSE Wrapper(e, n)

\* A class is made of functions of its own extension.
IsOwn(class) == \A n \in DOMAIN class.uses : class.uses[n] = Own(class.ext, n)

\* What an import gives is the extension's own, whatever was imported, loaded
\* or given up with an exception before, and however other extensions name
\* their methods: each function is the one of that name, a plugin of this
\* module gives all of its functions, themselves and not wrappers, enums are
\* whole, and no class, exported or in bindClassMethods' registry, mixes a
\* constructor, method or destructor of another extension in.
ImportsAreOwn ==
    /\ imported # None => LET ns == imported IN
         /\ \A n \in MethodNames :
              /\ ns.funcs[n] # None => n \in Range(Methods[ns.ext]) /\ ns.funcs[n] = Own(ns.ext, n)
              /\ ns.ext \in Plugins /\ n \in Range(Methods[ns.ext]) => ns.funcs[n] # None
         /\ \A n \in EnumNames : ns.enums[n] = IF n \in Enums[ns.ext] THEN ns.ext ELSE None
         /\ \A n \in ClassNames : ns.classes[n] # None => ns.classes[n].ext = ns.ext /\ IsOwn(ns.classes[n])
    /\ \A n \in ClassNames : classRegistry[n] # None => IsOwn(classRegistry[n])

\* A class is there, with all of its functions, or the import has thrown, also
\* when the JIT ran out of space and the module lost its last methods without
\* a word.  (A class with a read-only name is lost in any case.)
ClassWholeOrThrows ==
    imported # None => LET ns == imported IN
        ns.threw \/ \A c \in Classes[ns.ext] :
            c.readonly \/ (ns.classes[c.name] # None /\ None \notin Range(ns.classes[c.name].uses))
=============================================================================
