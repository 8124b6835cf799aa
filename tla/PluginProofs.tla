---------------------------- MODULE PluginProofs ----------------------------
(***************************************************************************)
(* Proofs about PluginLifecycle, that a function keeps its address and an  *)
(* address its code, and about PluginImports over it, that an import gives *)
(* what is the extension's own: for any plugins, extensions, exports,      *)
(* classes and JIT.                                                        *)
(***************************************************************************)
EXTENDS PluginImports, TLAPS, WellFoundedInduction

\* _externalMap only names code that is there, and names what it calls.
MapHasCode ==
    \A a \in JitSpace : externalMap[a] # None => code[a] = externalMap[a]

\* The holders of the running load own distinct code for its exports, which
\* is registered nowhere: a load that fails can free it.
HoldersArePrivate ==
    holders # None =>
        /\ loading # None
        /\ IsInjective(holders)
        /\ \A i \in DOMAIN holders :
              /\ code[holders[i]] = Exports[loading][i]
              /\ externalMap[holders[i]] = None

\* The methods the host keeps are registered under their exports.
MethodsAreMapped ==
    \A p \in Plugins : \A i \in DOMAIN methods[p] :
        i \in DOMAIN Exports[p] /\ externalMap[methods[p][i]] = Exports[p][i]

\* The inductive invariant.
IndInv == TypeOK /\ RoundTrip /\ MapHasCode /\ HoldersArePrivate /\ MethodsAreMapped

----------------------------------------------------------------------------
\* A set of indices has a last one.
LEMMA Greatest ==
  ASSUME NEW n \in Nat, NEW T \in SUBSET (1 .. n), T # {}
  PROVE  \E i \in T : \A k \in T : k <= i
<1> DEFINE D == {n - i : i \in T}
<1>0. \A i \in T : i \in Nat /\ n - i \in Nat
  OBVIOUS
<1>1. D \subseteq Nat /\ D # {}
  <2>1. D \subseteq Nat
    BY <1>0
  <2>2. PICK i \in T : TRUE
    OBVIOUS
  <2>3. n - i \in D
    BY <2>2
  <2> QED BY <2>1, <2>3
<1> DEFINE R == OpToRel(<, Nat)
<1>2. \E d \in D : \A y \in D : ~ (<<y, d>> \in R)
  <2> HIDE DEF D, R
  <2>1. IsWellFoundedOn(R, Nat)
    BY NatLessThanWellFounded DEF R
  <2> QED BY <1>1, <2>1, WFMin
<1>3. \A x, y \in Nat : x < y => <<x, y>> \in R
  BY DEF OpToRel
<1> HIDE DEF R
<1>4. PICK d \in D : \A y \in D : ~ (y < d)
  BY <1>1, <1>2, <1>3
<1>5. PICK i \in T : d = n - i
  BY <1>4
<1>6. \A k \in T : ~ (n - k < n - i)
  BY <1>4, <1>5
<1> QED BY <1>0, <1>6

\* The index at which an injective function has a value is the only one.
LEMMA OnlyIndex ==
  ASSUME NEW S, NEW h, DOMAIN h = S, IsInjective(h), NEW i \in S
  PROVE  (CHOOSE k \in S : h[k] = h[i]) = i
BY DEF IsInjective

\* An element of a sequence has a last index.
LEMMA LastIndex ==
  ASSUME NEW S, NEW s \in Seq(S), NEW e \in Range(s)
  PROVE  \E i \in 1 .. Len(s) : s[i] = e /\ \A k \in i + 1 .. Len(s) : s[k] # e
<1> DEFINE T == {i \in 1 .. Len(s) : s[i] = e}
<1>1. Len(s) \in Nat /\ DOMAIN s = 1 .. Len(s)
  OBVIOUS
<1>2. T # {} /\ T \subseteq 1 .. Len(s)
  BY <1>1 DEF Range
<1>3. PICK i \in T : \A k \in T : k <= i
  <2> HIDE DEF T
  <2> QED BY <1>1, <1>2, Greatest
<1>4. i \in 1 .. Len(s) /\ s[i] = e /\ \A k \in i + 1 .. Len(s) : s[k] # e
  BY <1>1, <1>3
<1> QED BY <1>1, <1>4

----------------------------------------------------------------------------
\* The invariant holds before anything is loaded.
LEMMA InitInv == Init => IndInv
<1> SUFFICES ASSUME Init PROVE IndInv
  OBVIOUS
<1> USE LifecycleConstants DEF Init
<1>1. TypeOK
  <2>1. <<>> \in Seq(JitSpace)
    OBVIOUS
  <2>2. methods \in [Plugins -> Seq(JitSpace)]
    BY <2>1
  <2>3. /\ externalMap \in [Addresses -> Objects \union {None}]
        /\ address \in [Objects -> Addresses \union {None}]
        /\ code \in [JitSpace -> Objects \union {None}]
    OBVIOUS
  <2>5. pluginsMap \in [Plugins -> (SUBSET HookNames) \union {None}]
    OBVIOUS
  <2>6. stage \in [Plugins -> {"new", "loaded", "started", "ended"}]
    OBVIOUS
  <2>4. loads \in 0 .. MaxLoads
    OBVIOUS
  <2> QED BY <2>2, <2>3, <2>4, <2>5, <2>6 DEF TypeOK
<1>2. RoundTrip /\ MapHasCode
  BY DEF RoundTrip, MapHasCode, Addresses
<1>3. HoldersArePrivate /\ MethodsAreMapped
  <2>1. \A p \in Plugins : DOMAIN methods[p] = {}
    OBVIOUS
  <2> QED BY <2>1 DEF HoldersArePrivate, MethodsAreMapped
<1> QED BY <1>1, <1>2, <1>3 DEF IndInv

\* Vacant addresses have no entry in the map.
LEMMA VacantIsUnmapped ==
  ASSUME IndInv, NEW a \in Vacant
  PROVE  a \in JitSpace /\ a \in Addresses /\ code[a] = None /\ externalMap[a] = None
<1>1. a \in JitSpace /\ a \in Addresses /\ code[a] = None
  BY DEF Vacant, Addresses
<1> QED BY <1>1 DEF IndInv, MapHasCode

\* A function is given its address, or new code.
LEMMA FunctionValueInv ==
  ASSUME IndInv, NEW f \in Objects, GetOrCreateFunctionValue(f)
  PROVE  IndInv'
<1> USE LifecycleConstants DEF GetOrCreateFunctionValue, FindInternal
<1>0. UNCHANGED <<life, loading, holders, loads, pluginsMap, stage, methods, jsMethods, ran>>
  OBVIOUS
<1>1. CASE address[f] # None
  <2>1. given' = given \union {<<address[f], f>>} /\ UNCHANGED <<externalMap, address, code>>
    BY <1>1
  <2>2. TypeOK'
    <3>1. <<address[f], f>> \in Addresses \X Objects
      BY <1>1 DEF IndInv, TypeOK
    <3> QED BY <1>0, <2>1, <3>1 DEF IndInv, TypeOK
  <2>3. RoundTrip'
    BY <1>1, <2>1 DEF IndInv, RoundTrip
  <2>4. (MapHasCode /\ HoldersArePrivate /\ MethodsAreMapped)'
    BY <1>0, <2>1 DEF IndInv, MapHasCode, HoldersArePrivate, MethodsAreMapped
  <2> QED BY <2>2, <2>3, <2>4 DEF IndInv
<1>2. CASE address[f] = None
  <2>1. PICK a \in Vacant :
          /\ code' = [code EXCEPT ![a] = f]
          /\ externalMap' = [externalMap EXCEPT ![a] = f]
          /\ address' = [address EXCEPT ![f] = a]
          /\ given' = given \union {<<a, f>>}
    BY <1>2, VacantIsUnmapped DEF KeptCode, AddToFunctionsMap, Emplaced
  <2>2. a \in JitSpace /\ a \in Addresses /\ code[a] = None /\ externalMap[a] = None
    BY VacantIsUnmapped
  <2>3. f # None
    BY DEF Objects
  <2>4. TypeOK'
    <3>1. /\ code' \in [JitSpace -> Objects \union {None}]
          /\ externalMap' \in [Addresses -> Objects \union {None}]
          /\ address' \in [Objects -> Addresses \union {None}]
      BY <2>1, <2>2 DEF IndInv, TypeOK
    <3>2. given' \subseteq Addresses \X Objects
      BY <2>1, <2>2 DEF IndInv, TypeOK
    <3> QED BY <1>0, <3>1, <3>2 DEF IndInv, TypeOK
  <2>5. RoundTrip'
    <3>1. \A e \in Objects : (address'[e] # None => externalMap'[address'[e]] = e)
      <4> SUFFICES ASSUME NEW e \in Objects, address'[e] # None
                   PROVE  externalMap'[address'[e]] = e
        OBVIOUS
      <4>1. CASE e = f
        BY <2>1, <2>2, <4>1 DEF IndInv, TypeOK
      <4>2. CASE e # f
        <5>1. address'[e] = address[e] /\ externalMap[address[e]] = e /\ address[e] \in Addresses
          BY <2>1, <4>2 DEF IndInv, TypeOK, RoundTrip
        <5>2. e # None
          BY DEF Objects
        <5> QED BY <2>1, <2>2, <5>1, <5>2 DEF IndInv, TypeOK
      <4> QED BY <4>1, <4>2
    <3>2. \A x \in given' : externalMap'[x[1]] = x[2]
      <4> SUFFICES ASSUME NEW x \in given' PROVE externalMap'[x[1]] = x[2]
        OBVIOUS
      <4>1. CASE x \in given
        <5>1. x[1] \in Addresses /\ x[2] \in Objects /\ externalMap[x[1]] = x[2]
          BY <4>1 DEF IndInv, TypeOK, RoundTrip
        <5>2. x[2] # None
          BY <5>1 DEF Objects
        <5> QED BY <2>1, <2>2, <5>1, <5>2 DEF IndInv, TypeOK
      <4>2. CASE x = <<a, f>>
        BY <2>1, <2>2, <4>2 DEF IndInv, TypeOK
      <4> QED BY <2>1, <4>1, <4>2
    <3> QED BY <3>1, <3>2 DEF RoundTrip
  <2>6. MapHasCode'
    BY <2>1, <2>2 DEF IndInv, TypeOK, MapHasCode
  <2>7. HoldersArePrivate'
    <3> SUFFICES ASSUME holders # None PROVE HoldersArePrivate'
      BY <1>0 DEF HoldersArePrivate
    <3>1. \A i \in DOMAIN holders : holders[i] # a /\ holders[i] \in JitSpace
      <4> SUFFICES ASSUME NEW i \in DOMAIN holders
                   PROVE  holders[i] # a /\ holders[i] \in JitSpace
        OBVIOUS
      <4>1. holders \in [DOMAIN Exports[loading] -> JitSpace] /\ loading \in Plugins
        BY DEF IndInv, TypeOK, HoldersArePrivate
      <4>2. code[holders[i]] \in Functions
        BY <4>1 DEF IndInv, HoldersArePrivate
      <4> QED BY <4>1, <4>2, <2>2
    <3> QED BY <1>0, <2>1, <2>2, <3>1 DEF IndInv, TypeOK, HoldersArePrivate, Addresses
  <2>8. MethodsAreMapped'
    <3> SUFFICES ASSUME NEW p \in Plugins, NEW i \in DOMAIN methods[p]
                 PROVE  i \in DOMAIN Exports[p] /\ externalMap'[methods[p][i]] = Exports[p][i]
      BY <1>0 DEF MethodsAreMapped
    <3>1. i \in DOMAIN Exports[p] /\ externalMap[methods[p][i]] = Exports[p][i]
      BY DEF IndInv, MethodsAreMapped
    <3>2. methods[p][i] \in JitSpace
      BY DEF IndInv, TypeOK
    <3>3. Exports[p][i] \in Functions
      BY <3>1
    <3> QED BY <2>1, <2>2, <3>1, <3>2, <3>3 DEF IndInv, TypeOK, Addresses
  <2> QED BY <2>4, <2>5, <2>6, <2>7, <2>8 DEF IndInv
<1> QED BY <1>1, <1>2

\* A native function is wrapped.
LEMMA FunctionObjectInv ==
  ASSUME IndInv, NEW n \in Natives, GetOrCreateFunctionObject(n)
  PROVE  IndInv'
<1> USE LifecycleConstants
<1>1. /\ n \in Objects /\ n \in Addresses /\ n \notin JitSpace /\ n # None
      /\ externalMap[n] = None
      /\ externalMap' = [externalMap EXCEPT ![n] = n]
      /\ address' = [address EXCEPT ![n] = n]
      /\ UNCHANGED <<life, loading, holders, loads, pluginsMap, stage, methods, code,
                     jsMethods, given, ran>>
  BY DEF GetOrCreateFunctionObject, AddToFunctionsMap, Emplaced, FindExternal, Objects, Addresses
<1>2. TypeOK'
  BY <1>1 DEF IndInv, TypeOK
<1>3. RoundTrip'
  <2>1. \A e \in Objects : (address'[e] # None => externalMap'[address'[e]] = e)
    <3> SUFFICES ASSUME NEW e \in Objects, address'[e] # None
                 PROVE  externalMap'[address'[e]] = e
      OBVIOUS
    <3>1. e # None
      BY DEF Objects
    <3> QED BY <1>1, <3>1 DEF IndInv, TypeOK, RoundTrip
  <2>2. \A x \in given : externalMap'[x[1]] = x[2]
    <3> SUFFICES ASSUME NEW x \in given PROVE externalMap'[x[1]] = x[2]
      OBVIOUS
    <3>1. x[1] \in Addresses /\ x[2] \in Objects /\ externalMap[x[1]] = x[2]
      BY DEF IndInv, TypeOK, RoundTrip
    <3>2. x[2] # None
      BY <3>1 DEF Objects
    <3> QED BY <1>1, <3>1, <3>2 DEF IndInv, TypeOK
  <2> QED BY <1>1, <2>1, <2>2 DEF RoundTrip
<1>4. \A a \in JitSpace : externalMap'[a] = externalMap[a]
  BY <1>1 DEF IndInv, TypeOK, Addresses
<1>5. MapHasCode'
  BY <1>1, <1>4 DEF IndInv, MapHasCode
<1>6. HoldersArePrivate'
  <2> SUFFICES ASSUME holders # None PROVE HoldersArePrivate'
    BY <1>1 DEF HoldersArePrivate
  <2>1. holders \in [DOMAIN Exports[loading] -> JitSpace]
    BY DEF IndInv, TypeOK
  <2> QED BY <1>1, <1>4, <2>1 DEF IndInv, HoldersArePrivate
<1>7. MethodsAreMapped'
  <2>1. \A p \in Plugins : \A i \in DOMAIN methods[p] : methods[p][i] \in JitSpace
    BY DEF IndInv, TypeOK
  <2> QED BY <1>1, <1>4, <2>1 DEF IndInv, MethodsAreMapped
<1> QED BY <1>2, <1>3, <1>5, <1>6, <1>7 DEF IndInv

----------------------------------------------------------------------------
\* The load steps.  The holders stay private while scripts run between them.
LEMMA LoadBeginInv ==
  ASSUME IndInv, NEW p \in Plugins, LoadBegin(p)
  PROVE  IndInv'
<1> USE LifecycleConstants DEF LoadBegin, registry
<1>1. holders = None
  BY DEF IndInv, HoldersArePrivate
<1>2. TypeOK'
  BY <1>1 DEF IndInv, TypeOK
<1>3. (RoundTrip /\ MapHasCode /\ MethodsAreMapped)'
  BY DEF IndInv, RoundTrip, MapHasCode, MethodsAreMapped
<1>4. HoldersArePrivate'
  BY <1>1 DEF HoldersArePrivate
<1> QED BY <1>2, <1>3, <1>4 DEF IndInv

\* New code is placed at addresses that no entry names.
LEMMA LoadGenerateInv ==
  ASSUME IndInv, LoadGenerate
  PROVE  IndInv'
<1> USE LifecycleConstants
<1>0. /\ loading # None /\ loading \in Plugins
      /\ UNCHANGED <<life, loading, loads, pluginsMap, stage, methods, externalMap, address,
                     jsMethods, given, ran>>
  BY DEF LoadGenerate, IndInv, TypeOK
<1> DEFINE D == DOMAIN Exports[loading]
<1>1. PICK g \in [D -> Vacant] :
        /\ IsInjective(g)
        /\ holders' = g
        /\ code' = [a \in JitSpace |->
             IF a \in Range(g) THEN Exports[loading][CHOOSE i \in DOMAIN g : g[i] = a] ELSE code[a]]
  BY DEF LoadGenerate
<1>2. \A i \in D : /\ g[i] \in Range(g) /\ g[i] \in JitSpace /\ externalMap[g[i]] = None
                   /\ code[g[i]] = None
                   /\ code'[g[i]] = Exports[loading][i]
                   /\ Exports[loading][i] \in Functions
  <2> SUFFICES ASSUME NEW i \in D
               PROVE  /\ g[i] \in Range(g) /\ g[i] \in JitSpace /\ externalMap[g[i]] = None
                      /\ code[g[i]] = None
                      /\ code'[g[i]] = Exports[loading][i]
                      /\ Exports[loading][i] \in Functions
    OBVIOUS
  <2>1. g[i] \in Vacant /\ g[i] \in Range(g) /\ DOMAIN g = D
    BY DEF Range
  <2>2. g[i] \in JitSpace /\ externalMap[g[i]] = None /\ code[g[i]] = None
    BY <2>1, VacantIsUnmapped
  <2>3. (CHOOSE k \in D : g[k] = g[i]) = i
    <3> HIDE DEF D
    <3> QED BY <1>1, OnlyIndex
  <2>4. code'[g[i]] = Exports[loading][i]
    BY <1>1, <2>1, <2>2, <2>3
  <2>5. Exports[loading][i] \in Functions
    <3>1. Exports[loading] \in Seq(Functions)
      BY <1>0
    <3> QED BY <3>1
  <2> QED BY <2>1, <2>2, <2>4, <2>5
<1>3. \A a \in JitSpace : a \notin Range(g) => code'[a] = code[a]
  BY <1>1
<1>4. \A a \in Range(g) : \E i \in D : a = g[i]
  BY DEF Range
<1> HIDE DEF D
<1>5. code' \in [JitSpace -> Objects \union {None}]
  <2> SUFFICES ASSUME NEW a \in JitSpace PROVE code'[a] \in Objects \union {None}
    BY <1>1
  <2>1. CASE a \in Range(g)
    BY <1>2, <1>4, <2>1 DEF Objects
  <2>2. CASE a \notin Range(g)
    BY <1>3, <2>2 DEF IndInv, TypeOK
  <2> QED BY <2>1, <2>2
<1>6. holders' \in [D -> JitSpace]
  BY <1>1 DEF Vacant
<1>7. TypeOK'
  BY <1>0, <1>5, <1>6 DEF IndInv, TypeOK, D
<1>8. RoundTrip' /\ MethodsAreMapped'
  BY <1>0 DEF IndInv, RoundTrip, MethodsAreMapped
<1>9. MapHasCode'
  <2> SUFFICES ASSUME NEW a \in JitSpace, externalMap[a] # None
               PROVE  code'[a] = externalMap[a]
    BY <1>0 DEF MapHasCode
  <2>1. a \notin Range(g)
    BY <1>2, <1>4
  <2> QED BY <1>3, <2>1 DEF IndInv, MapHasCode
<1>10. HoldersArePrivate'
  <2>1. DOMAIN g = D
    BY <1>1
  <2>2. \A i \in DOMAIN g : code'[g[i]] = Exports[loading][i] /\ externalMap[g[i]] = None
    BY <1>2, <2>1
  <2>3. holders' = g /\ IsInjective(g) /\ UNCHANGED <<loading, externalMap>>
    BY <1>0, <1>1
  <2> HIDE DEF D
  <2> QED BY <1>0, <2>2, <2>3 DEF HoldersArePrivate
<1> QED BY <1>7, <1>8, <1>9, <1>10 DEF IndInv

\* A load that fails frees its code: no entry, and no address handed out
\* before, names it.
LEMMA LoadFailsInv ==
  ASSUME IndInv, LoadFails
  PROVE  IndInv'
<1> USE LifecycleConstants
<1>1. /\ loading' = None /\ holders' = None
      /\ code' = [a \in JitSpace |-> IF holders # None /\ a \in Range(holders) THEN None ELSE code[a]]
      /\ UNCHANGED <<life, loads, pluginsMap, stage, methods, externalMap, address,
                     jsMethods, given, ran>>
  BY DEF LoadFails, DropHolders
<1>2. TypeOK'
  <2>1. code' \in [JitSpace -> Objects \union {None}]
    BY <1>1 DEF IndInv, TypeOK
  <2> QED BY <1>1, <2>1 DEF IndInv, TypeOK
<1>3. RoundTrip' /\ MethodsAreMapped'
  BY <1>1 DEF IndInv, RoundTrip, MethodsAreMapped
<1>4. MapHasCode'
  <2> SUFFICES ASSUME NEW a \in JitSpace, externalMap[a] # None
               PROVE  code'[a] = externalMap[a]
    BY <1>1 DEF MapHasCode
  <2>1. holders # None => a \notin Range(holders)
    BY DEF IndInv, HoldersArePrivate, Range
  <2> QED BY <1>1, <2>1 DEF IndInv, MapHasCode
<1>5. HoldersArePrivate'
  BY <1>1 DEF HoldersArePrivate
<1> QED BY <1>2, <1>3, <1>4, <1>5 DEF IndInv

\* The exports of a plugin are registered at the end of a load that succeeds.
LEMMA LoadCommitInv ==
  ASSUME IndInv, LoadCommit
  PROVE  IndInv'
<1> USE LifecycleConstants
<1> DEFINE p == loading
           h == holders
           D == DOMAIN Exports[p]
<1>1. /\ p \in Plugins /\ h \in [D -> JitSpace] /\ IsInjective(h)
      /\ Exports[p] \in Seq(Functions) /\ D = 1 .. Len(Exports[p]) /\ DOMAIN h = D
      /\ \A i \in D : code[h[i]] = Exports[p][i] /\ externalMap[h[i]] = None
  <2>1. p \in Plugins /\ h \in [D -> JitSpace] /\ IsInjective(h)
    BY DEF LoadCommit, IndInv, TypeOK, HoldersArePrivate
  <2>2. Exports[p] \in Seq(Functions)
    BY <2>1
  <2>3. DOMAIN h = D
    BY <2>1
  <2>4. \A i \in D : code[h[i]] = Exports[p][i] /\ externalMap[h[i]] = None
    BY <2>3 DEF LoadCommit, IndInv, HoldersArePrivate
  <2> QED BY <2>1, <2>2, <2>3, <2>4
<1>2. /\ loading' = None /\ holders' = None
      /\ pluginsMap' = [pluginsMap EXCEPT ![p] = Hooks[p]]
      /\ stage' = [stage EXCEPT ![p] = "loaded"]
      /\ Registered(p)
      /\ methods' = [methods EXCEPT ![p] = h]
      /\ UNCHANGED <<life, loads, code, given, ran>>
  BY DEF LoadCommit
<1>3. \A i \in D : /\ h[i] \in JitSpace /\ h[i] \in Addresses
                   /\ externalMap'[h[i]] = Exports[p][i]
                   /\ Exports[p][i] \in Functions /\ Exports[p][i] \in Objects
  <2> SUFFICES ASSUME NEW i \in D
               PROVE  /\ h[i] \in JitSpace /\ h[i] \in Addresses
                      /\ externalMap'[h[i]] = Exports[p][i]
                      /\ Exports[p][i] \in Functions /\ Exports[p][i] \in Objects
    OBVIOUS
  <2>1. h[i] \in JitSpace /\ h[i] \in Addresses /\ h[i] \in Range(h)
    BY <1>1 DEF Addresses, Range
  <2>2. Exports[p][i] \in Functions /\ Exports[p][i] \in Objects
    BY <1>1 DEF Objects
  <2>3. (CHOOSE k \in D : h[k] = h[i]) = i
    <3> HIDE DEF D, h
    <3> QED BY <1>1, OnlyIndex
  <2>4. externalMap'[h[i]] = Exports[p][CHOOSE k \in 1 .. Len(Exports[p]) : h[k] = h[i]]
    BY <1>1, <1>2, <2>1 DEF Registered
  <2> QED BY <1>1, <2>1, <2>2, <2>3, <2>4
<1>4. \A a \in Addresses : a \notin Range(h) => externalMap'[a] = externalMap[a]
  BY <1>2 DEF Registered
<1>5. \A a \in Range(h) : \E i \in D : a = h[i]
  BY <1>1 DEF Range
<1>6. \A f \in Range(Exports[p]) : \E j \in D : Exports[p][j] = f /\ address'[f] = h[j]
  <2> SUFFICES ASSUME NEW f \in Range(Exports[p])
               PROVE  \E j \in D : Exports[p][j] = f /\ address'[f] = h[j]
    OBVIOUS
  <2> DEFINE j == CHOOSE i \in 1 .. Len(Exports[p]) :
                    Exports[p][i] = f /\ \A k \in i + 1 .. Len(Exports[p]) : Exports[p][k] # f
  <2>1. j \in D /\ Exports[p][j] = f
    <3> HIDE DEF p, D
    <3>1. \E i \in 1 .. Len(Exports[p]) :
            Exports[p][i] = f /\ \A k \in i + 1 .. Len(Exports[p]) : Exports[p][k] # f
      BY <1>1, LastIndex
    <3> QED BY <1>1, <3>1
  <2>2. f \in Objects
    BY <1>1 DEF Range, Objects
  <2>3. address'[f] = h[j]
    BY <1>2, <2>2 DEF Registered
  <2> QED BY <2>1, <2>3
<1>7. \A f \in Objects : f \notin Range(Exports[p]) => address'[f] = address[f]
  BY <1>2 DEF Registered
<1>8. /\ externalMap' = [a \in Addresses |-> externalMap'[a]]
      /\ address' = [f \in Objects |-> address'[f]]
      /\ jsMethods' = jsMethods \union Range(h)
  BY <1>2 DEF Registered, KeptMethods
<1> HIDE DEF p, h, D
<1>9. TypeOK'
  <2>1. externalMap' \in [Addresses -> Objects \union {None}]
    <3> SUFFICES ASSUME NEW a \in Addresses PROVE externalMap'[a] \in Objects \union {None}
      BY <1>8
    <3>1. CASE a \in Range(h)
      BY <1>3, <1>5, <3>1
    <3>2. CASE a \notin Range(h)
      BY <1>4, <3>2 DEF IndInv, TypeOK
    <3> QED BY <3>1, <3>2
  <2>2. address' \in [Objects -> Addresses \union {None}]
    <3> SUFFICES ASSUME NEW f \in Objects PROVE address'[f] \in Addresses \union {None}
      BY <1>8
    <3>1. CASE f \in Range(Exports[p])
      BY <1>3, <1>6, <3>1
    <3>2. CASE f \notin Range(Exports[p])
      BY <1>7, <3>2 DEF IndInv, TypeOK
    <3> QED BY <3>1, <3>2
  <2>3. jsMethods' \subseteq JitSpace
    <3>1. Range(h) \subseteq JitSpace
      BY <1>3, <1>5
    <3>2. jsMethods \subseteq JitSpace
      BY DEF IndInv, TypeOK
    <3> QED BY <1>8, <3>1, <3>2
  <2>4. methods' \in [Plugins -> Seq(JitSpace)]
    <3>1. h \in Seq(JitSpace)
      BY <1>1
    <3> QED BY <1>2, <3>1 DEF IndInv, TypeOK
  <2>5. pluginsMap' \in [Plugins -> (SUBSET HookNames) \union {None}]
    <3>1. Hooks[p] \in SUBSET HookNames
      BY <1>1
    <3> QED BY <1>2, <3>1 DEF IndInv, TypeOK
  <2>6. stage' \in [Plugins -> {"new", "loaded", "started", "ended"}]
    BY <1>2 DEF IndInv, TypeOK
  <2> QED BY <1>2, <2>1, <2>2, <2>3, <2>4, <2>5, <2>6 DEF IndInv, TypeOK
<1>10. RoundTrip'
  <2>1. \A f \in Objects : (address'[f] # None => externalMap'[address'[f]] = f)
    <3> SUFFICES ASSUME NEW f \in Objects, address'[f] # None
                 PROVE  externalMap'[address'[f]] = f
      OBVIOUS
    <3>1. CASE f \in Range(Exports[p])
      BY <1>3, <1>6, <3>1
    <3>2. CASE f \notin Range(Exports[p])
      <4>1. /\ address'[f] = address[f] /\ address[f] \in Addresses
            /\ externalMap[address[f]] = f /\ f # None
        BY <1>7, <3>2 DEF IndInv, TypeOK, RoundTrip, Objects
      <4>2. address[f] \notin Range(h)
        BY <1>1, <1>5, <4>1
      <4> QED BY <1>4, <4>1, <4>2
    <3> QED BY <3>1, <3>2
  <2>2. \A x \in given : externalMap'[x[1]] = x[2]
    <3> SUFFICES ASSUME NEW x \in given PROVE externalMap'[x[1]] = x[2]
      OBVIOUS
    <3>1. x[1] \in Addresses /\ x[2] \in Objects /\ externalMap[x[1]] = x[2]
      BY DEF IndInv, TypeOK, RoundTrip
    <3>2. x[2] # None
      BY <3>1 DEF Objects
    <3>3. x[1] \notin Range(h)
      BY <1>1, <1>5, <3>1, <3>2
    <3> QED BY <1>4, <3>1, <3>3
  <2> QED BY <1>2, <2>1, <2>2 DEF RoundTrip
<1>11. MapHasCode'
  <2> SUFFICES ASSUME NEW a \in JitSpace, externalMap'[a] # None
               PROVE  code[a] = externalMap'[a]
    BY <1>2 DEF MapHasCode
  <2>1. CASE a \in Range(h)
    BY <1>1, <1>3, <1>5, <2>1
  <2>2. CASE a \notin Range(h)
    BY <1>4, <2>2 DEF IndInv, MapHasCode, Addresses
  <2> QED BY <2>1, <2>2
<1>12. HoldersArePrivate'
  BY <1>2 DEF HoldersArePrivate
<1>13. MethodsAreMapped'
  <2> SUFFICES ASSUME NEW q \in Plugins, NEW i \in DOMAIN methods'[q]
               PROVE  i \in DOMAIN Exports[q] /\ externalMap'[methods'[q][i]] = Exports[q][i]
    BY DEF MethodsAreMapped
  <2>1. CASE q = p
    <3>1. methods'[q] = h
      BY <1>1, <1>2, <2>1 DEF IndInv, TypeOK
    <3> QED BY <1>1, <1>3, <2>1, <3>1 DEF D
  <2>2. CASE q # p
    <3>1. methods'[q] = methods[q]
      BY <1>2, <2>2 DEF IndInv, TypeOK
    <3>2. /\ i \in DOMAIN Exports[q] /\ externalMap[methods[q][i]] = Exports[q][i]
          /\ methods[q][i] \in Addresses
      BY <3>1 DEF IndInv, TypeOK, MethodsAreMapped, Addresses
    <3>3. Exports[q][i] # None
      <4>1. Exports[q] \in Seq(Functions)
        OBVIOUS
      <4>2. Exports[q][i] \in Functions
        BY <3>2, <4>1
      <4> QED BY <4>2
    <3>4. methods[q][i] \notin Range(h)
      BY <1>1, <1>5, <3>2, <3>3
    <3> QED BY <1>4, <3>1, <3>2, <3>4
  <2> QED BY <2>1, <2>2
<1> QED BY <1>9, <1>10, <1>11, <1>12, <1>13 DEF IndInv

----------------------------------------------------------------------------
\* The host's calls run hooks: they leave the registry and the load alone.
LEMMA HostCallInv ==
  ASSUME IndInv, NEW p \in Plugins,
         OnPluginStart(p) \/ StartWithoutHook(p) \/ OnPluginUpdate(p) \/ OnPluginEnd(p)
  PROVE  IndInv'
<1> USE LifecycleConstants
<1>1. /\ UNCHANGED <<loading, holders, loads, pluginsMap, methods, externalMap, address, code,
                     jsMethods, given>>
      /\ life' \in {"up", "down", "crashed"}
      /\ ran' \subseteq Plugins \X {"start", "update", "end"} \X HookNames
  BY DEF OnPluginStart, StartWithoutHook, OnPluginUpdate, OnPluginEnd, CallHook, registry,
         HookNames, IndInv, TypeOK
<1>2. stage' \in [Plugins -> {"new", "loaded", "started", "ended"}]
  BY DEF OnPluginStart, StartWithoutHook, OnPluginUpdate, OnPluginEnd, IndInv, TypeOK
<1>3. TypeOK'
  BY <1>1, <1>2 DEF IndInv, TypeOK
<1>4. (RoundTrip /\ MapHasCode /\ HoldersArePrivate /\ MethodsAreMapped)'
  BY <1>1 DEF IndInv, RoundTrip, MapHasCode, HoldersArePrivate, MethodsAreMapped
<1> QED BY <1>3, <1>4 DEF IndInv

\* Shutdown empties every table.
LEMMA ShutdownInv ==
  ASSUME IndInv, Shutdown
  PROVE  IndInv'
<1> USE LifecycleConstants DEF Shutdown
<1>1. holders = None
  BY DEF IndInv, HoldersArePrivate
<1>2. TypeOK'
  <2>1. methods' \in [Plugins -> Seq(JitSpace)]
    <3>1. <<>> \in Seq(JitSpace)
      OBVIOUS
    <3> QED BY <3>1
  <2>2. pluginsMap' \in [Plugins -> (SUBSET HookNames) \union {None}]
    OBVIOUS
  <2>3. /\ externalMap' \in [Addresses -> Objects \union {None}]
        /\ address' \in [Objects -> Addresses \union {None}]
        /\ code' \in [JitSpace -> Objects \union {None}]
    OBVIOUS
  <2> QED BY <1>1, <2>1, <2>2, <2>3 DEF IndInv, TypeOK
<1>3. RoundTrip' /\ MapHasCode'
  BY DEF RoundTrip, MapHasCode, Addresses
<1>4. MethodsAreMapped'
  <2>1. \A p \in Plugins : DOMAIN methods'[p] = {}
    OBVIOUS
  <2> QED BY <2>1 DEF MethodsAreMapped
<1>5. HoldersArePrivate'
  BY <1>1 DEF HoldersArePrivate
<1> QED BY <1>2, <1>3, <1>4, <1>5 DEF IndInv

\* Every step of the module preserves the invariant.
LEMMA NextInv == IndInv /\ [Next]_vars => IndInv'
<1> SUFFICES ASSUME IndInv, [Next]_vars PROVE IndInv'
  OBVIOUS
<1>1. ASSUME NEW f \in Objects, GetOrCreateFunctionValue(f) PROVE IndInv'
  BY <1>1, FunctionValueInv
<1>2. ASSUME NEW n \in Natives, GetOrCreateFunctionObject(n) PROVE IndInv'
  BY <1>2, FunctionObjectInv
<1>3. ASSUME NEW p \in Plugins, LoadBegin(p) PROVE IndInv'
  BY <1>3, LoadBeginInv
<1>4. ASSUME NEW p \in Plugins,
             OnPluginStart(p) \/ StartWithoutHook(p) \/ OnPluginUpdate(p) \/ OnPluginEnd(p)
      PROVE  IndInv'
  BY <1>4, HostCallInv
<1>5. CASE LoadGenerate
  BY <1>5, LoadGenerateInv
<1>6. CASE LoadFails
  BY <1>6, LoadFailsInv
<1>7. CASE LoadCommit
  BY <1>7, LoadCommitInv
<1>8. CASE Shutdown
  BY <1>8, ShutdownInv
<1>9. CASE UNCHANGED vars
  BY <1>9 DEF IndInv, TypeOK, RoundTrip, MapHasCode, HoldersArePrivate, MethodsAreMapped,
              vars, registry
<1> QED BY <1>1, <1>2, <1>3, <1>4, <1>5, <1>6, <1>7, <1>8, <1>9 DEF Next

\* The native function behind an address that was handed out is the function
\* it was handed out for: the map names its code.
LEMMA InvCalls == IndInv => NativeCallsRightFunction
<1> SUFFICES ASSUME IndInv PROVE NativeCallsRightFunction
  OBVIOUS
<1> USE LifecycleConstants
<1>1. ASSUME NEW x \in given, x[1] \in JitSpace PROVE code[x[1]] = x[2]
  <2>1. x[2] \in Objects /\ externalMap[x[1]] = x[2]
    BY DEF IndInv, TypeOK, RoundTrip
  <2>2. x[2] # None
    BY <2>1 DEF Objects
  <2> QED BY <1>1, <2>1, <2>2 DEF IndInv, MapHasCode
<1>2. ASSUME NEW p \in Plugins, NEW i \in DOMAIN methods[p]
      PROVE  code[methods[p][i]] = Exports[p][i]
  <2>1. /\ methods[p][i] \in JitSpace /\ i \in DOMAIN Exports[p]
        /\ externalMap[methods[p][i]] = Exports[p][i]
    BY DEF IndInv, TypeOK, MethodsAreMapped
  <2>2. Exports[p] \in Seq(Functions)
    OBVIOUS
  <2>3. Exports[p][i] # None
    <3>1. Exports[p][i] \in Functions
      BY <2>1, <2>2
    <3> QED BY <3>1
  <2> QED BY <2>1, <2>3 DEF IndInv, MapHasCode
<1> QED BY <1>1, <1>2 DEF NativeCallsRightFunction

----------------------------------------------------------------------------
\* The invariant holds throughout (AddToFunctionsMap, LoadPlugin and Shutdown
\* of module.cpp keep the two maps, the JIT code and the holders in step).
THEOREM Invariant == Spec => []IndInv
<1>1. Init => IndInv
  BY InitInv
<1>2. IndInv /\ [Next]_vars => IndInv'
  BY NextInv
<1> QED BY <1>1, <1>2, PTL DEF Spec

\* Every variable keeps its type.
THEOREM TypeCorrect == Spec => []TypeOK
<1>1. IndInv => TypeOK
  BY DEF IndInv
<1> QED BY <1>1, Invariant, PTL

\* The address of a function gives back that very function, for any number of
\* plugins, exports that share functions, loads that fail and reused addresses.
THEOREM FunctionsKeepIdentity == Spec => []RoundTrip
<1>1. IndInv => RoundTrip
  BY DEF IndInv
<1> QED BY <1>1, Invariant, PTL

\* The JIT code behind an address that native code holds, or that the host has
\* as a method, is never freed nor replaced while the module is up.
THEOREM NativeCallsArrive == Spec => []NativeCallsRightFunction
BY Invariant, InvCalls, PTL

----------------------------------------------------------------------------
\* A plugin that the host takes for loaded has its hooks and all its methods,
\* and _jsMethods has their addresses.
LoadedIsWhole ==
    \A p \in Plugins :
        /\ pluginsMap[p] # None => DOMAIN methods[p] = DOMAIN Exports[p]
        /\ \A i \in DOMAIN methods[p] : methods[p][i] \in jsMethods
        /\ life = "up" /\ stage[p] # "new" => pluginsMap[p] # None

LEMMA LoadedInit == Init => LoadedIsWhole
<1> SUFFICES ASSUME Init, NEW p \in Plugins
             PROVE  pluginsMap[p] = None /\ DOMAIN methods[p] = {} /\ stage[p] = "new"
  BY DEF LoadedIsWhole
<1> QED BY DEF Init

LEMMA LoadedNext ==
  ASSUME IndInv, LoadedIsWhole, [Next]_vars
  PROVE  LoadedIsWhole'
<1> USE LifecycleConstants
<1>1. CASE LoadCommit
  <2>1. /\ loading \in Plugins
        /\ holders \in [DOMAIN Exports[loading] -> JitSpace]
        /\ pluginsMap' = [pluginsMap EXCEPT ![loading] = Hooks[loading]]
        /\ stage' = [stage EXCEPT ![loading] = "loaded"]
        /\ methods' = [methods EXCEPT ![loading] = holders]
        /\ jsMethods' = jsMethods \union Range(holders)
        /\ life' = life
    BY <1>1 DEF LoadCommit, IndInv, TypeOK, Registered, KeptMethods
  <2> SUFFICES ASSUME NEW p \in Plugins
               PROVE  /\ pluginsMap'[p] # None => DOMAIN methods'[p] = DOMAIN Exports[p]
                      /\ \A i \in DOMAIN methods'[p] : methods'[p][i] \in jsMethods'
                      /\ life' = "up" /\ stage'[p] # "new" => pluginsMap'[p] # None
    BY DEF LoadedIsWhole
  <2>2. CASE p = loading
    <3>1. methods'[p] = holders /\ pluginsMap'[p] = Hooks[p]
      BY <2>1, <2>2 DEF IndInv, TypeOK
    <3>2. \A i \in DOMAIN holders : holders[i] \in Range(holders)
      BY DEF Range
    <3> QED BY <2>1, <2>2, <3>1, <3>2
  <2>3. CASE p # loading
    <3>1. methods'[p] = methods[p] /\ pluginsMap'[p] = pluginsMap[p] /\ stage'[p] = stage[p]
      BY <2>1, <2>3 DEF IndInv, TypeOK
    <3> QED BY <2>1, <3>1 DEF LoadedIsWhole
  <2> QED BY <2>2, <2>3
<1>2. CASE Shutdown
  <2>1. life' = "down" /\ \A p \in Plugins : pluginsMap'[p] = None /\ DOMAIN methods'[p] = {}
    BY <1>2 DEF Shutdown
  <2> QED BY <2>1 DEF LoadedIsWhole
<1>3. ASSUME NEW p \in Plugins,
             OnPluginStart(p) \/ StartWithoutHook(p) \/ OnPluginUpdate(p) \/ OnPluginEnd(p)
      PROVE  LoadedIsWhole'
  <2>1. /\ UNCHANGED <<pluginsMap, methods, jsMethods>>
        /\ life = "up"
        /\ stage[p] # "new" /\ \A q \in Plugins \ {p} : stage'[q] = stage[q]
    BY <1>3 DEF OnPluginStart, StartWithoutHook, OnPluginUpdate, OnPluginEnd, CallHook, registry,
                IndInv, TypeOK
  <2> QED BY <2>1 DEF LoadedIsWhole
<1>4. ASSUME UNCHANGED <<life, pluginsMap, stage, methods, jsMethods>> PROVE LoadedIsWhole'
  BY <1>4 DEF LoadedIsWhole
<1>5. ASSUME NEW f \in Objects, GetOrCreateFunctionValue(f) PROVE LoadedIsWhole'
  BY <1>4, <1>5 DEF GetOrCreateFunctionValue
<1>6. ASSUME NEW n \in Natives, GetOrCreateFunctionObject(n) PROVE LoadedIsWhole'
  BY <1>4, <1>6 DEF GetOrCreateFunctionObject
<1>7. ASSUME NEW p \in Plugins, LoadBegin(p) PROVE LoadedIsWhole'
  BY <1>4, <1>7 DEF LoadBegin, registry
<1>8. CASE LoadGenerate \/ LoadFails \/ UNCHANGED vars
  BY <1>4, <1>8 DEF LoadGenerate, LoadFails, vars, registry
<1> QED BY <1>1, <1>2, <1>3, <1>5, <1>6, <1>7, <1>8 DEF Next

\* Imports leave the plugins alone.
LEMMA ImportsKeepPlugins == [ImportsNext]_allVars => [Next]_vars
BY DEF ImportsNext, ImportInternal, ImportExternal, ImportThrows, StartImport, allVars

LEMMA ImportsImplyPlugins == ImportsSpec => Spec
BY ImportsKeepPlugins, PTL DEF ImportsSpec, ImportsInit, Spec

\* What imports can rely on.
LEMMA PluginInvariant == ImportsSpec => [](IndInv /\ LoadedIsWhole)
<1>1. Init => IndInv /\ LoadedIsWhole
  BY InitInv, LoadedInit
<1>2. IndInv /\ LoadedIsWhole /\ [Next]_vars => (IndInv /\ LoadedIsWhole)'
  BY NextInv, LoadedNext
<1> QED BY <1>1, <1>2, ImportsImplyPlugins, PTL DEF Spec

----------------------------------------------------------------------------
\* The maps keep their names, and what was given before is still of one piece.
ImportsInv ==
    /\ DOMAIN exportFuncs = MethodNames
    /\ DOMAIN exportEnums = EnumNames
    /\ DOMAIN exportClasses = ClassNames
    /\ ImportsAreOwn
    /\ ClassWholeOrThrows

\* The function that stands for a name in the manifest.
LEMMA IndexIsThere ==
  ASSUME NEW e \in Importable, NEW n \in Range(Methods[e])
  PROVE  IndexOf(e, n) \in DOMAIN Methods[e] /\ Methods[e][IndexOf(e, n)] = n
BY DEF IndexOf, Range

\* A plugin that can be imported is whole: each of its names is its function.
LEMMA InternalIsOwn ==
  ASSUME IndInv, LoadedIsWhole, life = "up",
         NEW e \in Plugins, stage[e] # "new"
  PROVE  /\ IsInternal(e)
         /\ \A n \in Range(Methods[e]) :
              InternalFuncs(e)[n] = Own(e, n) /\ Own(e, n) \in Functions
<1> USE LifecycleConstants, ImportConstants
<1>1. e \in Importable /\ pluginsMap[e] # None /\ DOMAIN methods[e] = DOMAIN Exports[e]
  BY DEF LoadedIsWhole, Importable
<1>2. /\ Methods[e] \in Seq(Range(Methods[e])) /\ Exports[e] \in Seq(Functions)
      /\ Len(Methods[e]) = Len(Exports[e])
  BY <1>1
<1>3. DOMAIN Methods[e] = DOMAIN Exports[e]
  BY <1>2
<1>4. ASSUME NEW n \in Range(Methods[e])
      PROVE  InternalFuncs(e)[n] = Own(e, n) /\ Own(e, n) \in Functions
  <2> DEFINE i == IndexOf(e, n)
  <2>1. i \in DOMAIN Exports[e] /\ i \in DOMAIN methods[e]
    BY <1>1, <1>3, IndexIsThere
  <2>2. Exports[e][i] \in Functions
    BY <1>2, <2>1
  <2>3. methods[e][i] \in jsMethods /\ code[methods[e][i]] = Exports[e][i]
    BY <2>1, InvCalls DEF LoadedIsWhole, NativeCallsRightFunction
  <2> QED BY <2>2, <2>3 DEF InternalFuncs, FindJavascriptMethod, Own
<1>5. None \notin Range(InternalFuncs(e))
  BY <1>4 DEF InternalFuncs, Range
<1> QED BY <1>1, <1>4, <1>5 DEF IsInternal

\* The functions that an import of e collects: all of them e's own, and all
\* there are if e is a plugin.
OwnFuncs(e, funcs) ==
    /\ DOMAIN funcs = MethodNames
    /\ \A n \in MethodNames : funcs[n] # None => n \in Range(Methods[e]) /\ funcs[n] = Own(e, n)
    /\ \A n \in MethodNames : e \in Plugins /\ n \in Range(Methods[e]) => funcs[n] # None
    /\ \A n \in MethodNames : funcs[n] \in FuncValues \union {None}

LEMMA NamesAreThere ==
  ASSUME NEW e \in Importable
  PROVE  /\ Range(Methods[e]) \subseteq MethodNames
         /\ Enums[e] \subseteq EnumNames
         /\ \A c \in Classes[e] : c \in AllClasses /\ c.name \in ClassNames /\ c.uses \subseteq MethodNames
<1>1. Range(Methods[e]) \subseteq MethodNames
  BY DEF MethodNames
<1>2. Enums[e] \subseteq EnumNames
  BY DEF EnumNames
<1>3. \A c \in Classes[e] : c \in AllClasses
  BY DEF AllClasses
<1>4. \A c \in AllClasses : c.name \in ClassNames /\ c.uses \subseteq MethodNames
  BY DEF ClassNames, MethodNames
<1> QED BY <1>1, <1>2, <1>3, <1>4

LEMMA InternalFuncsOwn ==
  ASSUME IndInv, LoadedIsWhole, ImportsInv, life = "up",
         NEW e \in Plugins, stage[e] # "new"
  PROVE  OwnFuncs(e, Filled(Cleared(exportFuncs), InternalFuncs(e)))
<1> DEFINE funcs == Filled(Cleared(exportFuncs), InternalFuncs(e))
<1>1. DOMAIN InternalFuncs(e) = Range(Methods[e])
  BY DEF InternalFuncs
<1>2. funcs = [n \in MethodNames |-> IF n \in Range(Methods[e]) THEN InternalFuncs(e)[n] ELSE None]
  BY <1>1 DEF Filled, Cleared, ImportsInv
<1>3. \A n \in Range(Methods[e]) :
        InternalFuncs(e)[n] = Own(e, n) /\ Own(e, n) \in Functions
  BY InternalIsOwn
<1>4. None \notin Functions
  BY LifecycleConstants
<1> HIDE DEF funcs
<1> QED BY <1>2, <1>3, <1>4 DEF OwnFuncs, FuncValues, funcs

LEMMA ExternalFuncsOwn ==
  ASSUME ImportsInv, NEW e \in Extensions, NEW k \in 0 .. Len(Methods[e])
  PROVE  OwnFuncs(e, Filled(Cleared(exportFuncs), ExternalFuncs(e, k)))
<1> USE LifecycleConstants, ImportConstants
<1> DEFINE funcs == Filled(Cleared(exportFuncs), ExternalFuncs(e, k))
           N == DOMAIN ExternalFuncs(e, k)
<1>1. e \in Importable /\ e \notin Plugins /\ Methods[e] \in Seq(Range(Methods[e]))
  BY DEF Importable
<1>2. N \subseteq Range(Methods[e]) /\ Range(Methods[e]) \subseteq MethodNames
  BY <1>1, NamesAreThere DEF ExternalFuncs, Range
<1>3. \A n \in N : ExternalFuncs(e, k)[n] = Own(e, n)
  BY <1>1 DEF ExternalFuncs, Own
<1>4. funcs = [n \in MethodNames |-> IF n \in N THEN ExternalFuncs(e, k)[n] ELSE None]
  BY DEF Filled, Cleared, ImportsInv
<1>5. \A n \in N : ExternalFuncs(e, k)[n] \in FuncValues
  BY <1>1, <1>2, <1>3 DEF Own, Wrapper, FuncValues
<1> HIDE DEF funcs, N
<1> QED BY <1>1, <1>2, <1>3, <1>4, <1>5 DEF OwnFuncs, funcs

\* A class made from the functions collected is of one piece.
LEMMA BoundIsOwn ==
  ASSUME NEW e \in Importable, NEW funcs, OwnFuncs(e, funcs),
         NEW c \in Classes[e], Bindable(c, funcs)
  PROVE  LET class == Bound(e, c, funcs) IN
         /\ class # None /\ class.ext = e /\ IsOwn(class)
         /\ DOMAIN class.uses = c.uses
         /\ None \notin Range(class.uses)
<1> DEFINE class == Bound(e, c, funcs)
<1>1. c \in AllClasses /\ c.uses \subseteq MethodNames
  BY NamesAreThere
<1>2. \A n \in c.uses : funcs[n] # None /\ funcs[n] = Own(e, n) /\ funcs[n] \in FuncValues
  BY <1>1 DEF Bindable, OwnFuncs
<1>3. class = [ext |-> e, uses |-> [n \in c.uses |-> funcs[n]]]
  BY DEF Bound
<1>4. class \in [ext : {e}, uses : [c.uses -> FuncValues]]
  BY <1>2, <1>3
<1>5. class # None
  BY <1>1, <1>4, ImportConstants
<1>6. IsOwn(class) /\ DOMAIN class.uses = c.uses /\ class.ext = e /\ None \notin Range(class.uses)
  BY <1>2, <1>3 DEF IsOwn, Range
<1> QED BY <1>5, <1>6

\* The class of a name, among classes of one extension.
LEMMA ClassOfName ==
  ASSUME NEW e \in Importable, NEW bound \in SUBSET Classes[e], NEW c \in bound
  PROVE  (CHOOSE d \in bound : d.name = c.name) = c
BY ImportConstants

\* An import that collected the extension's own functions gives what is the
\* extension's own, and leaves a registry of whole classes.
LEMMA MakeModuleOwn ==
  ASSUME ImportsInv, NEW e \in Importable, NEW funcs, OwnFuncs(e, funcs),
         NEW thrown \in BOOLEAN, MakeModule(e, funcs, thrown)
  PROVE  ImportsInv'
<1> DEFINE whole == {c \in Classes[e] : Bindable(c, funcs)}
           threw == thrown \/ whole # Classes[e]
           enums == CreateEnumObject(e)
<1>1. PICK bound \in SUBSET whole, made \in BOOLEAN :
        /\ threw \/ (bound = whole /\ made)
        /\ classRegistry' = Registry(e, bound, funcs)
        /\ \/ /\ made
              /\ imported' = [ext |-> e, funcs |-> funcs, enums |-> enums,
                              classes |-> CreateClassObject(e, bound, funcs), threw |-> threw]
              /\ exportFuncs' = MovedOut(funcs)
              /\ exportEnums' = MovedOut(enums)
              /\ exportClasses' = MovedOut(CreateClassObject(e, bound, funcs))
           \/ /\ ~ made
              /\ exportFuncs' = funcs /\ exportEnums' = enums
              /\ exportClasses' = CreateClassObject(e, bound, funcs)
              /\ imported' = None
  BY DEF MakeModule
<1> DEFINE classes == CreateClassObject(e, bound, funcs)
<1>2. bound \subseteq Classes[e] /\ \A c \in bound : Bindable(c, funcs)
  OBVIOUS
<1>3. enums = [n \in EnumNames |-> IF n \in Enums[e] THEN e ELSE None]
  BY DEF CreateEnumObject, Filled, Cleared, ImportsInv
<1>4. classes = [n \in ClassNames |->
         IF n \in {c.name : c \in {d \in bound : ~ d.readonly}}
         THEN Bound(e, CHOOSE c \in bound : c.name = n, funcs) ELSE None]
  BY DEF CreateClassObject, Filled, Cleared, ImportsInv
<1>5. \A c \in bound : ~ c.readonly => classes[c.name] = Bound(e, c, funcs)
  <2> SUFFICES ASSUME NEW c \in bound, ~ c.readonly PROVE classes[c.name] = Bound(e, c, funcs)
    OBVIOUS
  <2>1. c.name \in ClassNames
    BY <1>2, NamesAreThere
  <2>2. (CHOOSE d \in bound : d.name = c.name) = c
    BY <1>2, ClassOfName
  <2> QED BY <1>4, <2>1, <2>2
<1>6. \A n \in ClassNames : classes[n] # None => classes[n].ext = e /\ IsOwn(classes[n])
  <2> SUFFICES ASSUME NEW n \in ClassNames, classes[n] # None
               PROVE  classes[n].ext = e /\ IsOwn(classes[n])
    OBVIOUS
  <2>1. PICK c \in bound : ~ c.readonly /\ c.name = n
    BY <1>4
  <2>2. classes[n] = Bound(e, c, funcs)
    BY <1>5, <2>1
  <2> HIDE DEF classes
  <2> QED BY <1>2, <2>1, <2>2, BoundIsOwn
<1>7. \A n \in ClassNames : classRegistry'[n] # None => IsOwn(classRegistry'[n])
  <2> SUFFICES ASSUME NEW n \in ClassNames, classRegistry'[n] # None
               PROVE  IsOwn(classRegistry'[n])
    OBVIOUS
  <2>1. CASE \E c \in bound : c.name = n
    <3>1. PICK c \in bound : c.name = n
      BY <2>1
    <3>2. classRegistry'[n] = Bound(e, CHOOSE d \in bound : d.name = n, funcs)
      BY <1>1, <2>1 DEF Registry
    <3>3. (CHOOSE d \in bound : d.name = c.name) = c
      BY <1>2, ClassOfName
    <3>4. classRegistry'[n] = Bound(e, c, funcs)
      BY <3>1, <3>2, <3>3
    <3> QED BY <1>2, <3>1, <3>4, BoundIsOwn
  <2>2. CASE ~ \E c \in bound : c.name = n
    <3>1. classRegistry'[n] = classRegistry[n]
      BY <1>1, <2>2 DEF Registry
    <3> QED BY <3>1 DEF ImportsInv, ImportsAreOwn
  <2> QED BY <2>1, <2>2
<1>8. \A c \in Classes[e] : c.readonly \/ threw \/ ~ made
        \/ (classes[c.name] # None /\ None \notin Range(classes[c.name].uses))
  <2> SUFFICES ASSUME NEW c \in Classes[e], ~ c.readonly, ~ threw
               PROVE  classes[c.name] # None /\ None \notin Range(classes[c.name].uses)
    OBVIOUS
  <2>1. c \in bound
    BY <1>1
  <2>2. classes[c.name] = Bound(e, c, funcs)
    BY <1>5, <2>1
  <2> HIDE DEF classes
  <2> QED BY <1>2, <2>1, <2>2, BoundIsOwn
<1>9. /\ DOMAIN exportFuncs' = MethodNames
      /\ DOMAIN exportEnums' = EnumNames
      /\ DOMAIN exportClasses' = ClassNames
  <2>1. DOMAIN funcs = MethodNames /\ DOMAIN enums = EnumNames /\ DOMAIN classes = ClassNames
    BY <1>3, <1>4 DEF OwnFuncs
  <2> HIDE DEF enums, classes
  <2> QED BY <1>1, <2>1 DEF MovedOut, enums, classes
<1> HIDE DEF classes, enums, whole, threw
<1>10. CASE ~ made
  BY <1>1, <1>7, <1>9, <1>10 DEF ImportsInv, ImportsAreOwn, ClassWholeOrThrows, enums, classes
<1>11. CASE made
  <2>1. imported' = [ext |-> e, funcs |-> funcs, enums |-> enums, classes |-> classes,
                     threw |-> threw]
    BY <1>1, <1>11 DEF classes
  <2>2. ImportsAreOwn'
    BY <1>3, <1>6, <1>7, <2>1 DEF ImportsAreOwn, OwnFuncs
  <2>3. ClassWholeOrThrows'
    BY <1>8, <1>11, <2>1 DEF ClassWholeOrThrows
  <2> QED BY <1>9, <2>2, <2>3 DEF ImportsInv
<1> QED BY <1>10, <1>11

\* Every step keeps what imports have given of one piece.
LEMMA ImportsNextInv ==
  ASSUME IndInv, LoadedIsWhole, ImportsInv, [ImportsNext]_allVars
  PROVE  ImportsInv'
<1> USE ImportConstants
<1>1. ASSUME UNCHANGED importVars PROVE ImportsInv'
  BY <1>1 DEF importVars, ImportsInv, ImportsAreOwn, ClassWholeOrThrows
<1>2. ASSUME NEW e \in Importable, ImportInternal(e) PROVE ImportsInv'
  <2>1. e \in Plugins /\ e \notin Extensions /\ life = "up" /\ stage[e] # "new"
    BY <1>2 DEF ImportInternal, StartImport, IsInternal, FindExtension
  <2>2. OwnFuncs(e, Filled(Cleared(exportFuncs), InternalFuncs(e)))
    BY <2>1, InternalFuncsOwn
  <2>3. MakeModule(e, Filled(Cleared(exportFuncs), InternalFuncs(e)), FALSE)
    BY <1>2 DEF ImportInternal
  <2> QED BY <2>2, <2>3, MakeModuleOwn
<1>3. ASSUME NEW e \in Importable, StartImport(e), ~ IsInternal(e)
      PROVE  e \in Extensions /\ e \notin Plugins
  <2>1. life = "up" /\ e \in Extensions \union {p \in Plugins : stage[p] # "new"}
    BY <1>3 DEF StartImport, FindExtension
  <2> QED BY <1>3, <2>1, InternalIsOwn
<1>4. ASSUME NEW e \in Importable, ImportExternal(e) PROVE ImportsInv'
  <2>1. e \in Extensions /\ e \notin Plugins
    BY <1>3, <1>4 DEF ImportExternal
  <2>2. PICK k \in 0 .. Len(Methods[e]) :
          MakeModule(e, Filled(Cleared(exportFuncs), ExternalFuncs(e, k)), e \in Plugins)
    BY <1>4 DEF ImportExternal
  <2>3. OwnFuncs(e, Filled(Cleared(exportFuncs), ExternalFuncs(e, k)))
    BY <2>1, ExternalFuncsOwn
  <2> DEFINE thrown == e \in Plugins
  <2>4. MakeModule(e, Filled(Cleared(exportFuncs), ExternalFuncs(e, k)), thrown) /\ thrown \in BOOLEAN
    BY <2>2
  <2> HIDE DEF thrown
  <2> QED BY <2>3, <2>4, MakeModuleOwn
<1>5. ASSUME NEW e \in Importable, ImportThrows(e) PROVE ImportsInv'
  <2>1. /\ DOMAIN exportFuncs' = MethodNames
        /\ DOMAIN exportEnums' = EnumNames
        /\ DOMAIN exportClasses' = ClassNames
    BY <1>5 DEF ImportThrows, Filled, Cleared, ImportsInv
  <2>2. imported' = None /\ classRegistry' = classRegistry
    BY <1>5 DEF ImportThrows
  <2> QED BY <2>1, <2>2 DEF ImportsInv, ImportsAreOwn, ClassWholeOrThrows
<1> QED BY <1>1, <1>2, <1>4, <1>5 DEF ImportsNext, allVars

LEMMA ImportsInvariant == ImportsSpec => []ImportsInv
<1>1. ImportsInit => ImportsInv
  BY DEF ImportsInit, ImportsInv, ImportsAreOwn, ClassWholeOrThrows
<1>2. IndInv /\ LoadedIsWhole /\ ImportsInv /\ [ImportsNext]_allVars => ImportsInv'
  BY ImportsNextInv
<1> QED BY <1>1, <1>2, PluginInvariant, PTL DEF ImportsSpec

\* Imports do not disturb what the plugins' functions are (the composed system
\* implements PluginLifecycle, so all that is proved of it holds).
THEOREM ImportsImplementPlugins == ImportsSpec => Spec /\ []RoundTrip /\ []NativeCallsRightFunction
BY ImportsImplyPlugins, FunctionsKeepIdentity, NativeCallsArrive, PTL

\* Whatever was imported, loaded or given up before, and however the names of
\* extensions clash, an import gives the extension's own functions, enums and
\* classes (CreateInternalModule, CreateExternalModule, CreateClassObject).
THEOREM ImportsGiveTheirOwn == ImportsSpec => []ImportsAreOwn
<1>1. ImportsInv => ImportsAreOwn
  BY DEF ImportsInv
<1> QED BY <1>1, ImportsInvariant, PTL

\* A class is whole or the import has thrown.
THEOREM ClassesAreWhole == ImportsSpec => []ClassWholeOrThrows
<1>1. ImportsInv => ClassWholeOrThrows
  BY DEF ImportsInv
<1> QED BY <1>1, ImportsInvariant, PTL

\* The maps of imports, bindClassMethods' registry and the plugins under them
\* are well typed, for any extensions, enums and classes.
THEOREM ImportsTypeCorrect == ImportsSpec => []ImportsTypeOK
<1> DEFINE Counted == DOMAIN classRegistry = ClassNames /\ imports \in 0 .. MaxImports
<1>1. ImportsInit => Counted
  BY ImportConstants DEF ImportsInit
<1>2. Counted /\ [ImportsNext]_allVars => Counted'
  <2> SUFFICES ASSUME Counted, [ImportsNext]_allVars PROVE Counted'
    OBVIOUS
  <2>1. CASE UNCHANGED importVars
    BY <2>1 DEF importVars
  <2>2. ASSUME NEW e \in Importable, ImportInternal(e) \/ ImportExternal(e) \/ ImportThrows(e)
        PROVE  DOMAIN classRegistry' = ClassNames
    <3>1. ASSUME NEW funcs, NEW thrown, MakeModule(e, funcs, thrown)
          PROVE  DOMAIN classRegistry' = ClassNames
      <4>1. PICK bound : classRegistry' = Registry(e, bound, funcs)
        BY <3>1 DEF MakeModule
      <4> QED BY <4>1 DEF Registry
    <3>2. CASE ImportThrows(e)
      BY <3>2 DEF ImportThrows
    <3> QED BY <2>2, <3>1, <3>2 DEF ImportInternal, ImportExternal
  <2>3. ASSUME NEW e \in Importable, ImportInternal(e) \/ ImportExternal(e) \/ ImportThrows(e)
        PROVE  imports' \in 0 .. MaxImports
    <3>1. imports < MaxImports /\ imports' = imports + 1
      BY <2>3 DEF ImportInternal, ImportExternal, ImportThrows, StartImport
    <3> QED BY <3>1, ImportConstants
  <2> QED BY <2>1, <2>2, <2>3 DEF ImportsNext, allVars
<1> HIDE DEF Counted
<1>3. Counted /\ ImportsInv /\ IndInv => ImportsTypeOK
  BY DEF Counted, ImportsInv, IndInv, ImportsTypeOK
<1> QED BY <1>1, <1>2, <1>3, ImportsInvariant, PluginInvariant, PTL DEF ImportsSpec
=============================================================================
