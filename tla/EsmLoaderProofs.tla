-------------------------- MODULE EsmLoaderProofs --------------------------
(***************************************************************************)
(* Machine-checked facts about EsmLoader, for any modules, requests and    *)
(* nesting of loads, requires and bodies.                                  *)
(*                                                                         *)
(* The tables of modules change together with the chain of calls; what     *)
(* holds of them together (TreeOK) is stated of any chain and any tables,  *)
(* with one lemma per way in which they change.  The lemmas that follow    *)
(* apply these to the actions.  The last part is about linking and         *)
(* evaluation: what is evaluated when require() answers with a module.     *)
(***************************************************************************)
EXTENDS EsmLoader, TLAPS, FiniteSetTheorems, SequenceTheorems,
        WellFoundedInduction

RootCalls == [call : {"load", "eval"}, path : Paths, resolver : Imports \union {None},
              step : {"fetch", "eval", "spin"}, mod : Mods \union {None}]
FetchCalls == [call : {"fetch"}, mod : Mods, next : Nat]
BodyCalls == [call : {"body"}, path : Paths]
MicrotaskCalls == [call : {"microtask"}]
Calls == RootCalls \union FetchCalls \union BodyCalls \union MicrotaskCalls

\* The tables: n modules made, their paths mp, _pathToModule ptm and the
\* resolve caches rc.
Tables(n, mp, ptm, rc) ==
    /\ n \in 0 .. MaxMods
    /\ mp \in [Mods -> Paths \union {None}]
    /\ ptm \in [Paths -> Mods \union {None}]
    /\ rc \in [Mods -> [Paths -> Mods \union {None}]]
    /\ \A m \in Mods : m <= n => mp[m] \in Paths
    /\ \A p \in Paths : ptm[p] # None => ptm[p] <= n /\ mp[ptm[p]] = p

\* A fetch that is under way: its module is the registered one, and the
\* requests before the next one have been answered.
FetchOK(f, n, mp, ptm, rc) ==
    /\ f.mod <= n /\ ptm[mp[f.mod]] = f.mod
    /\ f.next \in 1 .. Len(Requests[mp[f.mod]]) + 1
    /\ \A i \in 1 .. f.next - 1 : rc[f.mod][Requests[mp[f.mod]][i]] # None

Asking(g, mp) == g.call = "fetch" /\ g.next <= Len(Requests[mp[g.mod]])
Asked(g, mp) == Requests[mp[g.mod]][g.next]

\* Call g may have made call f, for the request that g is at.
Invokes(g, f, mp) ==
    \/ g.call \in {"load", "eval"} /\ g.step = "fetch" /\ f.call = "fetch" /\ g.path = mp[f.mod]
    \/ Asking(g, mp) /\ f.call = "fetch" /\ Asked(g, mp) = mp[f.mod]
    \/ Asking(g, mp) /\ f.call = "body" /\ Asked(g, mp) = f.path /\ Kind[f.path] = "cjs"
    \/ g.call \in {"body", "microtask"} /\ f.call = "eval"
    \/ g.call = "eval" /\ g.step = "spin" /\ f.call = "microtask"

ChainOK(s, n, mp, ptm, rc) ==
    /\ s \in Seq(Calls)
    /\ \A k \in DOMAIN s : s[k].call = "fetch" => FetchOK(s[k], n, mp, ptm, rc)
    /\ \A k \in DOMAIN s : s[k].call \in {"load", "eval"} /\ s[k].step # "fetch" => s[k].mod \in Mods
    /\ \A k \in DOMAIN s : IF k = 1 THEN s[k].call \in {"load", "eval", "microtask"}
                                    ELSE Invokes(s[k - 1], s[k], mp)
    /\ \A i, k \in DOMAIN s :
         s[i].call = "fetch" /\ s[k].call = "fetch" /\ s[i].mod = s[k].mod => i = k

\* A registered module that is not being fetched has all its requests.
Complete(s, ptm, rc) ==
    \A p \in Paths :
        ptm[p] # None /\ (\A k \in DOMAIN s : s[k].call = "fetch" => s[k].mod # ptm[p]) =>
            \A i \in DOMAIN Requests[p] : rc[ptm[p]][Requests[p][i]] # None

TreeOK(s, n, mp, ptm, rc) ==
    Tables(n, mp, ptm, rc) /\ ChainOK(s, n, mp, ptm, rc) /\ Complete(s, ptm, rc)

\* A load for import i is under way.
Loading(s, i) == \E k \in DOMAIN s : s[k].call = "load" /\ s[k].resolver = i

Typed ==
    /\ status \in [Mods -> {"none", "unlinked", "linked", "pending", "evaluated", "errored"}]
    /\ \A m \in Mods : m > made => status[m] = "none"
    /\ tracked \subseteq Mods
    /\ required \in [Paths -> {"none", "running", "done", "threw", "unread"}]
    /\ ret \in Mods \union {None, Fail}
    /\ main \in [Mains -> {"none", "loading", "failed", "evaluated", "pending", "errored"}]
    /\ dynamicImports \in [Paths -> Imports \union {None}]
    /\ queue \in Seq(Paths)
    /\ promise \in [Imports -> {"none", "pending", "fulfilled", "rejected"}]
    /\ waiting \in [Imports -> Mods \union {None}]
    /\ imports \in 0 .. MaxImports

\* A pending import is in the table, being loaded, or attached to a module
\* that awaits.
Promised ==
    \A i \in Imports : promise[i] = "pending" =>
        \/ \E p \in Paths : dynamicImports[p] = i
        \/ Loading(stack, i)
        \/ waiting[i] # None /\ status[waiting[i]] = "pending"

\* The table and the queued tasks are of the same paths, of ES modules.
Queued ==
    /\ \A k \in DOMAIN queue : dynamicImports[queue[k]] # None /\ Kind[queue[k]] = "esm"
    /\ \A k, l \in DOMAIN queue : queue[k] = queue[l] => k = l
    /\ \A p \in Paths : dynamicImports[p] # None => \E k \in DOMAIN queue : queue[k] = p

\* The inductive invariant.
IndInv ==
    /\ Typed
    /\ TreeOK(stack, made, modPath, pathToModule, resolveCache)
    /\ Promised
    /\ Queued

----------------------------------------------------------------------------
\* The chain of calls and the tables.

\* A chain without its last call.
LEMMA FrontFacts ==
    ASSUME NEW S, NEW s \in Seq(S), s # <<>>
    PROVE  /\ Len(s) \in Nat \ {0} /\ DOMAIN s = 1 .. Len(s)
           /\ Front(s) \in Seq(S) /\ Len(Front(s)) = Len(s) - 1
           /\ DOMAIN Front(s) = 1 .. Len(s) - 1
           /\ \A k \in 1 .. Len(s) - 1 : Front(s)[k] = s[k]
           /\ Last(s) = s[Len(s)] /\ s[Len(s)] \in S
<1>1. Len(s) \in Nat \ {0} /\ DOMAIN s = 1 .. Len(s)
  BY EmptySeq, LenProperties
<1>2. Front(s) = SubSeq(s, 1, Len(s) - 1)
  BY DEF Front
<1>3. Front(s) \in Seq(S) /\ Len(Front(s)) = Len(s) - 1
      /\ \A k \in 1 .. Len(s) - 1 : Front(s)[k] = s[k]
  BY <1>1, <1>2, SubSeqProperties
<1>4. DOMAIN Front(s) = 1 .. Len(s) - 1
  BY <1>3, LenProperties
<1>5. QED
  BY <1>1, <1>3, <1>4 DEF Last

\* Calls of one kind differ from those of another.
LEMMA CallKinds ==
    ASSUME NEW c \in Calls
    PROVE  /\ c.call \in {"load", "eval", "fetch", "body", "microtask"}
           /\ c.call \in {"load", "eval"} => c \in RootCalls
           /\ c.call = "fetch" => c \in FetchCalls
           /\ c.call = "body" => c \in BodyCalls
  BY DEF Calls, RootCalls, FetchCalls, BodyCalls, MicrotaskCalls

\* Leaving a call leaves the chain below it as it was.
LEMMA ChainShorter ==
    ASSUME NEW s, NEW n, NEW mp, NEW ptm, NEW rc,
           ChainOK(s, n, mp, ptm, rc), s # <<>>
    PROVE  ChainOK(Front(s), n, mp, ptm, rc)
<1> DEFINE t == Front(s)
<1>1. s \in Seq(Calls)
  BY DEF ChainOK
<1>2. /\ Len(s) \in Nat \ {0} /\ DOMAIN s = 1 .. Len(s)
      /\ t \in Seq(Calls) /\ DOMAIN t = 1 .. Len(s) - 1
      /\ \A k \in 1 .. Len(s) - 1 : t[k] = s[k]
  BY <1>1, FrontFacts
<1>3. \A k \in DOMAIN t : k \in DOMAIN s /\ t[k] = s[k] /\ (k # 1 => k - 1 \in DOMAIN t)
  BY <1>2
<1> HIDE DEF t
<1>4. \A k \in DOMAIN t : t[k].call = "fetch" => FetchOK(t[k], n, mp, ptm, rc)
  BY <1>3 DEF ChainOK
<1>5. \A k \in DOMAIN t : t[k].call \in {"load", "eval"} /\ t[k].step # "fetch" => t[k].mod \in Mods
  BY <1>3 DEF ChainOK
<1>6. \A k \in DOMAIN t : IF k = 1 THEN t[k].call \in {"load", "eval", "microtask"}
                                   ELSE Invokes(t[k - 1], t[k], mp)
  BY <1>3 DEF ChainOK
<1>7. \A i, k \in DOMAIN t :
         t[i].call = "fetch" /\ t[k].call = "fetch" /\ t[i].mod = t[k].mod => i = k
  BY <1>3 DEF ChainOK
<1>8. QED
  BY <1>2, <1>4, <1>5, <1>6, <1>7 DEF ChainOK, t

\* A load that is not the last call is still under way when that is left.
LEMMA LoadingBelow ==
    ASSUME NEW s \in Seq(Calls), s # <<>>, NEW i, Loading(s, i),
           ~ (Last(s).call = "load" /\ Last(s).resolver = i)
    PROVE  Loading(Front(s), i)
<1>1. PICK k \in DOMAIN s : s[k].call = "load" /\ s[k].resolver = i
  BY DEF Loading
<1>2. k \in DOMAIN Front(s) /\ Front(s)[k] = s[k]
  BY <1>1, FrontFacts
<1>3. QED
  BY <1>1, <1>2 DEF Loading

\* Leaving a call that is no fetch.
LEMMA LeaveOther ==
    ASSUME NEW s, NEW n, NEW mp, NEW ptm, NEW rc,
           TreeOK(s, n, mp, ptm, rc), s # <<>>, Last(s).call # "fetch"
    PROVE  TreeOK(Front(s), n, mp, ptm, rc)
<1>1. ChainOK(Front(s), n, mp, ptm, rc)
  BY ChainShorter DEF TreeOK
<1>2. s \in Seq(Calls)
  BY DEF TreeOK, ChainOK
<1>3. /\ DOMAIN s = 1 .. Len(s) /\ DOMAIN Front(s) = 1 .. Len(s) - 1 /\ Len(s) \in Nat \ {0}
      /\ \A k \in 1 .. Len(s) - 1 : Front(s)[k] = s[k]
      /\ s[Len(s)].call # "fetch"
  BY <1>2, FrontFacts
<1>4. \A p \in Paths :
        (\A k \in DOMAIN Front(s) : Front(s)[k].call = "fetch" => Front(s)[k].mod # ptm[p])
          => (\A k \in DOMAIN s : s[k].call = "fetch" => s[k].mod # ptm[p])
  BY <1>3
<1>5. Complete(Front(s), ptm, rc)
  BY <1>4 DEF TreeOK, Complete
<1>6. QED
  BY <1>1, <1>5 DEF TreeOK

\* Leaving a fetch whose requests have all been answered.
LEMMA LeaveFetch ==
    ASSUME NEW s, NEW n, NEW mp, NEW ptm, NEW rc,
           TreeOK(s, n, mp, ptm, rc), s # <<>>, Last(s).call = "fetch",
           Last(s).next > Len(Requests[mp[Last(s).mod]])
    PROVE  TreeOK(Front(s), n, mp, ptm, rc)
<1> DEFINE f == Last(s)
<1>1. ChainOK(Front(s), n, mp, ptm, rc)
  BY ChainShorter DEF TreeOK
<1>2. s \in Seq(Calls)
  BY DEF TreeOK, ChainOK
<1>3. /\ DOMAIN s = 1 .. Len(s) /\ DOMAIN Front(s) = 1 .. Len(s) - 1 /\ Len(s) \in Nat \ {0}
      /\ \A k \in 1 .. Len(s) - 1 : Front(s)[k] = s[k]
      /\ s[Len(s)] = f /\ f \in FetchCalls
  BY <1>2, FrontFacts, CallKinds
<1>4. FetchOK(f, n, mp, ptm, rc)
  BY <1>3 DEF TreeOK, ChainOK
<1> HIDE DEF f
<1>5. mp[f.mod] \in Paths /\ Requests[mp[f.mod]] \in Seq(Paths)
  BY <1>3, <1>4, EsmConstants DEF TreeOK, Tables, FetchOK, FetchCalls
<1>6. \A i \in DOMAIN Requests[mp[f.mod]] : rc[f.mod][Requests[mp[f.mod]][i]] # None
  <2>1. f.next \in Nat /\ f.next > Len(Requests[mp[f.mod]])
    BY <1>3 DEF FetchCalls, f
  <2>2. Len(Requests[mp[f.mod]]) \in Nat /\ DOMAIN Requests[mp[f.mod]] = 1 .. Len(Requests[mp[f.mod]])
    BY <1>5, LenProperties
  <2>3. f.next \in 1 .. Len(Requests[mp[f.mod]]) + 1
    BY <1>4 DEF FetchOK
  <2>4. DOMAIN Requests[mp[f.mod]] = 1 .. f.next - 1
    BY <2>1, <2>2, <2>3
  <2>5. QED
    BY <1>4, <2>4 DEF FetchOK
<1>7. ASSUME NEW p \in Paths, ptm[p] # None,
             \A k \in DOMAIN Front(s) : Front(s)[k].call = "fetch" => Front(s)[k].mod # ptm[p]
      PROVE  \A i \in DOMAIN Requests[p] : rc[ptm[p]][Requests[p][i]] # None
  <2>1. CASE ptm[p] = f.mod
    <3>1. mp[f.mod] = p
      BY <1>7, <2>1 DEF TreeOK, Tables
    <3>2. QED
      BY <3>1, <2>1, <1>6
  <2>2. CASE ptm[p] # f.mod
    <3>1. \A k \in DOMAIN s : s[k].call = "fetch" => s[k].mod # ptm[p]
      BY <1>3, <1>7, <2>2
    <3>2. QED
      BY <3>1, <1>7 DEF TreeOK, Complete
  <2>3. QED
    BY <2>1, <2>2
<1>8. Complete(Front(s), ptm, rc)
  BY <1>7 DEF Complete
<1>9. QED
  BY <1>1, <1>8 DEF TreeOK

\* A fetch that fails takes its module out of _pathToModule.
LEMMA UnwindFetch ==
    ASSUME NEW s, NEW n, NEW mp, NEW ptm, NEW rc,
           TreeOK(s, n, mp, ptm, rc), s # <<>>, Last(s).call = "fetch"
    PROVE  TreeOK(Front(s), n, mp, [ptm EXCEPT ![mp[Last(s).mod]] = None], rc)
<1> DEFINE f == Last(s)
           t == Front(s)
           ptm2 == [ptm EXCEPT ![mp[f.mod]] = None]
<1>1. ChainOK(t, n, mp, ptm, rc)
  BY ChainShorter DEF TreeOK
<1>2. s \in Seq(Calls) /\ ptm \in [Paths -> Mods \union {None}]
  BY DEF TreeOK, ChainOK, Tables
<1>3. /\ DOMAIN s = 1 .. Len(s) /\ DOMAIN t = 1 .. Len(s) - 1 /\ Len(s) \in Nat \ {0}
      /\ \A k \in 1 .. Len(s) - 1 : t[k] = s[k]
      /\ s[Len(s)] = f /\ f \in FetchCalls
  BY <1>2, FrontFacts, CallKinds
<1>4. \A k \in DOMAIN s : s[k].call = "fetch" => s[k].mod \in Mods
  BY <1>2, CallKinds DEF FetchCalls
<1>5. FetchOK(f, n, mp, ptm, rc) /\ f.mod \in Mods
  BY <1>3, <1>4 DEF TreeOK, ChainOK
<1>6. mp[f.mod] \in Paths /\ ptm[mp[f.mod]] = f.mod
  BY <1>5 DEF TreeOK, Tables, FetchOK
<1>7. \A p \in Paths : /\ ptm2[p] = IF p = mp[f.mod] THEN None ELSE ptm[p]
                       /\ ptm2[p] # None => ptm[p] # None /\ ptm2[p] = ptm[p] /\ ptm[p] # f.mod
  BY <1>2, <1>6 DEF TreeOK, Tables
<1>8. ptm2 \in [Paths -> Mods \union {None}]
  BY <1>2
<1>9. \A k \in DOMAIN t : t[k].call = "fetch" => t[k].mod # f.mod
  BY <1>3 DEF TreeOK, ChainOK
<1> HIDE DEF f, ptm2, t
<1>10. Tables(n, mp, ptm2, rc)
  BY <1>7, <1>8 DEF TreeOK, Tables
<1>11. ASSUME NEW k \in DOMAIN t, t[k].call = "fetch"
       PROVE  FetchOK(t[k], n, mp, ptm2, rc)
  <2>1. FetchOK(t[k], n, mp, ptm, rc) /\ t[k].mod # f.mod /\ t[k].mod \in Mods
    BY <1>1, <1>3, <1>4, <1>9, <1>11 DEF ChainOK
  <2>2. mp[t[k].mod] \in Paths /\ mp[t[k].mod] # mp[f.mod]
    BY <2>1, <1>6 DEF FetchOK, TreeOK, Tables
  <2>3. ptm2[mp[t[k].mod]] = ptm[mp[t[k].mod]]
    BY <2>2, <1>7
  <2>4. QED
    BY <2>1, <2>3 DEF FetchOK
<1>12. ChainOK(t, n, mp, ptm2, rc)
  BY <1>1, <1>11 DEF ChainOK
<1>13. ASSUME NEW p \in Paths, ptm2[p] # None,
              \A k \in DOMAIN t : t[k].call = "fetch" => t[k].mod # ptm2[p]
       PROVE  \A i \in DOMAIN Requests[p] : rc[ptm2[p]][Requests[p][i]] # None
  <2>1. ptm[p] # None /\ ptm2[p] = ptm[p] /\ ptm[p] # f.mod
    BY <1>7, <1>13
  <2>2. \A k \in DOMAIN s : s[k].call = "fetch" => s[k].mod # ptm[p]
    BY <2>1, <1>3, <1>13
  <2>3. QED
    BY <2>1, <2>2 DEF TreeOK, Complete
<1>14. Complete(t, ptm2, rc)
  BY <1>13 DEF Complete
<1>15. QED
  BY <1>10, <1>12, <1>14 DEF TreeOK, t, f, ptm2

\* The request at the top is answered with module m.
LEMMA AnswerRequest ==
    ASSUME NEW s, NEW n, NEW mp, NEW ptm, NEW rc, NEW m \in Mods,
           TreeOK(s, n, mp, ptm, rc), s # <<>>, Asking(Last(s), mp)
    PROVE  /\ TreeOK([s EXCEPT ![Len(s)].next = @ + 1], n, mp, ptm,
                     [rc EXCEPT ![Last(s).mod][Asked(Last(s), mp)] = m])
           /\ \A i : Loading(s, i) => Loading([s EXCEPT ![Len(s)].next = @ + 1], i)
<1> DEFINE f == Last(s)
           g == [f EXCEPT !.next = @ + 1]
           q == Asked(f, mp)
           t == [s EXCEPT ![Len(s)].next = @ + 1]
           rc2 == [rc EXCEPT ![f.mod][q] = m]
<1>1. s \in Seq(Calls) /\ rc \in [Mods -> [Paths -> Mods \union {None}]] /\ f.call = "fetch"
  BY DEF TreeOK, ChainOK, Tables, Asking
<1>2. /\ DOMAIN s = 1 .. Len(s) /\ Len(s) \in Nat \ {0} /\ Len(s) \in DOMAIN s
      /\ s[Len(s)] = f /\ f \in FetchCalls
  BY <1>1, FrontFacts, CallKinds
<1>3. FetchOK(f, n, mp, ptm, rc) /\ f.mod \in Mods /\ f.next \in Nat
  BY <1>1, <1>2 DEF TreeOK, ChainOK, FetchCalls
<1>4. g \in Calls /\ g.call = "fetch" /\ g.mod = f.mod /\ g.next = f.next + 1
  BY <1>2, <1>1 DEF FetchCalls, Calls
<1>5. /\ t \in Seq(Calls) /\ DOMAIN t = DOMAIN s
      /\ t[Len(s)] = g /\ \A k \in DOMAIN s : k # Len(s) => t[k] = s[k]
  <2>1. t = [s EXCEPT ![Len(s)] = g]
    BY <1>2
  <2>2. QED
    BY <2>1, <1>1, <1>2, <1>4, ExceptSeq
<1>6. mp[f.mod] \in Paths /\ Requests[mp[f.mod]] \in Seq(Paths)
  BY <1>3, EsmConstants DEF FetchOK, TreeOK, Tables
<1>7. Len(Requests[mp[f.mod]]) \in Nat /\ DOMAIN Requests[mp[f.mod]] = 1 .. Len(Requests[mp[f.mod]])
  BY <1>6, LenProperties
<1>8. f.next \in 1 .. Len(Requests[mp[f.mod]]) /\ q \in Paths
  BY <1>3, <1>6, <1>7, ElementOfSeq DEF FetchOK, Asking, Asked
<1>9. /\ rc2 \in [Mods -> [Paths -> Mods \union {None}]]
      /\ rc2[f.mod][q] = m
      /\ \A x \in Mods, p \in Paths : rc2[x][p] # rc[x][p] => rc2[x][p] = m
  BY <1>1, <1>3, <1>8
<1>10. m # None
  BY EsmConstants
<1>11. \A x \in Mods, p \in Paths : rc[x][p] # None => rc2[x][p] # None
  BY <1>9, <1>10
<1>12. \A k \in DOMAIN s : /\ t[k].call = s[k].call
                           /\ s[k].call = "fetch" => t[k].mod = s[k].mod /\ s[k].mod \in Mods
                           /\ s[k].call = "fetch" => FetchOK(s[k], n, mp, ptm, rc)
  BY <1>1, <1>2, <1>4, <1>5, CallKinds DEF FetchCalls, TreeOK, ChainOK
<1>13. q = Requests[mp[f.mod]][f.next] /\ Asking(f, mp)
  BY DEF Asked
<1> HIDE DEF f, g, q, t, rc2
<1>14. Tables(n, mp, ptm, rc2)
  BY <1>9 DEF TreeOK, Tables
<1>15. ASSUME NEW k \in DOMAIN t, t[k].call = "fetch"
       PROVE  FetchOK(t[k], n, mp, ptm, rc2)
  <2>1. FetchOK(s[k], n, mp, ptm, rc) /\ t[k].mod = s[k].mod /\ s[k].mod \in Mods
    BY <1>5, <1>12, <1>15
  <2>2. mp[s[k].mod] \in Paths /\ Requests[mp[s[k].mod]] \in Seq(Paths)
    BY <2>1, EsmConstants DEF FetchOK, TreeOK, Tables
  <2>3. Len(Requests[mp[s[k].mod]]) \in Nat
        /\ \A i \in 1 .. Len(Requests[mp[s[k].mod]]) : Requests[mp[s[k].mod]][i] \in Paths
    BY <2>2, LenProperties, ElementOfSeq
  <2>4. \A i \in 1 .. s[k].next - 1 : rc2[s[k].mod][Requests[mp[s[k].mod]][i]] # None
    <3>1. ASSUME NEW i \in 1 .. s[k].next - 1
          PROVE  rc2[s[k].mod][Requests[mp[s[k].mod]][i]] # None
      <4>1. Requests[mp[s[k].mod]][i] \in Paths
        BY <2>1, <2>3 DEF FetchOK
      <4>2. rc[s[k].mod][Requests[mp[s[k].mod]][i]] # None
        BY <2>1 DEF FetchOK
      <4>3. QED
        BY <4>1, <4>2, <2>1, <1>11
    <3>2. QED
      BY <3>1
  <2>5. CASE k = Len(s)
    <3>1. s[k] = f /\ t[k] = g
      BY <2>5, <1>2, <1>5
    <3>2. t[k].next = f.next + 1 /\ t[k].next - 1 = f.next
      BY <3>1, <1>4, <1>3
    <3>3. t[k].next \in 1 .. Len(Requests[mp[f.mod]]) + 1
      BY <3>2, <1>7, <1>8
    <3>4. \A i \in 1 .. f.next : rc2[f.mod][Requests[mp[f.mod]][i]] # None
      BY <3>1, <2>4, <1>3, <1>9, <1>10, <1>13
    <3>5. t[k].mod = f.mod /\ f.mod <= n /\ ptm[mp[f.mod]] = f.mod
      BY <3>1, <2>1 DEF FetchOK
    <3>6. QED
      BY <3>2, <3>3, <3>4, <3>5 DEF FetchOK
  <2>6. CASE k # Len(s)
    <3>1. t[k] = s[k]
      BY <2>6, <1>5
    <3>2. QED
      BY <3>1, <2>1, <2>4 DEF FetchOK
  <2>7. QED
    BY <2>5, <2>6
<1>16. \A k \in DOMAIN t : t[k].call \in {"load", "eval"} /\ t[k].step # "fetch" => t[k].mod \in Mods
  BY <1>4, <1>5 DEF TreeOK, ChainOK
<1>17. ASSUME NEW k \in DOMAIN t
       PROVE  IF k = 1 THEN t[k].call \in {"load", "eval", "microtask"} ELSE Invokes(t[k - 1], t[k], mp)
  <2>1. CASE k = 1
    BY <2>1, <1>5, <1>12 DEF TreeOK, ChainOK
  <2>2. CASE k # 1
    <3>1. k - 1 \in DOMAIN s /\ k - 1 # Len(s) /\ t[k - 1] = s[k - 1]
      BY <2>2, <1>2, <1>5
    <3>2. Invokes(s[k - 1], s[k], mp)
      BY <2>2, <1>5 DEF TreeOK, ChainOK
    <3>3. CASE k = Len(s)
      <4>1. s[k] = f /\ t[k] = g
        BY <3>3, <1>2, <1>5
      <4>2. f.call = "fetch"
        BY <1>13 DEF Asking
      <4>3. QED
        BY <4>1, <4>2, <3>1, <3>2, <1>4, <2>2 DEF Invokes
    <3>4. CASE k # Len(s)
      BY <3>4, <3>1, <3>2, <1>5, <2>2
    <3>5. QED
      BY <3>3, <3>4
  <2>3. QED
    BY <2>1, <2>2
<1>18. \A i, k \in DOMAIN t :
         t[i].call = "fetch" /\ t[k].call = "fetch" /\ t[i].mod = t[k].mod => i = k
  BY <1>5, <1>12 DEF TreeOK, ChainOK
<1>19. ChainOK(t, n, mp, ptm, rc2)
  BY <1>5, <1>15, <1>16, <1>17, <1>18 DEF ChainOK
<1>20. ASSUME NEW p \in Paths, ptm[p] # None,
              \A k \in DOMAIN t : t[k].call = "fetch" => t[k].mod # ptm[p]
       PROVE  \A i \in DOMAIN Requests[p] : rc2[ptm[p]][Requests[p][i]] # None
  <2>1. \A k \in DOMAIN s : s[k].call = "fetch" => s[k].mod # ptm[p]
    BY <1>5, <1>12, <1>20
  <2>2. \A i \in DOMAIN Requests[p] : rc[ptm[p]][Requests[p][i]] # None
    BY <2>1, <1>20 DEF TreeOK, Complete
  <2>3. ptm[p] \in Mods /\ \A i \in DOMAIN Requests[p] : Requests[p][i] \in Paths
    BY <1>20, EsmConstants, ElementOfSeq, LenProperties DEF TreeOK, Tables
  <2>4. QED
    BY <2>2, <2>3, <1>11
<1>21. Complete(t, ptm, rc2)
  BY <1>20 DEF Complete
<1>22. ASSUME NEW i, Loading(s, i) PROVE Loading(t, i)
  <2>1. PICK k \in DOMAIN s : s[k].call = "load" /\ s[k].resolver = i
    BY <1>22 DEF Loading
  <2>2. k # Len(s)
    BY <2>1, <1>2, <1>13 DEF Asking
  <2>3. t[k] = s[k] /\ k \in DOMAIN t
    BY <2>2, <1>5
  <2>4. QED
    BY <2>1, <2>3 DEF Loading
<1>23. QED
  BY <1>14, <1>19, <1>21, <1>22 DEF TreeOK, t, q, f, rc2

\* A module that is made is in no table yet.
LEMMA MakeModule ==
    ASSUME NEW s, NEW n, NEW mp, NEW ptm, NEW rc, NEW p \in Paths,
           TreeOK(s, n, mp, ptm, rc), n < MaxMods,
           NEW mp2, mp2 = [mp EXCEPT ![n + 1] = p]
    PROVE  /\ TreeOK(s, n + 1, mp2, ptm, rc)
           /\ n + 1 \in Mods /\ mp2[n + 1] = p
           /\ \A k \in DOMAIN s : s[k].call = "fetch" => mp2[s[k].mod] = mp[s[k].mod]
<1>1. /\ n \in Nat /\ n + 1 \in Mods /\ MaxMods \in Nat
      /\ mp \in [Mods -> Paths \union {None}] /\ s \in Seq(Calls)
  BY EsmConstants DEF TreeOK, Tables, ChainOK, Mods
<1>2. /\ mp2 \in [Mods -> Paths \union {None}] /\ mp2[n + 1] = p
      /\ \A m \in Mods : m # n + 1 => mp2[m] = mp[m]
  BY <1>1
<1>3. \A k \in DOMAIN s : s[k].call = "fetch" =>
        /\ s[k].mod \in Mods /\ s[k].mod <= n /\ FetchOK(s[k], n, mp, ptm, rc)
  BY <1>1, CallKinds DEF TreeOK, ChainOK, FetchCalls, FetchOK
<1>4. \A m \in Mods : m <= n => mp2[m] = mp[m] /\ m # n + 1
  BY <1>1, <1>2 DEF Mods
<1>5. \A k \in DOMAIN s : s[k].call = "fetch" => mp2[s[k].mod] = mp[s[k].mod]
  BY <1>3, <1>4
<1>6. Tables(n + 1, mp2, ptm, rc)
  <2>1. n + 1 \in 0 .. MaxMods
    BY <1>1 DEF Mods
  <2>2. \A m \in Mods : m <= n + 1 => mp2[m] \in Paths
    BY <1>1, <1>2, <1>4 DEF TreeOK, Tables, Mods
  <2>3. ASSUME NEW q \in Paths, ptm[q] # None PROVE ptm[q] <= n + 1 /\ mp2[ptm[q]] = q
    <3>1. ptm[q] \in Mods /\ ptm[q] <= n /\ mp[ptm[q]] = q
      BY <2>3 DEF TreeOK, Tables
    <3>2. QED
      BY <3>1, <1>1, <1>4 DEF Mods
  <2>4. QED
    BY <2>1, <2>2, <2>3, <1>2 DEF TreeOK, Tables
<1>7. ASSUME NEW k \in DOMAIN s, s[k].call = "fetch"
      PROVE  FetchOK(s[k], n + 1, mp2, ptm, rc)
  <2>1. FetchOK(s[k], n, mp, ptm, rc) /\ s[k].mod \in Nat /\ mp2[s[k].mod] = mp[s[k].mod]
    BY <1>3, <1>5, <1>7 DEF Mods
  <2>2. QED
    BY <2>1, <1>1 DEF FetchOK
<1>8. ASSUME NEW k \in DOMAIN s
      PROVE  IF k = 1 THEN s[k].call \in {"load", "eval", "microtask"} ELSE Invokes(s[k - 1], s[k], mp2)
  <2>1. CASE k = 1
    BY <2>1 DEF TreeOK, ChainOK
  <2>2. CASE k # 1
    <3>1. Invokes(s[k - 1], s[k], mp)
      BY <2>2 DEF TreeOK, ChainOK
    <3>2. k - 1 \in DOMAIN s
      BY <1>1, <2>2, LenProperties
    <3>3. /\ s[k].call = "fetch" => mp2[s[k].mod] = mp[s[k].mod]
          /\ s[k - 1].call = "fetch" => mp2[s[k - 1].mod] = mp[s[k - 1].mod]
      BY <3>2, <1>5
    <3>4. Invokes(s[k - 1], s[k], mp2)
      BY <3>1, <3>3 DEF Invokes, Asking, Asked
    <3>5. QED
      BY <3>4, <2>2
  <2>3. QED
    BY <2>1, <2>2
<1>9. ChainOK(s, n + 1, mp2, ptm, rc)
  BY <1>7, <1>8 DEF TreeOK, ChainOK
<1>10. TreeOK(s, n + 1, mp2, ptm, rc)
  BY <1>6, <1>9 DEF TreeOK
<1>11. QED
  BY <1>1, <1>2, <1>5, <1>10

\* The chain with one call more.
LEMMA AppendFacts ==
    ASSUME NEW s \in Seq(Calls), NEW c \in Calls
    PROVE  /\ Append(s, c) \in Seq(Calls)
           /\ Len(s) \in Nat /\ DOMAIN s = 1 .. Len(s) /\ DOMAIN Append(s, c) = 1 .. Len(s) + 1
           /\ \A k \in 1 .. Len(s) : Append(s, c)[k] = s[k]
           /\ Append(s, c)[Len(s) + 1] = c
           /\ \A i : Loading(s, i) => Loading(Append(s, c), i)
<1>1. /\ Append(s, c) \in Seq(Calls) /\ Len(Append(s, c)) = Len(s) + 1
      /\ \A k \in 1 .. Len(s) : Append(s, c)[k] = s[k]
      /\ Append(s, c)[Len(s) + 1] = c
  BY AppendProperties
<1>2. Len(s) \in Nat /\ DOMAIN s = 1 .. Len(s) /\ DOMAIN Append(s, c) = 1 .. Len(s) + 1
  BY <1>1, LenProperties
<1>3. ASSUME NEW i, Loading(s, i) PROVE Loading(Append(s, c), i)
  <2>1. PICK k \in DOMAIN s : s[k].call = "load" /\ s[k].resolver = i
    BY <1>3 DEF Loading
  <2>2. k \in DOMAIN Append(s, c) /\ Append(s, c)[k] = s[k]
    BY <1>1, <1>2
  <2>3. QED
    BY <2>1, <2>2 DEF Loading
<1>4. QED
  BY <1>1, <1>2, <1>3

\* A load, an evaluation or a body begins.
LEMMA EnterOther ==
    ASSUME NEW s, NEW n, NEW mp, NEW ptm, NEW rc, NEW c \in Calls,
           TreeOK(s, n, mp, ptm, rc), c.call # "fetch",
           c.call \in {"load", "eval"} => c.step = "fetch",
           IF s = <<>> THEN c.call \in {"load", "eval", "microtask"} ELSE Invokes(Last(s), c, mp)
    PROVE  TreeOK(Append(s, c), n, mp, ptm, rc)
<1> DEFINE t == Append(s, c)
<1>1. s \in Seq(Calls) /\ Last(s) = s[Len(s)]
  BY DEF TreeOK, ChainOK, Last
<1>2. /\ t \in Seq(Calls)
      /\ Len(s) \in Nat /\ DOMAIN s = 1 .. Len(s) /\ DOMAIN t = 1 .. Len(s) + 1
      /\ \A k \in 1 .. Len(s) : t[k] = s[k]
      /\ t[Len(s) + 1] = c
  BY <1>1, AppendFacts
<1>3. s = <<>> <=> Len(s) = 0
  BY <1>1, EmptySeq
<1> HIDE DEF t
<1>4. \A k \in DOMAIN t : t[k].call = "fetch" => k \in DOMAIN s /\ t[k] = s[k]
  BY <1>2
<1>5. \A k \in DOMAIN t : t[k].call = "fetch" => FetchOK(t[k], n, mp, ptm, rc)
  BY <1>4 DEF TreeOK, ChainOK
<1>6. \A k \in DOMAIN t : t[k].call \in {"load", "eval"} /\ t[k].step # "fetch" => t[k].mod \in Mods
  BY <1>2 DEF TreeOK, ChainOK
<1>7. ASSUME NEW k \in DOMAIN t
      PROVE  IF k = 1 THEN t[k].call \in {"load", "eval", "microtask"} ELSE Invokes(t[k - 1], t[k], mp)
  <2>1. CASE k = Len(s) + 1
    BY <2>1, <1>1, <1>2, <1>3
  <2>2. CASE k # Len(s) + 1
    <3>1. k \in DOMAIN s /\ t[k] = s[k] /\ (k # 1 => t[k - 1] = s[k - 1])
      BY <2>2, <1>2
    <3>2. QED
      BY <3>1 DEF TreeOK, ChainOK
  <2>3. QED
    BY <2>1, <2>2
<1>8. \A i, k \in DOMAIN t :
         t[i].call = "fetch" /\ t[k].call = "fetch" /\ t[i].mod = t[k].mod => i = k
  BY <1>4 DEF TreeOK, ChainOK
<1>9. ChainOK(t, n, mp, ptm, rc)
  BY <1>2, <1>5, <1>6, <1>7, <1>8 DEF ChainOK
<1>10. \A k \in DOMAIN s : k \in DOMAIN t /\ t[k] = s[k]
  BY <1>2
<1>11. Complete(t, ptm, rc)
  BY <1>10 DEF TreeOK, Complete
<1>12. QED
  BY <1>9, <1>11 DEF TreeOK, t

\* A module is registered and its requests are next.
LEMMA EnterFetch ==
    ASSUME NEW s, NEW n, NEW mp, NEW ptm, NEW rc, NEW p \in Paths, NEW m \in Mods,
           TreeOK(s, n, mp, ptm, rc), m <= n, mp[m] = p, ptm[p] = None,
           s # <<>>,
           \/ Last(s).call \in {"load", "eval"} /\ Last(s).step = "fetch" /\ Last(s).path = p
           \/ Asking(Last(s), mp) /\ Asked(Last(s), mp) = p
    PROVE  TreeOK(Append(s, FetchCall(m)), n, mp, [ptm EXCEPT ![p] = m], rc)
<1> DEFINE c == FetchCall(m)
           t == Append(s, c)
           ptm2 == [ptm EXCEPT ![p] = m]
<1>1. s \in Seq(Calls) /\ Last(s) = s[Len(s)] /\ ptm \in [Paths -> Mods \union {None}]
  BY DEF TreeOK, ChainOK, Tables, Last
<1>2. c \in Calls /\ c.call = "fetch" /\ c.mod = m /\ c.next = 1
  BY DEF FetchCall, Calls, FetchCalls
<1>3. /\ t \in Seq(Calls)
      /\ Len(s) \in Nat /\ DOMAIN s = 1 .. Len(s) /\ DOMAIN t = 1 .. Len(s) + 1
      /\ \A k \in 1 .. Len(s) : t[k] = s[k]
      /\ t[Len(s) + 1] = c
  BY <1>1, <1>2, AppendFacts
<1>4. Len(s) # 0
  BY <1>1, EmptySeq
<1>5. /\ ptm2 \in [Paths -> Mods \union {None}] /\ ptm2[p] = m
      /\ \A q \in Paths : q # p => ptm2[q] = ptm[q]
  BY <1>1
<1>6. m # None /\ Len(Requests[p]) \in Nat
  BY EsmConstants, LenProperties
<1>7. \A k \in DOMAIN s : s[k].call = "fetch" =>
        s[k].mod \in Mods /\ FetchOK(s[k], n, mp, ptm, rc)
  BY <1>1, CallKinds DEF FetchCalls, TreeOK, ChainOK
<1>8. \A k \in DOMAIN s : s[k].call = "fetch" => mp[s[k].mod] \in Paths /\ mp[s[k].mod] # p
  BY <1>6, <1>7, EsmConstants DEF FetchOK, TreeOK, Tables
<1> HIDE DEF c, t, ptm2
<1>9. Tables(n, mp, ptm2, rc)
  BY <1>5 DEF TreeOK, Tables
<1>10. ASSUME NEW k \in DOMAIN t, t[k].call = "fetch"
       PROVE  FetchOK(t[k], n, mp, ptm2, rc)
  <2>1. CASE k = Len(s) + 1
    BY <2>1, <1>2, <1>3, <1>5, <1>6 DEF FetchOK
  <2>2. CASE k # Len(s) + 1
    <3>1. k \in DOMAIN s /\ t[k] = s[k]
      BY <2>2, <1>3
    <3>2. ptm2[mp[s[k].mod]] = ptm[mp[s[k].mod]]
      BY <3>1, <1>5, <1>8, <1>10
    <3>3. QED
      BY <3>1, <3>2, <1>7, <1>10 DEF FetchOK
  <2>3. QED
    BY <2>1, <2>2
<1>11. \A k \in DOMAIN t : t[k].call \in {"load", "eval"} /\ t[k].step # "fetch" => t[k].mod \in Mods
  BY <1>2, <1>3 DEF TreeOK, ChainOK
<1>12. ASSUME NEW k \in DOMAIN t
      PROVE  IF k = 1 THEN t[k].call \in {"load", "eval", "microtask"} ELSE Invokes(t[k - 1], t[k], mp)
  <2>1. CASE k = Len(s) + 1
    <3>1. k # 1 /\ t[k - 1] = Last(s) /\ t[k] = c
      BY <2>1, <1>1, <1>3, <1>4
    <3>2. QED
      BY <3>1, <1>2 DEF Invokes
  <2>2. CASE k # Len(s) + 1
    <3>1. k \in DOMAIN s /\ t[k] = s[k] /\ (k # 1 => t[k - 1] = s[k - 1])
      BY <2>2, <1>3
    <3>2. QED
      BY <3>1 DEF TreeOK, ChainOK
  <2>3. QED
    BY <2>1, <2>2
<1>13. ASSUME NEW i \in DOMAIN t, NEW k \in DOMAIN t,
              t[i].call = "fetch", t[k].call = "fetch", t[i].mod = t[k].mod
       PROVE  i = k
  <2>1. \A j \in DOMAIN s : s[j].call = "fetch" => s[j].mod # m
    BY <1>8
  <2>2. QED
    BY <2>1, <1>2, <1>3, <1>13 DEF TreeOK, ChainOK
<1>14. ChainOK(t, n, mp, ptm2, rc)
  BY <1>3, <1>10, <1>11, <1>12, <1>13 DEF ChainOK
<1>15. ASSUME NEW q \in Paths, ptm2[q] # None,
              \A k \in DOMAIN t : t[k].call = "fetch" => t[k].mod # ptm2[q]
       PROVE  \A i \in DOMAIN Requests[q] : rc[ptm2[q]][Requests[q][i]] # None
  <2>1. q # p
    BY <1>2, <1>3, <1>5, <1>15
  <2>2. ptm2[q] = ptm[q]
    BY <2>1, <1>5
  <2>3. \A k \in DOMAIN s : s[k].call = "fetch" => s[k].mod # ptm[q]
    BY <2>2, <1>3, <1>15
  <2>4. QED
    BY <2>2, <2>3, <1>15 DEF TreeOK, Complete
<1>16. Complete(t, ptm2, rc)
  BY <1>15 DEF Complete
<1>17. QED
  BY <1>9, <1>14, <1>16 DEF TreeOK, t, c, ptm2

\* LoadModule or EvalScript takes its next step.
LEMMA GotoStep ==
    ASSUME NEW s, NEW n, NEW mp, NEW ptm, NEW rc, NEW m \in Mods, NEW st \in {"eval", "spin"},
           TreeOK(s, n, mp, ptm, rc), s # <<>>, Last(s).call \in {"load", "eval"}
    PROVE  /\ TreeOK([s EXCEPT ![Len(s)].step = st, ![Len(s)].mod = m], n, mp, ptm, rc)
           /\ \A i : Loading(s, i) =>
                Loading([s EXCEPT ![Len(s)].step = st, ![Len(s)].mod = m], i)
<1> DEFINE t == [s EXCEPT ![Len(s)].step = st, ![Len(s)].mod = m]
           r == Last(s)
           r2 == [r EXCEPT !.step = st, !.mod = m]
<1>1. s \in Seq(Calls)
  BY DEF TreeOK, ChainOK
<1>2. /\ DOMAIN s = 1 .. Len(s) /\ Len(s) \in Nat \ {0} /\ Len(s) \in DOMAIN s
      /\ s[Len(s)] = r /\ r \in RootCalls
  BY <1>1, FrontFacts, CallKinds
<1>3. r2 \in Calls /\ r2.call = r.call /\ r2.resolver = r.resolver /\ r2.step = st /\ r2.mod = m
  BY <1>2 DEF RootCalls, Calls
<1>4. /\ t \in Seq(Calls) /\ DOMAIN t = DOMAIN s
      /\ t[Len(s)] = r2 /\ \A k \in DOMAIN s : k # Len(s) => t[k] = s[k]
  <2>1. t = [s EXCEPT ![Len(s)] = r2]
    BY <1>2
  <2>2. [s EXCEPT ![Len(s)] = r2] \in Seq(Calls) /\ DOMAIN [s EXCEPT ![Len(s)] = r2] = DOMAIN s
    BY <1>1, <1>2, <1>3, ExceptSeq
  <2>3. [s EXCEPT ![Len(s)] = r2][Len(s)] = r2
        /\ \A k \in DOMAIN s : k # Len(s) => [s EXCEPT ![Len(s)] = r2][k] = s[k]
    BY <1>2
  <2>4. QED
    BY <2>1, <2>2, <2>3
<1>5. r.call \in {"load", "eval"}
  OBVIOUS
<1> HIDE DEF r, r2, t
<1>6. \A k \in DOMAIN s : t[k].call = s[k].call /\ (s[k].call = "fetch" => t[k] = s[k])
  BY <1>2, <1>3, <1>4, <1>5
<1>7. \A k \in DOMAIN t : t[k].call = "fetch" => FetchOK(t[k], n, mp, ptm, rc)
  BY <1>4, <1>6 DEF TreeOK, ChainOK
<1>8. \A k \in DOMAIN t : t[k].call \in {"load", "eval"} /\ t[k].step # "fetch" => t[k].mod \in Mods
  BY <1>3, <1>4 DEF TreeOK, ChainOK
<1>9. ASSUME NEW k \in DOMAIN t
      PROVE  IF k = 1 THEN t[k].call \in {"load", "eval", "microtask"} ELSE Invokes(t[k - 1], t[k], mp)
  <2>1. CASE k = 1
    BY <2>1, <1>4, <1>6 DEF TreeOK, ChainOK
  <2>2. CASE k # 1
    <3>1. k - 1 \in DOMAIN s /\ t[k - 1] = s[k - 1]
      BY <2>2, <1>2, <1>4
    <3>2. Invokes(s[k - 1], s[k], mp)
      BY <2>2, <1>4 DEF TreeOK, ChainOK
    <3>3. s[k].call \in {"load", "eval"} => t[k].call = s[k].call
      BY <1>6, <1>4
    <3>4. CASE k = Len(s)
      BY <3>1, <3>2, <3>4, <1>2, <1>3, <1>4, <1>5, <2>2 DEF Invokes
    <3>5. CASE k # Len(s)
      BY <3>1, <3>2, <3>5, <1>4, <2>2
    <3>6. QED
      BY <3>4, <3>5
  <2>3. QED
    BY <2>1, <2>2
<1>10. ASSUME NEW i \in DOMAIN t, NEW k \in DOMAIN t,
              t[i].call = "fetch", t[k].call = "fetch", t[i].mod = t[k].mod
       PROVE  i = k
  <2>1. t[i] = s[i] /\ t[k] = s[k] /\ i \in DOMAIN s /\ k \in DOMAIN s
    BY <1>4, <1>6, <1>10
  <2>2. QED
    BY <2>1, <1>10 DEF TreeOK, ChainOK
<1>11. ChainOK(t, n, mp, ptm, rc)
  BY <1>4, <1>7, <1>8, <1>9, <1>10 DEF ChainOK
<1>12. Complete(t, ptm, rc)
  BY <1>4, <1>6 DEF TreeOK, Complete
<1>13. ASSUME NEW i, Loading(s, i) PROVE Loading(t, i)
  <2>1. PICK k \in DOMAIN s : s[k].call = "load" /\ s[k].resolver = i
    BY <1>13 DEF Loading
  <2>2. t[k].call = "load" /\ t[k].resolver = i /\ k \in DOMAIN t
    BY <2>1, <1>2, <1>3, <1>4
  <2>3. QED
    BY <2>2 DEF Loading
<1>14. QED
  BY <1>11, <1>12, <1>13 DEF TreeOK, t

----------------------------------------------------------------------------
\* The actions.

LEMMA InitInv == Init => IndInv
<1> SUFFICES ASSUME Init PROVE IndInv
  OBVIOUS
<1>1. Typed
  BY EsmConstants DEF Init, Typed
<1>2. Tables(made, modPath, pathToModule, resolveCache)
  <2>1. 0 \in 0 .. MaxMods /\ \A m \in Mods : ~ (m <= 0)
    BY EsmConstants DEF Mods
  <2>2. QED
    BY <2>1 DEF Init, Tables
<1>3. ChainOK(stack, made, modPath, pathToModule, resolveCache)
  <2>1. stack = <<>> /\ stack \in Seq(Calls) /\ DOMAIN stack = {}
    BY EmptySeq DEF Init
  <2>2. QED
    BY <2>1 DEF ChainOK
<1>4. Complete(stack, pathToModule, resolveCache)
  BY DEF Init, Complete
<1>5. Promised
  BY DEF Init, Promised
<1>6. Queued
  <2>1. DOMAIN queue = {}
    BY EmptySeq DEF Init
  <2>2. QED
    BY <2>1 DEF Init, Queued
<1>7. QED
  BY <1>1, <1>2, <1>3, <1>4, <1>5, <1>6 DEF IndInv, TreeOK

\* The last call.
LEMMA TopFacts ==
    ASSUME IndInv, stack # <<>>
    PROVE  /\ stack \in Seq(Calls) /\ Top = Last(stack) /\ Top = stack[Len(stack)]
           /\ Len(stack) \in Nat \ {0} /\ DOMAIN stack = 1 .. Len(stack)
           /\ Top \in Calls
           /\ Top.call \in {"load", "eval"} =>
                /\ Top \in RootCalls /\ Top.path \in Paths /\ Top.resolver \in Imports \union {None}
                /\ Top.step # "fetch" => Top.mod \in Mods
           /\ Top.call = "body" => Top \in BodyCalls /\ Top.path \in Paths
           /\ Top.call = "fetch" =>
                /\ Top \in FetchCalls /\ Top.mod \in Mods /\ Top.mod <= made
                /\ modPath[Top.mod] \in Paths /\ Requests[modPath[Top.mod]] \in Seq(Paths)
                /\ Top.next \in 1 .. Len(Requests[modPath[Top.mod]]) + 1
           /\ Top.call \in {"fetch", "body"} =>
                /\ Front(stack) # <<>>
                /\ Invokes(Last(Front(stack)), Top, modPath)
<1>1. stack \in Seq(Calls) /\ Top = Last(stack)
  BY DEF IndInv, TreeOK, ChainOK, Top
<1>2. /\ Len(stack) \in Nat \ {0} /\ DOMAIN stack = 1 .. Len(stack) /\ Len(stack) \in DOMAIN stack
      /\ Top = stack[Len(stack)] /\ Top \in Calls
      /\ Front(stack) \in Seq(Calls) /\ Len(Front(stack)) = Len(stack) - 1
      /\ \A k \in 1 .. Len(stack) - 1 : Front(stack)[k] = stack[k]
  BY <1>1, FrontFacts
<1>3. Top.call \in {"load", "eval"} =>
        /\ Top \in RootCalls /\ Top.path \in Paths /\ Top.resolver \in Imports \union {None}
        /\ Top.step # "fetch" => Top.mod \in Mods
  BY <1>2, CallKinds DEF RootCalls, IndInv, TreeOK, ChainOK
<1>4. Top.call = "body" => Top \in BodyCalls /\ Top.path \in Paths
  BY <1>2, CallKinds DEF BodyCalls
<1>5. ASSUME Top.call = "fetch"
      PROVE  /\ Top \in FetchCalls /\ Top.mod \in Mods /\ Top.mod <= made
             /\ modPath[Top.mod] \in Paths /\ Requests[modPath[Top.mod]] \in Seq(Paths)
             /\ Top.next \in 1 .. Len(Requests[modPath[Top.mod]]) + 1
  <2>1. Top \in FetchCalls /\ Top.mod \in Mods
    BY <1>2, <1>5, CallKinds DEF FetchCalls
  <2>2. FetchOK(Top, made, modPath, pathToModule, resolveCache)
    BY <1>2, <1>5 DEF IndInv, TreeOK, ChainOK
  <2>3. modPath[Top.mod] \in Paths /\ Top.mod <= made
    BY <2>1, <2>2 DEF IndInv, TreeOK, Tables, FetchOK
  <2>4. QED
    BY <2>1, <2>2, <2>3, EsmConstants DEF FetchOK
<1>6. ASSUME Top.call \in {"fetch", "body"}
      PROVE  Front(stack) # <<>> /\ Invokes(Last(Front(stack)), Top, modPath)
  <2>1. Len(stack) # 1
    BY <1>2, <1>6 DEF IndInv, TreeOK, ChainOK
  <2>2. Invokes(stack[Len(stack) - 1], Top, modPath)
    BY <1>2, <2>1 DEF IndInv, TreeOK, ChainOK
  <2>3. Len(Front(stack)) # 0 /\ Last(Front(stack)) = stack[Len(stack) - 1]
    BY <1>2, <2>1 DEF Last
  <2>4. QED
    BY <2>2, <2>3, <1>2, EmptySeq
<1>7. QED
  BY <1>1, <1>2, <1>3, <1>4, <1>5, <1>6

\* What the fetches leave alone: imports stay where they were.
LEMMA ImportsKept ==
    ASSUME IndInv, UNCHANGED importVars,
           \A i \in Imports : Loading(stack, i) => Loading(stack', i),
           \A x \in Mods : status[x] = "pending" => status'[x] = "pending"
    PROVE  Promised' /\ Queued'
<1>1. Queued'
  BY DEF IndInv, Queued, importVars
<1>2. \A i \in Imports : waiting[i] # None => waiting[i] \in Mods
  BY DEF IndInv, Typed
<1>3. Promised'
  BY <1>2 DEF IndInv, Promised, importVars
<1>4. QED
  BY <1>1, <1>3

\* The top is a request.
LEMMA RequestFacts ==
    ASSUME IndInv, Requesting
    PROVE  /\ stack # <<>> /\ Asking(Last(stack), modPath)
           /\ Request = Asked(Last(stack), modPath) /\ Request \in Paths
<1>1. stack # <<>> /\ Top.call = "fetch" /\ Top.next <= Len(Requests[modPath[Top.mod]])
  BY DEF Requesting, On
<1>2. /\ Top = Last(stack) /\ Requests[modPath[Top.mod]] \in Seq(Paths)
      /\ Top.next \in 1 .. Len(Requests[modPath[Top.mod]]) + 1
  BY <1>1, TopFacts
<1>3. Request \in Paths
  BY <1>1, <1>2, ElementOfSeq DEF Request
<1>4. QED
  BY <1>1, <1>2, <1>3 DEF Asking, Asked, Request

\* A new module, and the status of all.
LEMMA MadeTyped ==
    ASSUME IndInv, made < MaxMods, made' = made + 1,
           NEW st \in {"unlinked", "evaluated"},
           status' = [status EXCEPT ![made + 1] = st]
    PROVE  /\ made + 1 \in Mods
           /\ status' \in [Mods -> {"none", "unlinked", "linked", "pending", "evaluated", "errored"}]
           /\ \A m \in Mods : m > made' => status'[m] = "none"
           /\ \A x \in Mods : status[x] = "pending" => status'[x] = "pending"
<1>1. made \in Nat /\ MaxMods \in Nat
  BY EsmConstants DEF IndInv, TreeOK, Tables
<1>2. made + 1 \in Mods /\ status[made + 1] = "none"
  BY <1>1 DEF IndInv, Typed, Mods
<1>3. \A m \in Mods : m > made + 1 => m > made /\ m # made + 1
  BY <1>1 DEF Mods
<1>4. QED
  BY <1>2, <1>3 DEF IndInv, Typed

\* FetchESModuleTree of a path that is not registered.
LEMMA FetchFileInv ==
    ASSUME IndInv, NEW p \in Paths, stack # <<>>, FetchFile(p),
           \/ Top.call \in {"load", "eval"} /\ Top.step = "fetch" /\ Top.path = p
           \/ Asking(Top, modPath) /\ Asked(Top, modPath) = p,
           UNCHANGED <<required, main, importVars>>
    PROVE  IndInv'
<1>1. CASE p \in Breakable /\ ret' = Fail /\ UNCHANGED <<modVars, stack>>
  <2>1. Typed'
    BY <1>1 DEF IndInv, Typed, modVars, importVars
  <2>2. TreeOK(stack, made, modPath, pathToModule, resolveCache)'
    BY <1>1 DEF IndInv, modVars
  <2>3. Promised' /\ Queued'
    BY <1>1, ImportsKept DEF modVars
  <2>4. QED
    BY <2>1, <2>2, <2>3 DEF IndInv
<1>2. CASE Register(p) /\ stack' = Append(stack, FetchCall(made + 1))
           /\ UNCHANGED <<resolveCache, ret>>
  <2>1. /\ made < MaxMods /\ made' = made + 1 /\ modPath' = [modPath EXCEPT ![made + 1] = p]
        /\ status' = [status EXCEPT ![made + 1] = "unlinked"]
        /\ tracked' = tracked \union {made + 1}
        /\ pathToModule' = [pathToModule EXCEPT ![p] = made + 1]
        /\ resolveCache' = resolveCache /\ ret' = ret
    BY <1>2 DEF Register
  <2>2. TreeOK(stack, made, modPath, pathToModule, resolveCache) /\ made \in Nat
    BY DEF IndInv, TreeOK, Tables
  <2>3. /\ Top = Last(stack) /\ Top = stack[Len(stack)] /\ Len(stack) \in DOMAIN stack
        /\ stack \in Seq(Calls)
    BY TopFacts
  <2>4. /\ TreeOK(stack, made', modPath', pathToModule, resolveCache)
        /\ made + 1 \in Mods /\ modPath'[made + 1] = p
        /\ \A k \in DOMAIN stack : stack[k].call = "fetch" =>
             modPath'[stack[k].mod] = modPath[stack[k].mod]
    <3>1. made < MaxMods /\ modPath' = [modPath EXCEPT ![made + 1] = p]
      BY <2>1
    <3>2. made + 1 \in Mods /\ modPath'[made + 1] = p
      BY <3>1, <2>1, <2>2, MadeTyped DEF TreeOK, Tables
    <3>3. \A k \in DOMAIN stack : stack[k].call = "fetch" =>
             modPath'[stack[k].mod] = modPath[stack[k].mod]
      BY <3>1, <2>2, MakeModule
    <3>4. TreeOK(stack, made + 1, modPath', pathToModule, resolveCache)
      BY <3>1, <2>2, MakeModule
    <3>5. QED
      BY <3>2, <3>3, <3>4, <2>1
  <2>5. \/ Top.call \in {"load", "eval"} /\ Top.step = "fetch" /\ Top.path = p
        \/ Asking(Top, modPath') /\ Asked(Top, modPath') = p
    BY <2>3, <2>4 DEF Asking, Asked
  <2>6. pathToModule[p] = None /\ made + 1 <= made'
    BY <2>1, <2>2 DEF FetchFile
  <2>7. TreeOK(stack', made', modPath', pathToModule', resolveCache')
    BY <1>2, <2>1, <2>3, <2>4, <2>5, <2>6, EnterFetch
  <2>8. \A i \in Imports : Loading(stack, i) => Loading(stack', i)
    BY <1>2, <2>3, <2>4, AppendFacts DEF FetchCall, Calls, FetchCalls
  <2>9. /\ status' \in [Mods -> {"none", "unlinked", "linked", "pending", "evaluated", "errored"}]
        /\ \A m \in Mods : m > made' => status'[m] = "none"
        /\ \A x \in Mods : status[x] = "pending" => status'[x] = "pending"
    BY <2>1, MadeTyped
  <2>10. Promised' /\ Queued'
    BY <2>8, <2>9, ImportsKept
  <2>11. Typed'
    BY <2>1, <2>4, <2>9 DEF IndInv, Typed, importVars
  <2>12. QED
    BY <2>7, <2>10, <2>11 DEF IndInv
<1>3. QED
  BY <1>1, <1>2 DEF FetchFile

LEMMA FetchRootInv == IndInv /\ FetchRoot => IndInv'
<1> SUFFICES ASSUME IndInv, FetchRoot PROVE IndInv'
  OBVIOUS
<1>1. /\ stack # <<>> /\ Top.call \in {"load", "eval"} /\ Top.step = "fetch"
      /\ UNCHANGED <<required, main, importVars>>
  BY DEF FetchRoot, Rooted, On
<1>2. Top.path \in Paths
  BY <1>1, TopFacts
<1>3. CASE pathToModule[Top.path] # None /\ ret' = pathToModule[Top.path]
           /\ UNCHANGED <<modVars, stack>>
  <2>1. ret' \in Mods
    BY <1>2, <1>3 DEF IndInv, TreeOK, Tables
  <2>2. Typed'
    BY <1>1, <1>3, <2>1 DEF IndInv, Typed, modVars, importVars
  <2>3. TreeOK(stack, made, modPath, pathToModule, resolveCache)'
    BY <1>3 DEF IndInv, modVars
  <2>4. Promised' /\ Queued'
    BY <1>1, <1>3, ImportsKept DEF modVars
  <2>5. QED
    BY <2>2, <2>3, <2>4 DEF IndInv
<1>4. CASE FetchFile(Top.path)
  BY <1>1, <1>2, <1>4, FetchFileInv
<1>5. QED
  BY <1>3, <1>4 DEF FetchRoot

LEMMA FetchRequestInv == IndInv /\ FetchRequest => IndInv'
<1> SUFFICES ASSUME IndInv, FetchRequest PROVE IndInv'
  OBVIOUS
<1>1. Requesting /\ UNCHANGED <<required, main, importVars>>
  BY DEF FetchRequest
<1>2. /\ stack # <<>> /\ Asking(Last(stack), modPath)
      /\ Request = Asked(Last(stack), modPath) /\ Request \in Paths
  BY <1>1, RequestFacts
<1>3. CASE pathToModule[Request] # None /\ Answered(stack, Request, pathToModule[Request])
           /\ UNCHANGED <<made, modPath, status, tracked, pathToModule, ret>>
  <2>1. pathToModule[Request] \in Mods
    BY <1>2, <1>3 DEF IndInv, TreeOK, Tables
  <2>2. TreeOK(stack, made, modPath, pathToModule, resolveCache)
    BY DEF IndInv
  <2>3. /\ TreeOK(stack', made, modPath, pathToModule, resolveCache')
        /\ \A i : Loading(stack, i) => Loading(stack', i)
    BY <1>2, <1>3, <2>1, <2>2, AnswerRequest DEF Answered
  <2>4. Typed'
    BY <1>1, <1>3 DEF IndInv, Typed, importVars
  <2>5. Promised' /\ Queued'
    BY <1>1, <1>3, <2>3, ImportsKept
  <2>6. QED
    BY <1>3, <2>3, <2>4, <2>5 DEF IndInv
<1>4. CASE FetchFile(Request)
  <2>1. Top = Last(stack)
    BY <1>2, TopFacts
  <2>2. QED
    BY <1>1, <1>2, <1>4, <2>1, FetchFileInv
<1>5. QED
  BY <1>3, <1>4 DEF FetchRequest

\* A request is answered with a synthetic module.
LEMMA SyntheticInv ==
    ASSUME IndInv, NEW s, NEW p, NEW st \in {"unlinked", "evaluated"},
           TreeOK(s, made, modPath, pathToModule, resolveCache), s # <<>>,
           \A i \in Imports : Loading(stack, i) => Loading(s, i),
           Asking(Last(s), modPath), p = Asked(Last(s), modPath), p \in Paths,
           Synthetic(p, st), Answered(s, p, made + 1),
           tracked' \in {tracked, tracked \union {made + 1}},
           required' \in [Paths -> {"none", "running", "done", "threw", "unread"}],
           UNCHANGED <<ret, main, importVars>>
    PROVE  IndInv'
<1>1. /\ made < MaxMods /\ made' = made + 1 /\ modPath' = [modPath EXCEPT ![made + 1] = p]
      /\ status' = [status EXCEPT ![made + 1] = st] /\ pathToModule' = pathToModule
  BY DEF Synthetic
<1>2. /\ made + 1 \in Mods
      /\ status' \in [Mods -> {"none", "unlinked", "linked", "pending", "evaluated", "errored"}]
      /\ \A m \in Mods : m > made' => status'[m] = "none"
      /\ \A x \in Mods : status[x] = "pending" => status'[x] = "pending"
  BY <1>1, MadeTyped
<1>3. /\ TreeOK(stack', made, modPath, pathToModule, resolveCache')
      /\ \A i : Loading(s, i) => Loading(stack', i)
  BY <1>2, AnswerRequest DEF Answered
<1>4. TreeOK(stack', made', modPath', pathToModule', resolveCache')
  BY <1>1, <1>3, MakeModule
<1>5. Promised' /\ Queued'
  BY <1>2, <1>3, ImportsKept
<1>6. Typed'
  BY <1>2 DEF IndInv, Typed, importVars
<1>7. QED
  BY <1>4, <1>5, <1>6 DEF IndInv

LEMMA FetchExtensionInv == IndInv /\ FetchExtension => IndInv'
<1> SUFFICES ASSUME IndInv, FetchExtension PROVE IndInv'
  OBVIOUS
<1>1. Requesting /\ UNCHANGED <<required, main, importVars>>
  BY DEF FetchExtension
<1>2. /\ stack # <<>> /\ Asking(Last(stack), modPath)
      /\ Request = Asked(Last(stack), modPath) /\ Request \in Paths
  BY <1>1, RequestFacts
<1>3. CASE ret' = Fail /\ UNCHANGED <<modVars, stack>>
  <2>1. Typed'
    BY <1>1, <1>3 DEF IndInv, Typed, modVars, importVars
  <2>2. TreeOK(stack, made, modPath, pathToModule, resolveCache)'
    BY <1>3 DEF IndInv, modVars
  <2>3. Promised' /\ Queued'
    BY <1>1, <1>3, ImportsKept DEF modVars
  <2>4. QED
    BY <2>1, <2>2, <2>3 DEF IndInv
<1>4. CASE Synthetic(Request, "evaluated") /\ Answered(stack, Request, made + 1)
           /\ UNCHANGED <<tracked, ret>>
  <2>1. required' \in [Paths -> {"none", "running", "done", "threw", "unread"}]
    BY <1>1 DEF IndInv, Typed
  <2>2. QED
    BY <1>1, <1>2, <1>4, <2>1, SyntheticInv DEF IndInv
<1>5. QED
  BY <1>3, <1>4 DEF FetchExtension

\* A body or the evaluation of a required module begins.
LEMMA EnterInv ==
    ASSUME IndInv, NEW c \in Calls, c.call \in {"load", "eval", "body", "microtask"},
           c.call \in {"load", "eval"} => c.step = "fetch",
           IF stack = <<>> THEN c.call \in {"load", "eval", "microtask"} ELSE Invokes(Last(stack), c, modPath),
           stack' = Append(stack, c), UNCHANGED modVars
    PROVE  /\ TreeOK(stack, made, modPath, pathToModule, resolveCache)'
           /\ \A i : Loading(stack, i) => Loading(stack', i)
<1>1. TreeOK(stack, made, modPath, pathToModule, resolveCache) /\ stack \in Seq(Calls)
  BY DEF IndInv, TreeOK, ChainOK
<1>2. TreeOK(stack', made, modPath, pathToModule, resolveCache)
  BY <1>1, EnterOther
<1>3. \A i : Loading(stack, i) => Loading(stack', i)
  BY <1>1, AppendFacts
<1>4. QED
  BY <1>2, <1>3 DEF modVars

\* The last call, not a load or a fetch, is left.
LEMMA LeaveInv ==
    ASSUME IndInv, stack # <<>>, Top.call \in {"eval", "body", "microtask"}
    PROVE  /\ TreeOK(Front(stack), made, modPath, pathToModule, resolveCache)
           /\ \A i \in Imports : Loading(stack, i) => Loading(Front(stack), i)
<1>1. stack \in Seq(Calls) /\ Top = Last(stack)
  BY TopFacts
<1>2. TreeOK(stack, made, modPath, pathToModule, resolveCache)
  BY DEF IndInv
<1>3. TreeOK(Front(stack), made, modPath, pathToModule, resolveCache)
  BY <1>1, <1>2, LeaveOther
<1>4. \A i \in Imports : Loading(stack, i) => Loading(Front(stack), i)
  BY <1>1, LoadingBelow
<1>5. QED
  BY <1>3, <1>4

LEMMA FetchCjsInv == IndInv /\ FetchCjs => IndInv'
<1> SUFFICES ASSUME IndInv, FetchCjs PROVE IndInv'
  OBVIOUS
<1>1. Requesting /\ Kind[Request] = "cjs" /\ UNCHANGED <<main, importVars>>
  BY DEF FetchCjs
<1>2. /\ stack # <<>> /\ Asking(Last(stack), modPath)
      /\ Request = Asked(Last(stack), modPath) /\ Request \in Paths
  BY <1>1, RequestFacts
<1>3. required \in [Paths -> {"none", "running", "done", "threw", "unread"}]
  BY DEF IndInv, Typed
<1>4. CASE Wrapped(stack, Request) /\ UNCHANGED <<required, ret>>
  BY <1>1, <1>2, <1>3, <1>4, SyntheticInv DEF IndInv, Wrapped
<1>5. CASE /\ required' \in {required, [required EXCEPT ![Request] = "unread"]}
           /\ ret' = Fail /\ UNCHANGED <<modVars, stack>>
  <2>1. Typed'
    BY <1>1, <1>3, <1>5 DEF IndInv, Typed, modVars, importVars
  <2>2. TreeOK(stack, made, modPath, pathToModule, resolveCache)'
    BY <1>5 DEF IndInv, modVars
  <2>3. Promised' /\ Queued'
    BY <1>1, <1>5, ImportsKept DEF modVars
  <2>4. QED
    BY <2>1, <2>2, <2>3 DEF IndInv
<1>6. CASE /\ required' = [required EXCEPT ![Request] = "running"]
           /\ stack' = Append(stack, BodyCall(Request)) /\ UNCHANGED <<modVars, ret>>
  <2>1. /\ BodyCall(Request) \in Calls /\ BodyCall(Request).call = "body"
        /\ BodyCall(Request).path = Request
    BY <1>2 DEF BodyCall, Calls, BodyCalls
  <2>2. Invokes(Last(stack), BodyCall(Request), modPath)
    BY <1>1, <1>2, <2>1 DEF Invokes
  <2>3. /\ TreeOK(stack, made, modPath, pathToModule, resolveCache)'
        /\ \A i : Loading(stack, i) => Loading(stack', i)
    BY <1>2, <1>6, <2>1, <2>2, EnterInv
  <2>4. Typed'
    BY <1>1, <1>3, <1>6 DEF IndInv, Typed, modVars, importVars
  <2>5. Promised' /\ Queued'
    BY <1>1, <1>6, <2>3, ImportsKept DEF modVars
  <2>6. QED
    BY <2>3, <2>4, <2>5 DEF IndInv
<1>7. QED
  BY <1>4, <1>5, <1>6 DEF FetchCjs

LEMMA FetchReturnInv == IndInv /\ FetchReturn => IndInv'
<1> SUFFICES ASSUME IndInv, FetchReturn PROVE IndInv'
  OBVIOUS
<1> DEFINE below == Front(stack)
<1>1. /\ stack # <<>> /\ Top.call = "fetch" /\ Top.next > Len(Requests[modPath[Top.mod]])
      /\ UNCHANGED <<made, modPath, status, tracked, pathToModule, required, main, importVars>>
  BY DEF FetchReturn, On
<1>2. /\ stack \in Seq(Calls) /\ Top = Last(stack) /\ Top.mod \in Mods
      /\ below # <<>> /\ Invokes(Last(below), Top, modPath)
  BY <1>1, TopFacts
<1>3. TreeOK(below, made, modPath, pathToModule, resolveCache)
  BY <1>1, <1>2, LeaveFetch DEF IndInv
<1>4. \A i \in Imports : Loading(stack, i) => Loading(below, i)
  BY <1>1, <1>2, LoadingBelow
<1>5. /\ Last(below).call = "fetch" =>
           /\ Answered(below, modPath[Top.mod], Top.mod)
           /\ UNCHANGED ret
      /\ Last(below).call # "fetch" =>
           stack' = below /\ ret' = Top.mod /\ UNCHANGED resolveCache
  BY DEF FetchReturn
<1> HIDE DEF below
<1>6. CASE Last(below).call = "fetch"
  <2>1. Asking(Last(below), modPath) /\ Asked(Last(below), modPath) = modPath[Top.mod]
    BY <1>1, <1>2, <1>6 DEF Invokes
  <2>2. /\ TreeOK(stack', made, modPath, pathToModule, resolveCache')
        /\ \A i : Loading(below, i) => Loading(stack', i)
    <3>1. /\ resolveCache' = [resolveCache EXCEPT ![Last(below).mod][Asked(Last(below), modPath)] = Top.mod]
          /\ stack' = [below EXCEPT ![Len(below)].next = @ + 1]
      BY <1>5, <1>6, <2>1 DEF Answered
    <3>2. below # <<>> /\ Top.mod \in Mods
      BY <1>2
    <3>3. QED
      BY <3>1, <3>2, <1>3, <2>1, AnswerRequest
  <2>3. Typed'
    BY <1>1, <1>5, <1>6 DEF IndInv, Typed, importVars
  <2>4. Promised' /\ Queued'
    BY <1>1, <1>4, <2>2, ImportsKept
  <2>5. QED
    BY <1>1, <2>2, <2>3, <2>4 DEF IndInv
<1>7. CASE Last(below).call # "fetch"
  <2>1. stack' = below /\ ret' = Top.mod /\ resolveCache' = resolveCache
    BY <1>5, <1>7
  <2>2. Typed'
    BY <1>1, <1>2, <2>1 DEF IndInv, Typed, importVars
  <2>3. Promised' /\ Queued'
    BY <1>1, <1>4, <2>1, ImportsKept
  <2>4. QED
    BY <1>1, <1>3, <2>1, <2>2, <2>3 DEF IndInv
<1>8. QED
  BY <1>6, <1>7

LEMMA FetchUnwindInv == IndInv /\ FetchUnwind => IndInv'
<1> SUFFICES ASSUME IndInv, FetchUnwind PROVE IndInv'
  OBVIOUS
<1>1. /\ stack # <<>> /\ Top.call = "fetch" /\ stack' = Front(stack)
      /\ tracked' = tracked \ {Top.mod}
      /\ pathToModule' = [pathToModule EXCEPT ![modPath[Top.mod]] = None]
      /\ UNCHANGED <<made, modPath, status, resolveCache, ret, required, main, importVars>>
  BY DEF FetchUnwind, On, Unregister
<1>2. stack \in Seq(Calls) /\ Top = Last(stack)
  BY <1>1, TopFacts
<1>3. TreeOK(stack', made, modPath, pathToModule', resolveCache)
  BY <1>1, <1>2, UnwindFetch DEF IndInv
<1>4. \A i \in Imports : Loading(stack, i) => Loading(stack', i)
  BY <1>1, <1>2, LoadingBelow
<1>5. Typed'
  BY <1>1 DEF IndInv, Typed, importVars
<1>6. Promised' /\ Queued'
  BY <1>1, <1>4, ImportsKept
<1>7. QED
  BY <1>1, <1>3, <1>5, <1>6 DEF IndInv

\* require of an ES module, by a body or a callback.
LEMMA RequireEsmInv ==
    ASSUME IndInv, NEW q \in Paths, RequireEsm(q),
           stack = <<>> \/ (stack # <<>> /\ Top.call = "body")
    PROVE  IndInv'
<1>1. /\ required' = [required EXCEPT ![q] = "running"] /\ stack' = Append(stack, EvalCall(q))
      /\ UNCHANGED <<modVars, ret, main, importVars>>
  BY DEF RequireEsm
<1>2. EvalCall(q) \in Calls /\ EvalCall(q).call = "eval" /\ EvalCall(q).step = "fetch"
  BY DEF EvalCall, Calls, RootCalls
<1>3. stack # <<>> => Invokes(Last(stack), EvalCall(q), modPath)
  BY <1>2, TopFacts DEF Invokes
<1>4. /\ TreeOK(stack, made, modPath, pathToModule, resolveCache)'
      /\ \A i : Loading(stack, i) => Loading(stack', i)
  BY <1>1, <1>2, <1>3, EnterInv
<1>5. Typed'
  BY <1>1 DEF IndInv, Typed, modVars, importVars
<1>6. Promised' /\ Queued'
  BY <1>1, <1>4, ImportsKept DEF modVars
<1>7. QED
  BY <1>4, <1>5, <1>6 DEF IndInv

LEMMA BodyRequiresEsmInv == IndInv /\ BodyRequiresEsm => IndInv'
<1> SUFFICES ASSUME IndInv, BodyRequiresEsm PROVE IndInv'
  OBVIOUS
<1>1. stack # <<>> /\ Top.call = "body"
  BY DEF BodyRequiresEsm, On
<1>2. PICK q \in BodyRequires[Top.path] : RequireEsm(q)
  BY DEF BodyRequiresEsm
<1>3. q \in Paths
  BY <1>1, <1>2, TopFacts, EsmConstants
<1>4. QED
  BY <1>1, <1>2, <1>3, RequireEsmInv

LEMMA ScriptRequiresInv == IndInv /\ ScriptRequires => IndInv'
<1> SUFFICES ASSUME IndInv, ScriptRequires PROVE IndInv'
  OBVIOUS
<1>1. stack = <<>>
  BY DEF ScriptRequires, Idle
<1>2. PICK q \in UNION {BodyRequires[x] : x \in Paths} : RequireEsm(q)
  BY DEF ScriptRequires
<1>3. q \in Paths
  BY <1>2, EsmConstants
<1>4. QED
  BY <1>1, <1>2, <1>3, RequireEsmInv

\* require of an ES module in a promise callback: both calls are made at once.
LEMMA MicrotaskRequiresInv == IndInv /\ MicrotaskRequires => IndInv'
<1> SUFFICES ASSUME IndInv, MicrotaskRequires PROVE IndInv'
  OBVIOUS
<1>1. PICK q \in UNION {BodyRequires[x] : x \in Paths} :
        /\ required' = [required EXCEPT ![q] = "running"]
        /\ stack' = Append(Append(stack, MicrotaskCall), EvalCall(q))
  BY DEF MicrotaskRequires
<1>2. /\ UNCHANGED <<modVars, ret, main, importVars>>
      /\ stack = <<>> \/ (Last(stack).call = "eval" /\ Last(stack).step = "spin")
  BY DEF MicrotaskRequires, Idle, Spinning, On, Top
<1>3. q \in Paths
  BY EsmConstants
<1> DEFINE s == Append(stack, MicrotaskCall)
<1>4. /\ MicrotaskCall \in Calls /\ MicrotaskCall.call = "microtask"
      /\ EvalCall(q) \in Calls /\ EvalCall(q).call = "eval" /\ EvalCall(q).step = "fetch"
  BY <1>3 DEF MicrotaskCall, EvalCall, Calls, RootCalls, MicrotaskCalls
<1>5. TreeOK(stack, made, modPath, pathToModule, resolveCache) /\ stack \in Seq(Calls)
  BY DEF IndInv, TreeOK, ChainOK
<1>6. stack # <<>> => Invokes(Last(stack), MicrotaskCall, modPath)
  BY <1>2, <1>4 DEF Invokes
<1>7. TreeOK(s, made, modPath, pathToModule, resolveCache)
  BY <1>4, <1>5, <1>6, EnterOther
<1>8. /\ s \in Seq(Calls) /\ s # <<>> /\ Last(s) = MicrotaskCall
      /\ \A i : Loading(stack, i) => Loading(s, i)
  BY <1>4, <1>5, AppendFacts DEF Last
<1> HIDE DEF s
<1>9. Invokes(Last(s), EvalCall(q), modPath)
  BY <1>4, <1>8 DEF Invokes
<1>10. TreeOK(Append(s, EvalCall(q)), made, modPath, pathToModule, resolveCache)
  BY <1>4, <1>7, <1>8, <1>9, EnterOther
<1>11. \A i : Loading(stack, i) => Loading(Append(s, EvalCall(q)), i)
  BY <1>4, <1>8, AppendFacts
<1>12. stack' = Append(s, EvalCall(q))
  BY <1>1 DEF s
<1>13. TreeOK(stack, made, modPath, pathToModule, resolveCache)'
  BY <1>2, <1>10, <1>12 DEF modVars
<1>14. Typed'
  BY <1>1, <1>2, <1>3 DEF IndInv, Typed, modVars, importVars
<1>15. Promised' /\ Queued'
  BY <1>2, <1>11, <1>12, ImportsKept DEF modVars
<1>16. QED
  BY <1>13, <1>14, <1>15 DEF IndInv

LEMMA MicrotaskEndsInv == IndInv /\ MicrotaskEnds => IndInv'
<1> SUFFICES ASSUME IndInv, MicrotaskEnds PROVE IndInv'
  OBVIOUS
<1>1. /\ stack # <<>> /\ Top.call = "microtask"
      /\ stack' = Front(stack) /\ ret' = None
      /\ UNCHANGED <<modVars, required, main, importVars>>
  BY DEF MicrotaskEnds, On
<1>2. /\ TreeOK(Front(stack), made, modPath, pathToModule, resolveCache)
      /\ \A i \in Imports : Loading(stack, i) => Loading(Front(stack), i)
  BY <1>1, LeaveInv
<1>3. Typed'
  BY <1>1 DEF IndInv, Typed, modVars, importVars
<1>4. Promised' /\ Queued'
  BY <1>1, <1>2, ImportsKept DEF modVars
<1>5. QED
  BY <1>1, <1>2, <1>3, <1>4 DEF IndInv, modVars

LEMMA BodyCatchesInv == IndInv /\ BodyCatches => IndInv'
<1> SUFFICES ASSUME IndInv, BodyCatches PROVE IndInv'
  OBVIOUS
<1>1. ret' = None /\ UNCHANGED <<modVars, stack, required, main, importVars>>
  BY DEF BodyCatches
<1>2. Typed'
  BY <1>1 DEF IndInv, Typed, modVars, importVars
<1>3. TreeOK(stack, made, modPath, pathToModule, resolveCache)'
  BY <1>1 DEF IndInv, modVars
<1>4. Promised' /\ Queued'
  BY <1>1, ImportsKept DEF modVars
<1>5. QED
  BY <1>2, <1>3, <1>4 DEF IndInv

LEMMA BodyEndsInv == IndInv /\ BodyEnds => IndInv'
<1> SUFFICES ASSUME IndInv, BodyEnds PROVE IndInv'
  OBVIOUS
<1>1. /\ stack # <<>> /\ Top.call = "body"
      /\ required' = [required EXCEPT ![Top.path] = "done"]
      /\ Wrapped(Front(stack), Top.path)
      /\ UNCHANGED <<ret, main, importVars>>
  BY DEF BodyEnds, On
<1>2. /\ Top.path \in Paths /\ Front(stack) # <<>>
      /\ Invokes(Last(Front(stack)), Top, modPath)
  BY <1>1, TopFacts
<1>3. Asking(Last(Front(stack)), modPath) /\ Top.path = Asked(Last(Front(stack)), modPath)
  BY <1>1, <1>2 DEF Invokes
<1>4. /\ TreeOK(Front(stack), made, modPath, pathToModule, resolveCache)
      /\ \A i \in Imports : Loading(stack, i) => Loading(Front(stack), i)
  BY <1>1, LeaveInv
<1>5. required' \in [Paths -> {"none", "running", "done", "threw", "unread"}]
  BY <1>1 DEF IndInv, Typed
<1>6. /\ Synthetic(Top.path, "unlinked") /\ tracked' = tracked \union {made + 1}
      /\ Answered(Front(stack), Top.path, made + 1)
  BY <1>1 DEF Wrapped
<1>7. QED
  BY <1>1, <1>2, <1>3, <1>4, <1>5, <1>6, SyntheticInv

LEMMA BodyThrowsInv == IndInv /\ BodyThrows => IndInv'
<1> SUFFICES ASSUME IndInv, BodyThrows PROVE IndInv'
  OBVIOUS
<1>1. /\ stack # <<>> /\ Top.call = "body"
      /\ required' = [required EXCEPT ![Top.path] = "threw"]
      /\ stack' = Front(stack) /\ ret' = Fail
      /\ UNCHANGED <<modVars, main, importVars>>
  BY DEF BodyThrows, On
<1>2. /\ TreeOK(Front(stack), made, modPath, pathToModule, resolveCache)
      /\ \A i \in Imports : Loading(stack, i) => Loading(Front(stack), i)
  BY <1>1, LeaveInv
<1>3. Typed'
  BY <1>1 DEF IndInv, Typed, modVars, importVars
<1>4. Promised' /\ Queued'
  BY <1>1, <1>2, ImportsKept DEF modVars
<1>5. QED
  BY <1>1, <1>2, <1>3, <1>4 DEF IndInv, modVars

\* EvalScript is left.
LEMMA RequireEndsInv ==
    ASSUME IndInv, stack # <<>>, Top.call = "eval",
           NEW outcome \in {"done", "threw"}, RequireEnds(outcome),
           status' \in [Mods -> {"none", "unlinked", "linked", "pending", "evaluated", "errored"}],
           \A x \in Mods : status[x] # "linked" => status'[x] = status[x],
           UNCHANGED <<made, modPath, resolveCache, tracked, pathToModule, main, importVars>>
    PROVE  IndInv'
<1>1. /\ required' = [required EXCEPT ![Top.path] = outcome] /\ stack' = Front(stack)
      /\ ret' \in {Fail, None}
  BY DEF RequireEnds
<1>2. /\ TreeOK(Front(stack), made, modPath, pathToModule, resolveCache)
      /\ \A i \in Imports : Loading(stack, i) => Loading(Front(stack), i)
  BY LeaveInv
<1>3. Typed'
  BY <1>1 DEF IndInv, Typed, importVars
<1>4. Promised' /\ Queued'
  BY <1>1, <1>2, ImportsKept
<1>5. QED
  BY <1>1, <1>2, <1>3, <1>4 DEF IndInv

LEMMA EvalFailsInv == IndInv /\ EvalFails => IndInv'
<1> SUFFICES ASSUME IndInv, EvalFails PROVE IndInv'
  OBVIOUS
<1>1. stack # <<>> /\ Top.call = "eval" /\ RequireEnds("threw") /\ UNCHANGED <<modVars, main, importVars>>
  BY DEF EvalFails, On
<1>2. status' \in [Mods -> {"none", "unlinked", "linked", "pending", "evaluated", "errored"}]
      /\ status' = status
  BY <1>1 DEF IndInv, Typed, modVars
<1>3. UNCHANGED <<made, modPath, resolveCache, tracked, pathToModule, main, importVars>>
  BY <1>1 DEF modVars
<1>4. QED
  BY <1>1, <1>2, <1>3, RequireEndsInv

LEMMA SpinEndsInv == IndInv /\ SpinEnds => IndInv'
<1> SUFFICES ASSUME IndInv, SpinEnds PROVE IndInv'
  OBVIOUS
<1>1. /\ stack # <<>> /\ Top.call = "eval" /\ UNCHANGED <<modVars, main, importVars>>
      /\ RequireEnds("done") \/ RequireEnds("threw")
  BY DEF SpinEnds, On
<1>2. status' \in [Mods -> {"none", "unlinked", "linked", "pending", "evaluated", "errored"}]
      /\ status' = status
  BY <1>1 DEF IndInv, Typed, modVars
<1>3. UNCHANGED <<made, modPath, resolveCache, tracked, pathToModule, main, importVars>>
  BY <1>1 DEF modVars
<1>4. QED
  BY <1>1, <1>2, <1>3, RequireEndsInv

\* The status when the modules of `ran' have had their turn, and those that
\* reach one of `threw' are errored: of the modules m reaches, the linked ones
\* change.
After(m, ran, threw, awaits) ==
    [x \in Mods |-> IF x \notin {y \in Reach(m) : status[y] = "linked"} THEN status[x]
                    ELSE IF Reach(x) \cap threw # {} THEN "errored"
                    ELSE IF x \notin ran THEN "linked"
                    ELSE IF Reach(x) \cap awaits # {} THEN "pending"
                    ELSE "evaluated"]

\* Evaluate leaves the status as it is or gives one of this form.
LEMMA EvaluatedForm ==
    ASSUME NEW m, StatusEvaluated(m)
    PROVE  \/ status' = status
           \/ \E ran, threw, awaits :
                /\ status' = After(m, ran, threw, awaits)
                /\ \/ ran = Reach(m)
                   \/ \E S \in SUBSET Reach(m) : ran = UNION {Reach(x) : x \in S}
                /\ \A x \in Reach(m) : status[x] = "errored" => x \in threw
                /\ \A x \in Reach(m) : status[x] = "pending" => x \in awaits
<1> DEFINE reach == [x \in Reach(m) |-> Reach(x)]
           all == DOMAIN reach
           todo == {x \in all : status[x] = "linked"}
           failed == {x \in all : status[x] = "errored"}
           awaiting == {x \in all : status[x] = "pending"}
           ready == {x \in todo : reach[x] \cap (failed \union awaiting) = {}}
           turns == {UNION {reach[x] : x \in S} : S \in SUBSET todo}
           result(ran, threw, awaits) ==
               [x \in Mods |-> IF x \notin todo THEN status[x]
                               ELSE IF reach[x] \cap threw # {} THEN "errored"
                               ELSE IF x \notin ran THEN "linked"
                               ELSE IF reach[x] \cap awaits # {} THEN "pending"
                               ELSE "evaluated"]
           outcome(ran, threw, awaits) ==
               /\ status' = result(ran, threw, awaits)
               /\ ran = all \/ \E S \in SUBSET all : ran = UNION {Reach(x) : x \in S}
               /\ failed \subseteq threw /\ awaiting \subseteq awaits
<1>1. status' \in Evaluated(m, reach)
  BY DEF StatusEvaluated
<1>2. all = Reach(m)
  OBVIOUS
<1>3. \A ran, threw, awaits : result(ran, threw, awaits) = After(m, ran, threw, awaits)
  BY DEF After
<1>4. \A S \in SUBSET todo : UNION {reach[x] : x \in S} = UNION {Reach(x) : x \in S}
  OBVIOUS
<1>5. \A ran \in turns : \E S \in SUBSET all : ran = UNION {Reach(x) : x \in S}
  BY <1>4
<1>6. \A ran \in turns, x \in ready : \E S \in SUBSET all : ran \union reach[x] = UNION {Reach(y) : y \in S}
  <2> SUFFICES ASSUME NEW ran \in turns, NEW x \in ready
               PROVE  \E S \in SUBSET all : ran \union reach[x] = UNION {Reach(y) : y \in S}
    OBVIOUS
  <2>1. PICK S \in SUBSET all : ran = UNION {Reach(y) : y \in S}
    BY <1>5
  <2>2. S \union {x} \in SUBSET all /\ reach[x] = Reach(x)
    OBVIOUS
  <2>3. ran \union reach[x] = UNION {Reach(y) : y \in S \union {x}}
    BY <2>1, <2>2
  <2>4. QED
    BY <2>2, <2>3
<1>7. \/ status' = status
      \/ \E x \in ready, ran \in turns : status' = result(ran \union reach[x], failed \union {x}, awaiting)
      \/ \E ran \in turns : status' = result(ran, failed, awaiting)
      \/ \E new : failed = {} /\ status' = result(all, {}, awaiting \union new)
  <2> DEFINE throws == {result(ran \union reach[x], failed \union {x}, awaiting) : x \in ready, ran \in turns}
             stops == {result(ran, failed, awaiting) : ran \in turns}
             runs == {result(all, {}, awaiting \union new)
                        : new \in {{}} \union {{x} : x \in {y \in todo : Kind[modPath[y]] = "esm"}}}
  <2>1. Evaluated(m, reach) = IF m \notin todo THEN {status}
                              ELSE throws \union IF failed # {} THEN stops ELSE runs
    BY DEF Evaluated
  <2> HIDE DEF reach, todo, failed, awaiting, ready, turns, result
  <2>2. \A st \in throws : \E x \in ready, ran \in turns : st = result(ran \union reach[x], failed \union {x}, awaiting)
    OBVIOUS
  <2>3. \A st \in stops : \E ran \in turns : st = result(ran, failed, awaiting)
    OBVIOUS
  <2>4. \A st \in runs : \E new : st = result(all, {}, awaiting \union new)
    OBVIOUS
  <2> HIDE DEF throws, stops, runs
  <2>5. QED
    BY <1>1, <2>1, <2>2, <2>3, <2>4
<1> HIDE DEF reach, turns, ready, result
<1>8. ASSUME NEW ran, NEW threw, NEW awaits, outcome(ran, threw, awaits)
       PROVE  \E r, t, a :
                /\ status' = After(m, r, t, a)
                /\ r = Reach(m) \/ \E S \in SUBSET Reach(m) : r = UNION {Reach(x) : x \in S}
                /\ \A x \in Reach(m) : status[x] = "errored" => x \in t
                /\ \A x \in Reach(m) : status[x] = "pending" => x \in a
  <2>1. /\ status' = After(m, ran, threw, awaits)
        /\ ran = Reach(m) \/ \E S \in SUBSET Reach(m) : ran = UNION {Reach(x) : x \in S}
        /\ \A x \in Reach(m) : status[x] = "errored" => x \in threw
        /\ \A x \in Reach(m) : status[x] = "pending" => x \in awaits
    BY <1>2, <1>3, <1>8
  <2>2. QED
    BY <2>1
<1>9. CASE \E x \in ready, ran \in turns : status' = result(ran \union reach[x], failed \union {x}, awaiting)
  <2>1. PICK x \in ready, ran \in turns : status' = result(ran \union reach[x], failed \union {x}, awaiting)
    BY <1>9
  <2>2. outcome(ran \union reach[x], failed \union {x}, awaiting)
    BY <1>6, <2>1
  <2> HIDE DEF outcome
  <2>3. QED
    BY <2>2, <1>8
<1>10. CASE \E ran \in turns : status' = result(ran, failed, awaiting)
  <2>1. \E ran, threw, awaits : outcome(ran, threw, awaits)
    BY <1>5, <1>10
  <2> HIDE DEF outcome
  <2>2. QED
    BY <2>1, <1>8
<1>11. CASE \E new : failed = {} /\ status' = result(all, {}, awaiting \union new)
  <2>1. \E ran, threw, awaits : outcome(ran, threw, awaits)
    BY <1>11
  <2>2. QED
    BY <2>1, <1>2, <1>3
<1>12. QED
  BY <1>7, <1>9, <1>10, <1>11

\* Evaluation changes the status of linked modules only.
LEMMA EvaluatedKeeps ==
    ASSUME IndInv, NEW m, StatusEvaluated(m)
    PROVE  /\ status' \in [Mods -> {"none", "unlinked", "linked", "pending", "evaluated", "errored"}]
           /\ \A x \in Mods : status[x] # "linked" => status'[x] = status[x]
           /\ \A x \in Mods : status[x] = "linked" => status'[x] \notin {"none", "unlinked"}
<1>1. status \in [Mods -> {"none", "unlinked", "linked", "pending", "evaluated", "errored"}]
  BY DEF IndInv, Typed
<1>2. \A ran, threw, awaits :
        /\ After(m, ran, threw, awaits) \in [Mods -> {"none", "unlinked", "linked", "pending", "evaluated", "errored"}]
        /\ \A x \in Mods : status[x] # "linked" => After(m, ran, threw, awaits)[x] = status[x]
        /\ \A x \in Mods : status[x] = "linked" => After(m, ran, threw, awaits)[x] \notin {"none", "unlinked"}
  BY <1>1 DEF After
<1>3. QED
  BY <1>1, <1>2, EvaluatedForm

LEMMA EvalEvaluateInv == IndInv /\ EvalEvaluate => IndInv'
<1> SUFFICES ASSUME IndInv, EvalEvaluate PROVE IndInv'
  OBVIOUS
<1>1. /\ stack # <<>> /\ Top.call = "eval" /\ Top.step = "eval" /\ StatusEvaluated(Top.mod)
      /\ UNCHANGED <<made, modPath, resolveCache, tracked, pathToModule, main, importVars>>
  BY DEF EvalEvaluate, On
<1>2. Top.mod \in Mods /\ Top = Last(stack)
  BY <1>1, TopFacts
<1>3. /\ status' \in [Mods -> {"none", "unlinked", "linked", "pending", "evaluated", "errored"}]
      /\ \A x \in Mods : status[x] # "linked" => status'[x] = status[x]
  BY <1>1, <1>2, EvaluatedKeeps
<1>4. CASE Goto("spin", Top.mod) /\ UNCHANGED <<ret, required>>
  <2>1. /\ TreeOK(stack', made, modPath, pathToModule, resolveCache)
        /\ \A i : Loading(stack, i) => Loading(stack', i)
    BY <1>1, <1>2, <1>4, GotoStep DEF IndInv, Goto
  <2>2. Typed'
    BY <1>1, <1>3, <1>4 DEF IndInv, Typed, importVars
  <2>3. Promised' /\ Queued'
    BY <1>1, <1>3, <2>1, ImportsKept
  <2>4. QED
    BY <1>1, <2>1, <2>2, <2>3 DEF IndInv
<1>5. CASE RequireEnds("done") \/ RequireEnds("threw")
  BY <1>1, <1>3, <1>5, RequireEndsInv
<1>6. QED
  BY <1>4, <1>5 DEF EvalEvaluate

LEMMA InstantiateModuleInv == IndInv /\ InstantiateModule => IndInv'
<1> SUFFICES ASSUME IndInv, InstantiateModule PROVE IndInv'
  OBVIOUS
<1>1. /\ stack # <<>> /\ Top.call \in {"load", "eval"} /\ ret \in Mods
      /\ status' = [m \in Mods |-> IF m \in Visited(ret) THEN "linked" ELSE status[m]]
      /\ Goto("eval", ret) /\ ret' = None
      /\ UNCHANGED <<made, modPath, resolveCache, tracked, pathToModule,
                     required, main, importVars>>
  BY DEF InstantiateModule, Rooted, On
<1>2. Top = Last(stack)
  BY <1>1, TopFacts
<1>3. /\ status' \in [Mods -> {"none", "unlinked", "linked", "pending", "evaluated", "errored"}]
      /\ \A x \in Mods : status[x] # "unlinked" => status'[x] = status[x]
  <2>1. \A x \in Visited(ret) : status[x] = "unlinked"
    BY DEF Visited
  <2>2. QED
    BY <1>1, <2>1 DEF IndInv, Typed
<1>4. /\ TreeOK(stack', made, modPath, pathToModule, resolveCache)
      /\ \A i : Loading(stack, i) => Loading(stack', i)
  BY <1>1, <1>2, GotoStep DEF IndInv, Goto
<1>5. Typed'
  BY <1>1, <1>3 DEF IndInv, Typed, importVars
<1>6. Promised' /\ Queued'
  BY <1>1, <1>3, <1>4, ImportsKept
<1>7. QED
  BY <1>1, <1>4, <1>5, <1>6 DEF IndInv

\* LoadModule is left: the import that it is for is settled, or its handlers
\* are attached to a module that awaits.
LEMMA LeaveLoadInv ==
    ASSUME IndInv, stack # <<>>, Top.call = "load", LeaveLoad,
           NEW s \in {"failed", "evaluated", "pending", "errored"}, MainEnds(s),
           status' \in [Mods -> {"none", "unlinked", "linked", "pending", "evaluated", "errored"}],
           \A x \in Mods : status[x] # "linked" => status'[x] = status[x],
           \/ \E o \in {"fulfilled", "rejected"} : Settle(Top.resolver, o) /\ UNCHANGED waiting
           \/ \E m \in Mods :
                /\ status'[m] = "pending"
                /\ waiting' = IF Top.resolver = None THEN waiting
                              ELSE [waiting EXCEPT ![Top.resolver] = m]
                /\ UNCHANGED promise,
           UNCHANGED <<made, modPath, resolveCache, tracked, pathToModule,
                       required, dynamicImports, queue, imports>>
    PROVE  IndInv'
<1>1. stack' = Front(stack) /\ ret' = None
  BY DEF LeaveLoad
<1>2. stack \in Seq(Calls) /\ Top = Last(stack) /\ Top.resolver \in Imports \union {None}
  BY TopFacts
<1>3. TreeOK(stack', made, modPath, pathToModule, resolveCache)
  BY <1>1, <1>2, LeaveOther DEF IndInv
<1>4. \A i \in Imports : Loading(stack, i) /\ i # Top.resolver => Loading(stack', i)
  BY <1>1, <1>2, LoadingBelow
<1>5. main' \in [Mains -> {"none", "loading", "failed", "evaluated", "pending", "errored"}]
  BY DEF MainEnds, IndInv, Typed
<1>6. /\ promise \in [Imports -> {"none", "pending", "fulfilled", "rejected"}]
      /\ waiting \in [Imports -> Mods \union {None}]
      /\ None \notin Mods /\ None \notin Imports
  BY EsmConstants DEF IndInv, Typed
<1>7. /\ promise' \in [Imports -> {"none", "pending", "fulfilled", "rejected"}]
      /\ waiting' \in [Imports -> Mods \union {None}]
      /\ \A i \in Imports : i # Top.resolver => promise'[i] = promise[i] /\ waiting'[i] = waiting[i]
      /\ \A i \in Imports : i = Top.resolver /\ promise'[i] = "pending" =>
           waiting'[i] # None /\ status'[waiting'[i]] = "pending"
  BY <1>2, <1>6 DEF Settle
<1>8. Typed'
  BY <1>1, <1>5, <1>7 DEF IndInv, Typed
<1>9. Queued'
  BY DEF IndInv, Queued
<1>10. Promised'
  <2>1. ASSUME NEW i \in Imports, promise'[i] = "pending", i # Top.resolver
        PROVE  \/ \E p \in Paths : dynamicImports'[p] = i
               \/ Loading(stack', i)
               \/ waiting'[i] # None /\ status'[waiting'[i]] = "pending"
    BY <2>1, <1>4, <1>6, <1>7 DEF IndInv, Promised
  <2>2. QED
    BY <2>1, <1>7 DEF Promised
<1>11. QED
  BY <1>3, <1>8, <1>9, <1>10 DEF IndInv

LEMMA LoadFailsInv == IndInv /\ LoadFails => IndInv'
<1> SUFFICES ASSUME IndInv, LoadFails PROVE IndInv'
  OBVIOUS
<1>1. /\ stack # <<>> /\ Top.call = "load" /\ Settle(Top.resolver, "rejected")
      /\ MainEnds("failed") /\ LeaveLoad
      /\ UNCHANGED <<modVars, required, dynamicImports, queue, waiting, imports>>
  BY DEF LoadFails, On
<1>2. status' \in [Mods -> {"none", "unlinked", "linked", "pending", "evaluated", "errored"}]
      /\ status' = status
  BY <1>1 DEF IndInv, Typed, modVars
<1>3. UNCHANGED <<made, modPath, resolveCache, tracked, pathToModule,
                  required, dynamicImports, queue, imports>>
  BY <1>1 DEF modVars
<1>4. QED
  BY <1>1, <1>2, <1>3, LeaveLoadInv

LEMMA EvaluateInv == IndInv /\ Evaluate => IndInv'
<1> SUFFICES ASSUME IndInv, Evaluate PROVE IndInv'
  OBVIOUS
<1>1. /\ stack # <<>> /\ Top.call = "load" /\ Top.step = "eval" /\ LeaveLoad
      /\ StatusEvaluated(Top.mod) /\ MainEnds(status'[Top.mod])
      /\ UNCHANGED <<made, modPath, resolveCache, tracked, pathToModule,
                     required, dynamicImports, queue, imports>>
      /\ status'[Top.mod] \in {"evaluated", "errored", "pending"}
  BY DEF Evaluate, On
<1>2. Top.mod \in Mods
  BY <1>1, TopFacts
<1>3. /\ status' \in [Mods -> {"none", "unlinked", "linked", "pending", "evaluated", "errored"}]
      /\ \A x \in Mods : status[x] # "linked" => status'[x] = status[x]
  BY <1>1, <1>2, EvaluatedKeeps
<1>4. \/ \E o \in {"fulfilled", "rejected"} : Settle(Top.resolver, o) /\ UNCHANGED waiting
      \/ \E m \in Mods :
           /\ status'[m] = "pending"
           /\ waiting' = IF Top.resolver = None THEN waiting
                         ELSE [waiting EXCEPT ![Top.resolver] = m]
           /\ UNCHANGED promise
  BY <1>2 DEF Evaluate
<1>5. QED
  BY <1>1, <1>3, <1>4, LeaveLoadInv

LEMMA AwaitEndsInv ==
    ASSUME IndInv, NEW m \in Mods, AwaitEnds(m)
    PROVE  IndInv'
<1>1. /\ UNCHANGED <<made, modPath, resolveCache, tracked, pathToModule,
                     loadVars, dynamicImports, queue, imports>>
      /\ waiting' = [i \in Imports |-> IF waiting[i] \in Cycle(m) THEN None ELSE waiting[i]]
  BY DEF AwaitEnds
<1>2. PICK s \in {"evaluated", "errored"} :
        /\ status' = [x \in Mods |->
             IF x \in Cycle(m) /\ status[x] = "pending" THEN s ELSE status[x]]
        /\ promise' = [i \in Imports |->
             IF waiting[i] \notin Cycle(m) THEN promise[i]
             ELSE IF s = "evaluated" THEN "fulfilled" ELSE "rejected"]
  BY DEF AwaitEnds
<1> HIDE DEF Cycle
<1>3. /\ status' \in [Mods -> {"none", "unlinked", "linked", "pending", "evaluated", "errored"}]
      /\ \A x \in Mods : x > made => status'[x] = "none"
      /\ \A x \in Mods : x \notin Cycle(m) => status'[x] = status[x]
  BY <1>2 DEF IndInv, Typed
<1>4. /\ promise' \in [Imports -> {"none", "pending", "fulfilled", "rejected"}]
      /\ waiting' \in [Imports -> Mods \union {None}]
      /\ \A i \in Imports : promise'[i] = "pending" =>
           promise[i] = "pending" /\ waiting[i] \notin Cycle(m) /\ waiting'[i] = waiting[i]
  BY <1>1, <1>2 DEF IndInv, Typed
<1>5. Typed'
  BY <1>1, <1>3, <1>4 DEF IndInv, Typed, loadVars
<1>6. TreeOK(stack, made, modPath, pathToModule, resolveCache)'
  BY <1>1 DEF IndInv, loadVars
<1>7. Queued'
  BY <1>1 DEF IndInv, Queued
<1>8. Promised'
  <2>1. \A i \in Imports : waiting[i] # None => waiting[i] \in Mods
    BY DEF IndInv, Typed
  <2>2. stack' = stack /\ dynamicImports' = dynamicImports
    BY <1>1 DEF loadVars
  <2>3. QED
    BY <2>1, <2>2, <1>3, <1>4 DEF IndInv, Promised
<1>9. QED
  BY <1>5, <1>6, <1>7, <1>8 DEF IndInv

\* A load begins when no call is under way.
LEMMA BeginLoad ==
    ASSUME IndInv, stack = <<>>, NEW p \in Paths, NEW i \in Imports \union {None},
           stack' = <<LoadCall(p, i)>>, UNCHANGED modVars
    PROVE  /\ TreeOK(stack, made, modPath, pathToModule, resolveCache)'
           /\ Loading(stack', i)
<1>1. LoadCall(p, i) \in Calls /\ LoadCall(p, i).call = "load" /\ LoadCall(p, i).step = "fetch"
      /\ LoadCall(p, i).resolver = i
  BY DEF LoadCall, Calls, RootCalls
<1>2. stack' = Append(stack, LoadCall(p, i))
  OBVIOUS
<1>3. TreeOK(stack, made, modPath, pathToModule, resolveCache)'
  BY <1>1, <1>2, EnterInv
<1>4. DOMAIN stack' = {1} /\ stack'[1] = LoadCall(p, i)
  OBVIOUS
<1>5. Loading(stack', i)
  BY <1>1, <1>4 DEF Loading
<1>6. QED
  BY <1>3, <1>5

LEMMA LoadMainInv ==
    ASSUME IndInv, NEW p \in Mains, LoadMain(p)
    PROVE  IndInv'
<1>1. /\ stack = <<>> /\ main' = [main EXCEPT ![p] = "loading"]
      /\ stack' = <<LoadCall(p, None)>>
      /\ UNCHANGED <<modVars, ret, required, importVars>>
  BY DEF LoadMain, Idle
<1>2. p \in Paths
  BY EsmConstants
<1>3. TreeOK(stack, made, modPath, pathToModule, resolveCache)'
  BY <1>1, <1>2, BeginLoad
<1>4. Typed'
  BY <1>1 DEF IndInv, Typed, modVars, importVars
<1>5. \A i : ~ Loading(stack, i)
  <2>1. DOMAIN stack = {}
    BY <1>1
  <2>2. QED
    BY <2>1 DEF Loading
<1>6. Promised' /\ Queued'
  BY <1>1, <1>5, ImportsKept DEF modVars
<1>7. QED
  BY <1>3, <1>4, <1>6 DEF IndInv

LEMMA ImportDynamicInv ==
    ASSUME IndInv, NEW p \in Dynamic, ImportDynamic(p)
    PROVE  IndInv'
<1>1. /\ dynamicImports[p] = None /\ imports < MaxImports /\ imports' = imports + 1
      /\ promise' = [promise EXCEPT ![imports + 1] = "pending"]
      /\ dynamicImports' = [dynamicImports EXCEPT ![p] = imports + 1]
      /\ queue' = Append(queue, p)
      /\ UNCHANGED <<modVars, loadVars, waiting>>
  BY DEF ImportDynamic
<1>2. /\ p \in Paths /\ imports \in Nat /\ MaxImports \in Nat /\ imports + 1 \in Imports
      /\ imports + 1 # None
  <2>1. p \in Paths /\ imports \in Nat /\ MaxImports \in Nat
    BY EsmConstants DEF IndInv, Typed
  <2>2. imports + 1 \in Imports
    BY <1>1, <2>1 DEF Imports
  <2>3. QED
    BY <2>1, <2>2, EsmConstants
<1>3. /\ queue \in Seq(Paths) /\ queue' \in Seq(Paths) /\ Len(queue) \in Nat
      /\ DOMAIN queue = 1 .. Len(queue) /\ DOMAIN queue' = 1 .. Len(queue) + 1
      /\ \A k \in 1 .. Len(queue) : queue'[k] = queue[k]
      /\ queue'[Len(queue) + 1] = p
  BY <1>1, <1>2, AppendProperties, LenProperties DEF IndInv, Typed
<1>4. /\ dynamicImports' \in [Paths -> Imports \union {None}]
      /\ dynamicImports'[p] = imports + 1
      /\ \A q \in Paths : q # p => dynamicImports'[q] = dynamicImports[q]
  BY <1>1, <1>2 DEF IndInv, Typed
<1>5. Typed'
  <2>1. imports' \in 0 .. MaxImports
    BY <1>1, <1>2
  <2>2. promise' \in [Imports -> {"none", "pending", "fulfilled", "rejected"}]
    BY <1>1 DEF IndInv, Typed
  <2>3. QED
    BY <1>1, <1>3, <1>4, <2>1, <2>2 DEF IndInv, Typed, modVars, loadVars
<1>6. TreeOK(stack, made, modPath, pathToModule, resolveCache)'
  BY <1>1 DEF IndInv, modVars, loadVars
<1>7. Queued'
  <2>1. \A k \in DOMAIN queue : queue[k] \in Paths /\ queue[k] # p
    BY <1>1, <1>3, ElementOfSeq DEF IndInv, Queued
  <2>2. \A k \in DOMAIN queue' : dynamicImports'[queue'[k]] # None /\ Kind[queue'[k]] = "esm"
    <3>1. Kind[p] = "esm"
      BY EsmConstants
    <3>2. QED
      BY <3>1, <1>2, <1>3, <1>4, <2>1 DEF IndInv, Queued
  <2>3. \A k, l \in DOMAIN queue' : queue'[k] = queue'[l] => k = l
    BY <1>3, <2>1 DEF IndInv, Queued
  <2>4. \A q \in Paths : dynamicImports'[q] # None => \E k \in DOMAIN queue' : queue'[k] = q
    <3>1. ASSUME NEW q \in Paths, dynamicImports'[q] # None
          PROVE  \E k \in DOMAIN queue' : queue'[k] = q
      <4>1. CASE q = p
        BY <4>1, <1>3
      <4>2. CASE q # p
        <5>1. PICK k \in DOMAIN queue : queue[k] = q
          BY <3>1, <4>2, <1>4 DEF IndInv, Queued
        <5>2. QED
          BY <5>1, <1>3
      <4>3. QED
        BY <4>1, <4>2
    <3>2. QED
      BY <3>1
  <2>5. QED
    BY <2>2, <2>3, <2>4 DEF Queued
<1>8. Promised'
  <2>1. /\ stack' = stack /\ status' = status /\ waiting' = waiting
        /\ \A i \in Imports : i # imports + 1 => promise'[i] = promise[i]
    BY <1>1 DEF IndInv, Typed, modVars, loadVars
  <2>2. ASSUME NEW i \in Imports, promise'[i] = "pending", i # imports + 1
        PROVE  \/ \E q \in Paths : dynamicImports'[q] = i
               \/ Loading(stack', i)
               \/ waiting'[i] # None /\ status'[waiting'[i]] = "pending"
    <3>1. ASSUME NEW q \in Paths, dynamicImports[q] = i PROVE dynamicImports'[q] = i
      <4>1. i # None
        BY EsmConstants
      <4>2. QED
        BY <3>1, <4>1, <1>1, <1>4
    <3>2. QED
      BY <3>1, <2>1, <2>2 DEF IndInv, Promised
  <2>3. QED
    BY <2>2, <1>2, <1>4 DEF Promised
<1>9. QED
  BY <1>5, <1>6, <1>7, <1>8 DEF IndInv

LEMMA ImportMissInv == IndInv /\ ImportMiss => IndInv'
<1> SUFFICES ASSUME IndInv, ImportMiss PROVE IndInv'
  OBVIOUS
<1>1. /\ imports < MaxImports /\ imports' = imports + 1
      /\ UNCHANGED <<modVars, loadVars, dynamicImports, queue, waiting>>
  BY DEF ImportMiss
<1>2. promise' = [promise EXCEPT ![imports + 1] = "rejected"]
  BY DEF ImportMiss
<1>3. promise' \in [Imports -> {"none", "pending", "fulfilled", "rejected"}]
      /\ \A i \in Imports : promise'[i] = "pending" => promise[i] = "pending"
  BY <1>2 DEF IndInv, Typed
<1>4. Typed'
  <2>1. imports' \in 0 .. MaxImports
    BY <1>1, EsmConstants DEF IndInv, Typed
  <2>2. QED
    BY <1>1, <1>3, <2>1 DEF IndInv, Typed, modVars, loadVars
<1>5. TreeOK(stack, made, modPath, pathToModule, resolveCache)'
  BY <1>1 DEF IndInv, modVars, loadVars
<1>6. Queued'
  BY <1>1 DEF IndInv, Queued
<1>7. Promised'
  BY <1>1, <1>3 DEF IndInv, Promised, modVars, loadVars
<1>8. QED
  BY <1>4, <1>5, <1>6, <1>7 DEF IndInv

LEMMA ImportTaskInv == IndInv /\ ImportTask => IndInv'
<1> SUFFICES ASSUME IndInv, ImportTask PROVE IndInv'
  OBVIOUS
<1> DEFINE p == Head(queue)
<1>1. /\ stack = <<>> /\ queue # <<>> /\ queue' = Tail(queue)
      /\ dynamicImports[p] # None
      /\ dynamicImports' = [dynamicImports EXCEPT ![p] = None]
      /\ stack' = <<LoadCall(p, dynamicImports[p])>>
      /\ UNCHANGED <<modVars, ret, required, main, promise, waiting, imports>>
  BY DEF ImportTask, Idle
<1>2. /\ queue \in Seq(Paths) /\ Len(queue) \in Nat \ {0} /\ queue' \in Seq(Paths)
      /\ p = queue[1] /\ p \in Paths
      /\ DOMAIN queue = 1 .. Len(queue) /\ DOMAIN queue' = 1 .. Len(queue) - 1
      /\ \A k \in 1 .. Len(queue) - 1 : queue'[k] = queue[k + 1]
  <2>1. queue \in Seq(Paths) /\ queue # <<>>
    BY <1>1 DEF IndInv, Typed
  <2>2. /\ Tail(queue) \in Seq(Paths) /\ Len(Tail(queue)) = Len(queue) - 1
        /\ \A k \in 1 .. Len(queue) - 1 : Tail(queue)[k] = queue[k + 1]
        /\ Head(queue) = queue[1] /\ Head(queue) \in Paths
    BY <2>1, HeadTailProperties
  <2>3. Len(queue) \in Nat \ {0} /\ DOMAIN queue = 1 .. Len(queue)
    BY <2>1, EmptySeq, LenProperties
  <2>4. DOMAIN Tail(queue) = 1 .. Len(queue) - 1
    BY <2>2, LenProperties
  <2>5. QED
    BY <2>1, <2>2, <2>3, <2>4, <1>1
<1> HIDE DEF p
<1>3. /\ dynamicImports[p] \in Imports
      /\ dynamicImports' \in [Paths -> Imports \union {None}]
      /\ \A q \in Paths : dynamicImports'[q] = IF q = p THEN None ELSE dynamicImports[q]
  BY <1>1, <1>2 DEF IndInv, Typed
<1>4. /\ TreeOK(stack, made, modPath, pathToModule, resolveCache)'
      /\ Loading(stack', dynamicImports[p])
  BY <1>1, <1>2, <1>3, BeginLoad
<1>5. Typed'
  BY <1>1, <1>2, <1>3 DEF IndInv, Typed, modVars
<1>6. Queued'
  <2>1. \A k \in DOMAIN queue' : /\ k + 1 \in DOMAIN queue /\ k + 1 # 1
                                 /\ queue'[k] = queue[k + 1]
    BY <1>2
  <2>2. 1 \in DOMAIN queue
    BY <1>2
  <2>3. \A k, l \in DOMAIN queue : queue[k] = queue[l] => k = l
    BY DEF IndInv, Queued
  <2>4. ASSUME NEW k \in DOMAIN queue' PROVE dynamicImports'[queue'[k]] # None /\ Kind[queue'[k]] = "esm"
    <3>1. k + 1 \in DOMAIN queue /\ queue'[k] = queue[k + 1] /\ queue[k + 1] # p
      BY <2>1, <2>2, <2>3, <1>2
    <3>2. queue[k + 1] \in Paths /\ dynamicImports[queue[k + 1]] # None /\ Kind[queue[k + 1]] = "esm"
      BY <3>1, <1>2, ElementOfSeq DEF IndInv, Queued
    <3>3. QED
      BY <3>1, <3>2, <1>3
  <2>5. ASSUME NEW k \in DOMAIN queue', NEW l \in DOMAIN queue', queue'[k] = queue'[l]
        PROVE  k = l
    <3>1. k + 1 = l + 1
      BY <2>1, <2>3, <2>5
    <3>2. QED
      BY <3>1, <1>2
  <2>6. ASSUME NEW q \in Paths, dynamicImports'[q] # None
        PROVE  \E k \in DOMAIN queue' : queue'[k] = q
    <3>1. q # p /\ dynamicImports[q] # None
      BY <2>6, <1>3
    <3>2. PICK k \in DOMAIN queue : queue[k] = q
      BY <3>1 DEF IndInv, Queued
    <3>3. k # 1 /\ k - 1 \in DOMAIN queue' /\ queue'[k - 1] = queue[k]
      BY <3>1, <3>2, <1>2
    <3>4. QED
      BY <3>2, <3>3
  <2>7. QED
    BY <2>4, <2>5, <2>6 DEF Queued
<1>7. Promised'
  <2>1. \A i : ~ Loading(stack, i)
    <3>1. DOMAIN stack = {}
      BY <1>1
    <3>2. QED
      BY <3>1 DEF Loading
  <2>2. promise' = promise /\ waiting' = waiting /\ status' = status
    BY <1>1 DEF modVars
  <2>3. ASSUME NEW i \in Imports, NEW q \in Paths, dynamicImports[q] = i
        PROVE  (\E r \in Paths : dynamicImports'[r] = i) \/ Loading(stack', i)
    BY <2>3, <1>3, <1>4
  <2>4. QED
    BY <2>1, <2>2, <2>3 DEF IndInv, Promised
<1>8. QED
  BY <1>4, <1>5, <1>6, <1>7 DEF IndInv

LEMMA NextInv == IndInv /\ [Next]_vars => IndInv'
<1> SUFFICES ASSUME IndInv, [Next]_vars PROVE IndInv'
  OBVIOUS
<1>1. CASE LoadStep
  BY <1>1, FetchRootInv, FetchRequestInv, FetchExtensionInv, FetchCjsInv, FetchReturnInv,
     FetchUnwindInv, BodyRequiresEsmInv, BodyCatchesInv, BodyEndsInv, BodyThrowsInv,
     MicrotaskEndsInv,
     LoadFailsInv, EvalFailsInv, InstantiateModuleInv, EvaluateInv, EvalEvaluateInv,
     SpinEndsInv DEF LoadStep
<1>2. CASE \E p \in Dynamic : ImportDynamic(p)
  BY <1>2, ImportDynamicInv
<1>3. CASE \E p \in Mains : LoadMain(p)
  BY <1>3, LoadMainInv
<1>4. CASE ScriptRequires \/ MicrotaskRequires \/ ImportMiss \/ ImportTask
  BY <1>4, ScriptRequiresInv, MicrotaskRequiresInv, ImportMissInv, ImportTaskInv
<1>5. CASE \E m \in Mods : AwaitEnds(m)
  BY <1>5, AwaitEndsInv
<1>6. CASE UNCHANGED vars
  <2>1. /\ UNCHANGED <<made, modPath, status, resolveCache, tracked, pathToModule>>
        /\ UNCHANGED <<stack, ret, required, main>>
        /\ UNCHANGED <<dynamicImports, queue, promise, waiting, imports>>
    BY <1>6 DEF vars, modVars, loadVars, importVars
  <2>2. Typed' /\ TreeOK(stack, made, modPath, pathToModule, resolveCache)'
    BY <2>1 DEF IndInv, Typed
  <2>3. Promised' /\ Queued'
    BY <2>1 DEF IndInv, Promised, Queued
  <2>4. QED
    BY <2>2, <2>3 DEF IndInv
<1>7. QED
  BY <1>1, <1>2, <1>3, <1>4, <1>5, <1>6 DEF Next

----------------------------------------------------------------------------
\* IndInv holds of every state the loader can be in.
THEOREM Invariant == Spec => []IndInv
<1>1. QED
  BY InitInv, NextInv, PTL DEF Spec

\* Every variable of the loader has its type.
THEOREM TypeCorrect == Spec => []TypeOK
<1>1. IndInv => TypeOK
  <2> SUFFICES ASSUME IndInv PROVE TypeOK
    OBVIOUS
  <2>1. \A k \in DOMAIN stack : stack[k] \in Calls
    BY ElementOfSeq, LenProperties DEF IndInv, TreeOK, ChainOK
  <2>2. \A k \in DOMAIN stack :
          \/ stack[k] \in [call : {"load", "eval"}, path : Paths, resolver : Imports \union {None},
                           step : {"fetch", "eval", "spin"}, mod : Mods \union {None}]
          \/ stack[k] \in [call : {"fetch"}, mod : Mods, next : Nat]
          \/ stack[k] \in [call : {"body"}, path : Paths]
          \/ stack[k] = MicrotaskCall
    BY <2>1 DEF Calls, RootCalls, FetchCalls, BodyCalls, MicrotaskCalls, MicrotaskCall
  <2>3. Typed /\ Tables(made, modPath, pathToModule, resolveCache)
    BY DEF IndInv, TreeOK
  <2>4. QED
    BY <2>2, <2>3 DEF Typed, Tables, TypeOK
<1>2. QED
  BY Invariant, <1>1, PTL

\* However loads, requires, bodies and imports are nested, a pending import()
\* is in the table with one task, in a load that is under way or attached to a
\* module that awaits: none is lost between ImportDynamic, the task, LoadModule
\* and OnDynamicModuleResolve.
THEOREM ImportsAreNotLost == Spec => []NoOrphanImport
<1>1. IndInv => NoOrphanImport
  <2> SUFFICES ASSUME IndInv PROVE NoOrphanImport
    OBVIOUS
  <2>1. \A i \in Imports : promise[i] = "pending" =>
          \/ \E p \in Paths : dynamicImports[p] = i
          \/ \E k \in DOMAIN stack : stack[k].call = "load" /\ stack[k].resolver = i
          \/ waiting[i] # None /\ status[waiting[i]] = "pending"
    BY DEF IndInv, Promised, Loading
  <2>2. ASSUME NEW p \in Paths
        PROVE  Cardinality({k \in DOMAIN queue : queue[k] = p})
                 = IF dynamicImports[p] = None THEN 0 ELSE 1
    <3>1. CASE dynamicImports[p] = None
      <4>1. {k \in DOMAIN queue : queue[k] = p} = {}
        BY <3>1 DEF IndInv, Queued
      <4>2. QED
        BY <3>1, <4>1, FS_EmptySet
    <3>2. CASE dynamicImports[p] # None
      <4>1. PICK k \in DOMAIN queue : queue[k] = p
        BY <3>2 DEF IndInv, Queued
      <4>2. {l \in DOMAIN queue : queue[l] = p} = {k}
        BY <4>1 DEF IndInv, Queued
      <4>3. QED
        BY <3>2, <4>2, FS_Singleton
    <3>3. QED
      BY <3>1, <3>2
  <2>3. QED
    BY <2>1, <2>2 DEF NoOrphanImport
<1>2. QED
  BY Invariant, <1>1, PTL

\* FetchESModuleTree never fetches a path that it is fetching already, through
\* whatever loads, bodies and requires are nested in it: recursion ends on
\* every cycle of imports.
THEOREM FetchesAreDistinct == Spec => []CallsAreDistinct
<1>1. IndInv => CallsAreDistinct
  BY DEF IndInv, TreeOK, ChainOK, FetchOK, CallsAreDistinct, Fetches
<1>2. QED
  BY Invariant, <1>1, PTL

\* A module in _pathToModule that is not being fetched has an answer for each
\* of its requests, so ResolveModule finds what linking asks for.
THEOREM RegisteredModulesAreWhole == Spec => []RegisteredIsComplete
<1>1. IndInv => RegisteredIsComplete
  BY DEF IndInv, TreeOK, Complete, RegisteredIsComplete, Fetches
<1>2. QED
  BY Invariant, <1>1, PTL
----------------------------------------------------------------------------
\* What is evaluated.

\* Of the import graph with the status of its modules: requests are answered
\* with modules that are made; what linking has passed has only linked modules
\* below it; what awaits has been evaluated up to the awaits below it, and what
\* is evaluated has nothing left to evaluate.
Graph(n, rc, st) ==
    /\ \A m \in Mods : m <= n => st[m] # "none"
    /\ \A m \in Mods, p \in Paths : LET c == rc[m][p] IN c # None =>
        /\ m <= n /\ c <= n
        /\ st[m] \in {"linked", "pending", "evaluated", "errored"} => st[c] \notin {"none", "unlinked"}
        /\ st[m] = "pending" => st[c] \in {"pending", "evaluated", "errored"}
        /\ st[m] = "evaluated" => st[c] = "evaluated"

\* The answers that a fetch has had still hold: the ES module is registered
\* and is not fetched again by the calls above, the CommonJS module is known.
\* So the request that is being fetched has not been answered: a module is not
\* linked before it is whole.
Answers(s, mp, ptm, rc, st, rq) ==
    /\ \A k \in DOMAIN s : s[k].call = "fetch" =>
         /\ st[s[k].mod] = "unlinked"
         /\ k < Len(s) => rc[s[k].mod][Asked(s[k], mp)] = None
         /\ \A p \in Paths : rc[s[k].mod][p] # None =>
              /\ Kind[p] = "esm" => ptm[p] # None
              /\ Kind[p] = "cjs" => rq[p] # "none"
    /\ \A j, k \in DOMAIN s : s[j].call = "fetch" /\ s[k].call = "fetch" /\ j < k =>
         \A p \in Paths : rc[s[j].mod][p] # None /\ Kind[p] = "esm" => ptm[p] # s[k].mod

\* ES modules are registered, no others, and LoadModule and EvalScript work on
\* the one that is registered for their path, which is linked by then.
Roots(s, ptm, st, r) ==
    /\ \A p \in Paths : ptm[p] # None => Kind[p] = "esm"
    /\ \A k \in DOMAIN s : s[k].call \in {"load", "eval"} =>
         /\ Kind[s[k].path] = "esm"
         /\ s[k].step # "fetch" => /\ ptm[s[k].path] = s[k].mod
                                   /\ st[s[k].mod] \notin {"none", "unlinked"}
    /\ r \in Mods => /\ s # <<>>
                     /\ Last(s).call \in {"load", "eval"} /\ Last(s).step = "fetch"
                     /\ ptm[Last(s).path] = r

\* What require() has answered with is evaluated.
Finished(ptm, st, rq) ==
    \A q \in Paths : Kind[q] = "esm" /\ rq[q] = "done" =>
        ptm[q] # None /\ st[ptm[q]] = "evaluated"

\* The invariant, with IndInv.
LinkInv ==
    /\ Graph(made, resolveCache, status)
    /\ Answers(stack, modPath, pathToModule, resolveCache, status, required)
    /\ Roots(stack, pathToModule, status, ret)
    /\ Finished(pathToModule, status, required)

\* What was linked is not unlinked again.
Onward ==
    \A x \in Mods : status[x] \notin {"none", "unlinked"} => status'[x] \notin {"none", "unlinked"}

\* Induction over the natural numbers, for a set.
LEMMA NatSetInduction ==
  ASSUME NEW S, 0 \in S, \A n \in Nat : n \in S => n + 1 \in S
  PROVE  \A n \in Nat : n \in S
<1> SUFFICES ASSUME Nat \ S # {} PROVE FALSE
  OBVIOUS
<1> DEFINE T == Nat \ S
           R == OpToRel(<, Nat)
<1>1. \E x \in T : \A y \in T : ~ (<<y, x>> \in R)
  <2>1. IsWellFoundedOn(R, Nat)
    BY NatLessThanWellFounded
  <2> HIDE DEF R
  <2>2. QED
    BY <2>1, WFMin
<1>2. \A y, z \in Nat : y < z => <<y, z>> \in R
  BY DEF OpToRel
<1> HIDE DEF R
<1>3. PICK x \in T : \A y \in T : ~ (<<y, x>> \in R)
  BY <1>1
<1>4. x # 0 /\ x - 1 \in Nat /\ x - 1 < x /\ (x - 1) + 1 = x
  OBVIOUS
<1>5. x - 1 \notin T
  BY <1>2, <1>3, <1>4
<1>6. QED
  BY <1>4, <1>5

\* The modules that x requests, with x.
With(x) == {x} \union ({resolveCache[x][p] : p \in Paths} \ {None})

\* Reach's recursive function exists, and has its equations.
LEMMA ReachRun ==
  ASSUME made \in Nat, NEW m
  PROVE  \E r : /\ r[0] = {m}
                /\ \A k \in 1 .. made : r[k] = UNION {With(x) : x \in r[k - 1]}
                /\ Reach(m) = r[made]
<1> DEFINE Is(f) == f = [k \in 0 .. made |-> IF k = 0 THEN {m} ELSE UNION {With(x) : x \in f[k - 1]}]
           Upto(n, g) == /\ g = [k \in 0 .. n |-> g[k]]
                         /\ g[0] = {m}
                         /\ \A k \in 1 .. n : g[k] = UNION {With(x) : x \in g[k - 1]}
           S == {n \in Nat : \E g : Upto(n, g)}
<1>1. 0 \in S
  <2> DEFINE g == [k \in 0 .. 0 |-> {m}]
  <2>1. Upto(0, g)
    OBVIOUS
  <2>2. QED
    BY <2>1
<1>2. ASSUME NEW n \in Nat, n \in S PROVE n + 1 \in S
  <2>1. PICK g : Upto(n, g)
    BY <1>2
  <2> DEFINE h == [k \in 0 .. n + 1 |-> IF k = n + 1 THEN UNION {With(x) : x \in g[n]} ELSE g[k]]
  <2>2. h = [k \in 0 .. n + 1 |-> h[k]] /\ h[0] = {m}
    BY <2>1
  <2>3. ASSUME NEW k \in 1 .. n + 1 PROVE h[k] = UNION {With(x) : x \in h[k - 1]}
    <3>1. CASE k = n + 1
      <4>1. h[k] = UNION {With(x) : x \in g[n]} /\ h[k - 1] = g[n]
        BY <3>1
      <4> HIDE DEF h
      <4>2. QED
        BY <4>1
    <3>2. CASE k \in 1 .. n
      <4>1. h[k] = g[k] /\ h[k - 1] = g[k - 1]
        BY <3>2
      <4> HIDE DEF h
      <4>2. QED
        BY <2>1, <3>2, <4>1
    <3>3. k = n + 1 \/ k \in 1 .. n
      OBVIOUS
    <3> HIDE DEF h
    <3>4. QED
      BY <3>1, <3>2, <3>3
  <2> HIDE DEF h
  <2>4. Upto(n + 1, h)
    BY <2>2, <2>3
  <2> HIDE DEF Upto
  <2>5. QED
    BY <2>4
<1>3. PICK g : Upto(made, g)
  <2> HIDE DEF S, Upto
  <2>1. \A n \in Nat : n \in S
    BY <1>1, <1>2, NatSetInduction
  <2>2. QED
    BY <2>1 DEF S
<1>4. Is(g)
  <2> DEFINE v(k) == IF k = 0 THEN {m} ELSE UNION {With(x) : x \in g[k - 1]}
  <2>1. ASSUME NEW k \in 0 .. made PROVE g[k] = v(k)
    <3>1. CASE k = 0
      BY <1>3, <3>1
    <3>2. CASE k # 0
      <4>1. k \in 1 .. made
        BY <3>2
      <4>2. QED
        BY <1>3, <3>2, <4>1
    <3>3. QED
      BY <3>1, <3>2
  <2> HIDE DEF v
  <2>2. g = [k \in 0 .. made |-> v(k)]
    BY <1>3, <2>1
  <2>3. QED
    BY <2>2 DEF v
<1> DEFINE r == CHOOSE f : Is(f)
<1>5. Is(r)
  BY <1>4
<1>6. Reach(m) = r[made]
  BY DEF Reach, With
<1> HIDE DEF r
<1>7. r[0] = {m} /\ \A k \in 1 .. made : r[k] = UNION {With(x) : x \in r[k - 1]}
  BY <1>5
<1>8. QED
  BY <1>6, <1>7

\* What m reaches are modules that are made, m among them, with all that they
\* request, and nothing else: made rounds are enough to find it, since every
\* round but the last finds a module that is new.
LEMMA ReachFacts ==
  ASSUME IndInv, Graph(made, resolveCache, status), NEW m \in Mods, m <= made
  PROVE  /\ m \in Reach(m)
         /\ \A x \in Reach(m) : x \in Mods /\ x <= made
         /\ \A x \in Reach(m), p \in Paths : resolveCache[x][p] # None => resolveCache[x][p] \in Reach(m)
         /\ \A S : m \in S /\ (\A x \in S \cap Mods, p \in Paths :
                                 resolveCache[x][p] # None => resolveCache[x][p] \in S)
                     => Reach(m) \subseteq S
<1> DEFINE M == 1 .. made
           Next1(X) == UNION {With(x) : x \in X}
<1>1. made \in Nat /\ made <= MaxMods /\ MaxMods \in Nat
  BY EsmConstants DEF IndInv, TreeOK, Tables
<1>2. m \in M /\ M \subseteq Mods /\ \A x \in M : x \in Mods /\ x <= made
  BY <1>1 DEF Mods
<1>3. resolveCache \in [Mods -> [Paths -> Mods \union {None}]]
  BY DEF IndInv, TreeOK, Tables
<1>4. \A x \in Mods, p \in Paths : resolveCache[x][p] # None => resolveCache[x][p] \in M
  BY <1>1, <1>3 DEF Graph, Mods
<1>5. \A x \in M : With(x) \subseteq M
  BY <1>2, <1>4 DEF With
<1>6. PICK r : /\ r[0] = {m}
               /\ \A k \in 1 .. made : r[k] = Next1(r[k - 1])
               /\ Reach(m) = r[made]
  BY <1>1, ReachRun
<1>7. \A X : X \subseteq Next1(X)
  BY DEF With
<1>8. \A k \in 1 .. made : r[k] = Next1(r[k - 1])
  BY <1>6
<1> HIDE DEF Next1
<1>9. \A n \in Nat : n <= made => r[n] \subseteq M /\ m \in r[n]
  <2> DEFINE S == {n \in Nat : n <= made => r[n] \subseteq M /\ m \in r[n]}
  <2>1. 0 \in S
    BY <1>2, <1>6
  <2>2. ASSUME NEW n \in Nat, n \in S PROVE n + 1 \in S
    <3> SUFFICES ASSUME n + 1 <= made PROVE r[n + 1] \subseteq M /\ m \in r[n + 1]
      OBVIOUS
    <3>1. r[n] \subseteq M /\ m \in r[n] /\ n + 1 \in 1 .. made
      BY <1>1, <2>2
    <3>2. r[n + 1] = Next1(r[n])
      BY <1>8, <3>1
    <3>3. Next1(r[n]) \subseteq M
      BY <1>5, <3>1 DEF Next1
    <3>4. QED
      BY <1>7, <3>1, <3>2, <3>3
  <2> HIDE DEF S
  <2>3. \A n \in Nat : n \in S
    BY <2>1, <2>2, NatSetInduction
  <2>4. QED
    BY <2>3 DEF S
<1>10. \A n \in Nat : n <= made => Next1(r[n]) = r[n] \/ n + 1 <= Cardinality(r[n])
  <2> DEFINE S == {n \in Nat : n <= made => Next1(r[n]) = r[n] \/ n + 1 <= Cardinality(r[n])}
  <2>1. 0 \in S
    <3>1. Cardinality(r[0]) = 1
      BY <1>6, FS_Singleton
    <3>2. QED
      BY <3>1
  <2>2. ASSUME NEW n \in Nat, n \in S PROVE n + 1 \in S
    <3> SUFFICES ASSUME n + 1 <= made, Next1(r[n + 1]) # r[n + 1]
                 PROVE  n + 2 <= Cardinality(r[n + 1])
      OBVIOUS
    <3>1. n + 1 \in 1 .. made /\ n <= made
      BY <1>1
    <3>2. r[n + 1] = Next1(r[n])
      BY <1>8, <3>1
    <3>3. Next1(r[n]) # r[n]
      BY <3>2
    <3>4. n + 1 <= Cardinality(r[n])
      BY <2>2, <3>1, <3>3
    <3>5. r[n] \subseteq r[n + 1] /\ r[n] # r[n + 1]
      BY <1>7, <3>2, <3>3
    <3>6. r[n + 1] \subseteq M
      BY <1>9
    <3>7. IsFiniteSet(r[n + 1])
      <4>1. IsFiniteSet(M)
        BY <1>1, FS_Interval
      <4>2. QED
        BY <3>6, <4>1, FS_Subset
    <3>8. /\ Cardinality(r[n]) < Cardinality(r[n + 1])
          /\ Cardinality(r[n]) \in Nat /\ Cardinality(r[n + 1]) \in Nat
      BY <3>5, <3>7, FS_Subset, FS_CardinalityType
    <3>9. QED
      BY <3>4, <3>8
  <2> HIDE DEF S
  <2>3. \A n \in Nat : n \in S
    BY <2>1, <2>2, NatSetInduction
  <2>4. QED
    BY <2>3 DEF S
<1>11. Next1(r[made]) = r[made]
  <2>1. r[made] \subseteq M
    BY <1>1, <1>9
  <2>2. IsFiniteSet(M) /\ Cardinality(M) = made
    BY <1>1, FS_Interval
  <2>3. Cardinality(r[made]) <= made /\ Cardinality(r[made]) \in Nat
    BY <2>1, <2>2, FS_Subset, FS_CardinalityType
  <2>4. QED
    BY <1>1, <1>10, <2>3
<1>12. \A x \in Reach(m), p \in Paths : resolveCache[x][p] # None => resolveCache[x][p] \in Reach(m)
  BY <1>6, <1>11 DEF Next1, With
<1>13. ASSUME NEW S, m \in S,
              \A x \in S \cap Mods, p \in Paths : resolveCache[x][p] # None => resolveCache[x][p] \in S
       PROVE  Reach(m) \subseteq S
  <2> DEFINE T == {n \in Nat : n <= made => r[n] \subseteq S}
  <2>1. 0 \in T
    BY <1>6, <1>13
  <2>2. ASSUME NEW n \in Nat, n \in T PROVE n + 1 \in T
    <3> SUFFICES ASSUME n + 1 <= made PROVE r[n + 1] \subseteq S
      OBVIOUS
    <3>1. n + 1 \in 1 .. made /\ r[n] \subseteq S /\ n <= made
      BY <1>1, <2>2
    <3>2. r[n + 1] = Next1(r[n]) /\ r[n] \subseteq Mods
      BY <1>2, <1>8, <1>9, <3>1
    <3>3. \A x \in r[n] : With(x) \subseteq S
      BY <1>13, <3>1, <3>2 DEF With
    <3>4. QED
      BY <3>2, <3>3 DEF Next1
  <2> HIDE DEF T
  <2>3. \A n \in Nat : n \in T
    BY <2>1, <2>2, NatSetInduction
  <2>4. QED
    BY <2>3, <1>1, <1>6 DEF T
<1>14. m \in Reach(m) /\ Reach(m) \subseteq M
  BY <1>1, <1>6, <1>9
<1>15. \A x \in Reach(m) : x \in Mods /\ x <= made
  BY <1>2, <1>14
<1>16. QED
  BY <1>12, <1>13, <1>14, <1>15

\* A module reaches what the modules it reaches do.
LEMMA ReachBelow ==
  ASSUME IndInv, Graph(made, resolveCache, status), NEW m \in Mods, m <= made, NEW x \in Reach(m)
  PROVE  Reach(x) \subseteq Reach(m)
<1>1. x \in Mods /\ x <= made
  BY ReachFacts
<1>2. \A y \in Reach(m), p \in Paths : resolveCache[y][p] # None => resolveCache[y][p] \in Reach(m)
  BY ReachFacts
<1>3. \A S : x \in S /\ (\A y \in S \cap Mods, p \in Paths :
                           resolveCache[y][p] # None => resolveCache[y][p] \in S)
               => Reach(x) \subseteq S
  BY <1>1, ReachFacts
<1>4. QED
  BY <1>2, <1>3

\* Evaluate keeps the order of the graph: what it marks as evaluated or
\* pending has had everything below it marked in the same way.
LEMMA EvaluatedGraph ==
  ASSUME IndInv, Graph(made, resolveCache, status), NEW m \in Mods, m <= made, StatusEvaluated(m)
  PROVE  Graph(made, resolveCache, status')
<1>1. CASE status' = status
  BY <1>1
<1>2. ASSUME NEW ran, NEW threw, NEW awaits,
             status' = After(m, ran, threw, awaits),
             ran = Reach(m) \/ \E S \in SUBSET Reach(m) : ran = UNION {Reach(x) : x \in S},
             \A x \in Reach(m) : status[x] = "errored" => x \in threw,
             \A x \in Reach(m) : status[x] = "pending" => x \in awaits
      PROVE  Graph(made, resolveCache, status')
  <2>1. /\ status \in [Mods -> {"none", "unlinked", "linked", "pending", "evaluated", "errored"}]
        /\ resolveCache \in [Mods -> [Paths -> Mods \union {None}]]
    BY DEF IndInv, Typed, TreeOK, Tables
  <2>2. \A x \in Reach(m) : x \in Mods /\ x <= made
    BY ReachFacts
  <2>3. \A x \in ran : Reach(x) \subseteq ran
    <3>1. CASE ran = Reach(m)
      BY <3>1, ReachBelow
    <3>2. ASSUME NEW S \in SUBSET Reach(m), ran = UNION {Reach(x) : x \in S}, NEW y \in ran
          PROVE  Reach(y) \subseteq ran
      <4>1. PICK x \in S : y \in Reach(x)
        BY <3>2
      <4>2. Reach(y) \subseteq Reach(x)
        BY <4>1, <2>2, ReachBelow
      <4>3. QED
        BY <4>1, <4>2, <3>2
    <3>3. QED
      BY <3>1, <3>2, <1>2
  <2>4. \A x \in Mods : status[x] # "linked" \/ x \notin Reach(m) => status'[x] = status[x]
    BY <1>2 DEF After
  <2>5. \A x \in Reach(m) : status[x] = "linked" =>
          /\ status'[x] \in {"errored", "linked", "pending", "evaluated"}
          /\ status'[x] \in {"pending", "evaluated"} => Reach(x) \cap threw = {} /\ x \in ran
          /\ status'[x] = "evaluated" => Reach(x) \cap awaits = {}
          /\ Reach(x) \cap threw = {} /\ x \in ran => status'[x] \in {"pending", "evaluated"}
          /\ Reach(x) \cap threw = {} /\ x \in ran /\ Reach(x) \cap awaits = {} => status'[x] = "evaluated"
    BY <1>2, <2>2 DEF After
  <2>6. \A x \in Mods : status[x] \in {"linked", "pending", "evaluated", "errored"}
                          => status'[x] \in {"linked", "pending", "evaluated", "errored"}
    BY <2>4, <2>5
  <2>7. ASSUME NEW x \in Mods, x <= made PROVE status'[x] # "none"
    BY <2>4, <2>6, <2>7, <2>1 DEF Graph
  <2>8. ASSUME NEW x \in Mods, NEW p \in Paths, resolveCache[x][p] # None
        PROVE  LET c == resolveCache[x][p] IN
               /\ x <= made /\ c <= made
               /\ status'[x] \in {"linked", "pending", "evaluated", "errored"} => status'[c] \notin {"none", "unlinked"}
               /\ status'[x] = "pending" => status'[c] \in {"pending", "evaluated", "errored"}
               /\ status'[x] = "evaluated" => status'[c] = "evaluated"
    <3> DEFINE c == resolveCache[x][p]
    <3>1. /\ x <= made /\ c <= made
          /\ status[x] \in {"linked", "pending", "evaluated", "errored"} => status[c] \notin {"none", "unlinked"}
          /\ status[x] = "pending" => status[c] \in {"pending", "evaluated", "errored"}
          /\ status[x] = "evaluated" => status[c] = "evaluated"
      BY <2>8 DEF Graph
    <3>2. c \in Mods
      BY <2>1, <2>8
    <3>3. CASE x \notin Reach(m) \/ status[x] # "linked"
      <4>1. status'[x] = status[x]
        BY <2>4, <3>3
      <4>2. QED
        BY <4>1, <3>1, <3>2, <2>1, <2>4, <2>6
    <3>4. CASE x \in Reach(m) /\ status[x] = "linked"
      <4>1. c \in Reach(m) /\ c \in Reach(x)
        BY <2>8, <3>1, <3>4, ReachFacts
      <4>2. Reach(c) \subseteq Reach(x) /\ c \in Reach(c)
        BY <4>1, <3>1, <3>2, <2>2, ReachBelow, ReachFacts
      <4>3. status[c] \in {"linked", "pending", "evaluated", "errored"}
        BY <3>1, <3>2, <3>4, <2>1
      <4>4. status'[c] \notin {"none", "unlinked"}
        BY <4>3, <3>2, <2>6
      <4>5. ASSUME status'[x] \in {"pending", "evaluated"}
            PROVE  /\ status'[c] \in {"pending", "evaluated", "errored"}
                   /\ status'[x] = "evaluated" => status'[c] = "evaluated"
        <5>1. Reach(c) \cap threw = {} /\ c \in ran
          BY <2>3, <2>5, <3>4, <4>1, <4>2, <4>5
        <5>2. status'[x] = "evaluated" => Reach(c) \cap awaits = {}
          BY <2>5, <3>4, <4>2
        <5>3. CASE status[c] = "linked"
          BY <5>1, <5>2, <5>3, <2>5, <4>1
        <5>4. CASE status[c] # "linked"
          <6>1. status'[c] = status[c] /\ status[c] \in {"pending", "evaluated", "errored"}
            BY <5>4, <4>3, <3>2, <2>4
          <6>2. status[c] # "errored"
            BY <5>1, <4>1, <4>2, <1>2
          <6>3. status'[x] = "evaluated" => status[c] # "pending"
            BY <5>2, <4>1, <4>2, <1>2
          <6>4. QED
            BY <6>1, <6>2, <6>3
        <5>5. QED
          BY <5>3, <5>4
      <4>6. QED
        BY <3>1, <4>4, <4>5
    <3>5. QED
      BY <3>3, <3>4
  <2>9. QED
    BY <2>7, <2>8 DEF Graph
<1>3. QED
  BY <1>1, <1>2, EvaluatedForm

\* So does linking: what it visits is closed.
LEMMA LinkedGraph ==
  ASSUME IndInv, Graph(made, resolveCache, status), NEW m \in Mods, m <= made,
         status' = [x \in Mods |-> IF x \in Visited(m) THEN "linked" ELSE status[x]]
  PROVE  Graph(made, resolveCache, status')
<1>1. /\ status \in [Mods -> {"none", "unlinked", "linked", "pending", "evaluated", "errored"}]
      /\ resolveCache \in [Mods -> [Paths -> Mods \union {None}]]
  BY DEF IndInv, Typed, TreeOK, Tables
<1>2. /\ \A x \in Mods : x \notin Reach(m) \/ status[x] # "unlinked" => status'[x] = status[x]
      /\ \A x \in Mods : x \in Reach(m) /\ status[x] = "unlinked" => status'[x] = "linked"
  BY DEF Visited
<1>3. \A x \in Mods : x <= made => status'[x] # "none"
  BY <1>2 DEF Graph
<1>4. ASSUME NEW x \in Mods, NEW p \in Paths, resolveCache[x][p] # None
      PROVE  LET c == resolveCache[x][p] IN
             /\ x <= made /\ c <= made
             /\ status'[x] \in {"linked", "pending", "evaluated", "errored"} => status'[c] \notin {"none", "unlinked"}
             /\ status'[x] = "pending" => status'[c] \in {"pending", "evaluated", "errored"}
             /\ status'[x] = "evaluated" => status'[c] = "evaluated"
  <2> DEFINE c == resolveCache[x][p]
  <2>1. /\ x <= made /\ c <= made
        /\ status[x] \in {"linked", "pending", "evaluated", "errored"} => status[c] \notin {"none", "unlinked"}
        /\ status[x] = "pending" => status[c] \in {"pending", "evaluated", "errored"}
        /\ status[x] = "evaluated" => status[c] = "evaluated"
    BY <1>4 DEF Graph
  <2>2. c \in Mods /\ status'[c] # "none"
    BY <1>1, <1>3, <1>4, <2>1
  <2>3. x \in Reach(m) => c \in Reach(m)
    BY <1>4, ReachFacts
  <2> HIDE DEF c
  <2>4. CASE x \in Reach(m) /\ status[x] = "unlinked"
    <3>1. status'[x] = "linked" /\ status'[c] # "unlinked"
      BY <1>2, <2>2, <2>3, <2>4
    <3>2. QED
      BY <3>1, <2>1, <2>2 DEF c
  <2>5. CASE x \notin Reach(m) \/ status[x] # "unlinked"
    <3>1. status'[x] = status[x]
      BY <1>2, <2>5
    <3>2. status[c] # "unlinked" => status'[c] = status[c]
      BY <1>2, <2>2
    <3>3. status[x] \in {"linked", "pending", "evaluated", "errored"} => status'[c] = status[c]
      BY <2>1, <3>2
    <3>4. QED
      BY <3>1, <3>3, <2>1 DEF c
  <2>6. QED
    BY <2>4, <2>5
<1>5. QED
  BY <1>3, <1>4 DEF Graph

\* And the end of an await, which takes everything on its cycle along, after
\* all that it waited for.
LEMMA AwaitedGraph ==
  ASSUME IndInv, Graph(made, resolveCache, status), NEW m \in Mods, AwaitEnds(m)
  PROVE  Graph(made, resolveCache, status')
<1>1. status[m] = "pending"
  BY DEF AwaitEnds
<1>2. PICK s \in {"evaluated", "errored"} :
        /\ \A x \in Reach(m) : status[x] = "pending" => x \in Cycle(m)
        /\ (\E x \in Reach(m) : status[x] = "errored") => s = "errored"
        /\ status' = [x \in Mods |->
             IF x \in Cycle(m) /\ status[x] = "pending" THEN s ELSE status[x]]
  BY DEF AwaitEnds
<1>3. /\ status \in [Mods -> {"none", "unlinked", "linked", "pending", "evaluated", "errored"}]
      /\ resolveCache \in [Mods -> [Paths -> Mods \union {None}]] /\ made \in Nat
  BY DEF IndInv, Typed, TreeOK, Tables
<1>4. m <= made
  <2>1. m > made => status[m] = "none"
    BY DEF IndInv, Typed
  <2>2. QED
    BY <1>1, <1>3, <2>1 DEF Mods
<1>5. \A x \in Cycle(m) : x \in Reach(m)
  BY DEF Cycle
<1>6. /\ \A x \in Mods : x \in Cycle(m) /\ status[x] = "pending" => status'[x] = s
      /\ \A x \in Mods : x \notin Cycle(m) \/ status[x] # "pending" => status'[x] = status[x]
  BY <1>2
<1> HIDE DEF Cycle
<1>7. \A x \in Mods : x <= made => status'[x] # "none"
  BY <1>3, <1>6 DEF Graph
<1>8. ASSUME NEW x \in Mods, NEW p \in Paths, resolveCache[x][p] # None
      PROVE  LET c == resolveCache[x][p] IN
             /\ x <= made /\ c <= made
             /\ status'[x] \in {"linked", "pending", "evaluated", "errored"} => status'[c] \notin {"none", "unlinked"}
             /\ status'[x] = "pending" => status'[c] \in {"pending", "evaluated", "errored"}
             /\ status'[x] = "evaluated" => status'[c] = "evaluated"
  <2> DEFINE c == resolveCache[x][p]
  <2>1. /\ x <= made /\ c <= made
        /\ status[x] \in {"linked", "pending", "evaluated", "errored"} => status[c] \notin {"none", "unlinked"}
        /\ status[x] = "pending" => status[c] \in {"pending", "evaluated", "errored"}
        /\ status[x] = "evaluated" => status[c] = "evaluated"
    BY <1>8 DEF Graph
  <2>2. c \in Mods
    BY <1>3, <1>8
  <2>3. x \in Reach(m) => c \in Reach(m)
    BY <1>4, <1>8, ReachFacts
  <2> HIDE DEF c
  <2>4. status'[c] \in {status[c], "evaluated", "errored"}
    BY <1>6, <2>2
  <2>5. CASE x \in Cycle(m) /\ status[x] = "pending"
    <3>1. status'[x] = s /\ c \in Reach(m) /\ status[c] \in {"pending", "evaluated", "errored"}
      BY <1>5, <1>6, <2>1, <2>3, <2>5
    <3>2. status[c] = "pending" => status'[c] = s
      BY <1>2, <1>6, <2>2, <3>1
    <3>3. status[c] = "errored" => s = "errored"
      BY <1>2, <3>1
    <3>4. status[c] # "pending" => status'[c] = status[c]
      BY <1>6, <2>2
    <3>5. status'[c] \in {"evaluated", "errored"} /\ (s = "evaluated" => status'[c] = "evaluated")
      BY <3>1, <3>2, <3>3, <3>4
    <3>6. QED
      BY <3>1, <3>5, <2>1 DEF c
  <2>6. CASE x \notin Cycle(m) \/ status[x] # "pending"
    <3>1. status'[x] = status[x]
      BY <1>6, <2>6
    <3>2. status[c] = "evaluated" => status'[c] = "evaluated"
      BY <1>6, <2>2
    <3>3. QED
      BY <3>1, <3>2, <2>1, <2>4 DEF c
  <2>7. QED
    BY <2>5, <2>6
<1>9. QED
  BY <1>7, <1>8 DEF Graph

\* A request is answered with a module that is made.
LEMMA AnswerGraph ==
  ASSUME NEW n, NEW rc, NEW st, NEW f \in Mods, NEW q \in Paths, NEW m \in Mods,
         rc \in [Mods -> [Paths -> Mods \union {None}]],
         Graph(n, rc, st), f <= n, m <= n, st[f] = "unlinked"
  PROVE  Graph(n, [rc EXCEPT ![f][q] = m], st)
<1> DEFINE rc2 == [rc EXCEPT ![f][q] = m]
<1>1. /\ rc2[f][q] = m
      /\ \A x \in Mods, p \in Paths : x # f \/ p # q => rc2[x][p] = rc[x][p]
  OBVIOUS
<1> HIDE DEF rc2
<1>2. ASSUME NEW x \in Mods, NEW p \in Paths, rc2[x][p] # None
      PROVE  LET c == rc2[x][p] IN
             /\ x <= n /\ c <= n
             /\ st[x] \in {"linked", "pending", "evaluated", "errored"} => st[c] \notin {"none", "unlinked"}
             /\ st[x] = "pending" => st[c] \in {"pending", "evaluated", "errored"}
             /\ st[x] = "evaluated" => st[c] = "evaluated"
  <2>1. CASE x = f /\ p = q
    BY <2>1, <1>1
  <2>2. CASE x # f \/ p # q
    <3>1. rc2[x][p] = rc[x][p]
      BY <1>1, <2>2
    <3>2. QED
      BY <3>1, <1>2 DEF Graph
  <2>3. QED
    BY <2>1, <2>2
<1>3. QED
  BY <1>2 DEF Graph, rc2

\* A module is made: nothing requests it yet, and it requests nothing.
LEMMA MadeGraph ==
  ASSUME NEW n \in Nat, NEW rc, NEW st, NEW v \in {"unlinked", "evaluated"},
         st \in [Mods -> {"none", "unlinked", "linked", "pending", "evaluated", "errored"}],
         rc \in [Mods -> [Paths -> Mods \union {None}]],
         Graph(n, rc, st)
  PROVE  Graph(n + 1, rc, [st EXCEPT ![n + 1] = v])
<1> DEFINE st2 == [st EXCEPT ![n + 1] = v]
<1>1. /\ \A x \in Mods : x \in Nat /\ (x <= n => x # n + 1 /\ st2[x] = st[x])
      /\ \A x \in Mods : x = n + 1 => st2[x] = v
      /\ \A x \in Mods : x <= n + 1 => x <= n \/ x = n + 1
  BY DEF Mods
<1> HIDE DEF st2
<1>2. \A x \in Mods : x <= n + 1 => st2[x] # "none"
  BY <1>1 DEF Graph
<1>3. ASSUME NEW x \in Mods, NEW p \in Paths, rc[x][p] # None
      PROVE  LET c == rc[x][p] IN
             /\ x <= n + 1 /\ c <= n + 1
             /\ st2[x] \in {"linked", "pending", "evaluated", "errored"} => st2[c] \notin {"none", "unlinked"}
             /\ st2[x] = "pending" => st2[c] \in {"pending", "evaluated", "errored"}
             /\ st2[x] = "evaluated" => st2[c] = "evaluated"
  <2>1. rc[x][p] \in Mods /\ x <= n /\ rc[x][p] <= n
    BY <1>3 DEF Graph
  <2>2. st2[x] = st[x] /\ st2[rc[x][p]] = st[rc[x][p]]
    BY <1>1, <2>1
  <2>3. x <= n + 1 /\ rc[x][p] <= n + 1
    BY <1>1, <2>1
  <2>4. QED
    BY <1>3, <2>2, <2>3 DEF Graph
<1>4. QED
  BY <1>2, <1>3 DEF Graph, st2

\* Leaving a call.
LEMMA AnswersShorter ==
  ASSUME NEW s \in Seq(Calls), NEW mp, NEW ptm, NEW rc, NEW st, NEW rq, s # <<>>,
         Answers(s, mp, ptm, rc, st, rq)
  PROVE  Answers(Front(s), mp, ptm, rc, st, rq)
<1>1. /\ DOMAIN s = 1 .. Len(s) /\ DOMAIN Front(s) = 1 .. Len(s) - 1 /\ Len(s) \in Nat \ {0}
      /\ Len(Front(s)) = Len(s) - 1
      /\ \A k \in 1 .. Len(s) - 1 : Front(s)[k] = s[k]
  BY FrontFacts
<1>2. \A k \in DOMAIN Front(s) : k \in DOMAIN s /\ Front(s)[k] = s[k] /\ k < Len(s)
  BY <1>1
<1>3. QED
  BY <1>2 DEF Answers

\* What the answers depend on: the status of modules that are being fetched,
\* their paths, and what require() has heard of.
LEMMA AnswersKept ==
  ASSUME NEW s \in Seq(Calls), NEW mp, NEW ptm, NEW rc, NEW st, NEW rq, NEW mp2, NEW st2, NEW rq2,
         Answers(s, mp, ptm, rc, st, rq),
         \A k \in DOMAIN s : s[k].call = "fetch" =>
           mp2[s[k].mod] = mp[s[k].mod] /\ st2[s[k].mod] = st[s[k].mod],
         \A p \in Paths : rq[p] # "none" => rq2[p] # "none"
  PROVE  Answers(s, mp2, ptm, rc, st2, rq2)
  BY DEF Answers, Asked

\* A call begins, and the fetch that makes it waits for its request.
LEMMA AnswersLonger ==
  ASSUME NEW s \in Seq(Calls), NEW mp, NEW ptm, NEW rc, NEW st, NEW rq, NEW c \in Calls,
         Answers(s, mp, ptm, rc, st, rq),
         s # <<>> /\ Last(s).call = "fetch" => rc[Last(s).mod][Asked(Last(s), mp)] = None,
         c.call # "fetch"
  PROVE  Answers(Append(s, c), mp, ptm, rc, st, rq)
<1> DEFINE t == Append(s, c)
<1>1. /\ Len(s) \in Nat /\ DOMAIN s = 1 .. Len(s) /\ DOMAIN t = 1 .. Len(s) + 1
      /\ \A k \in 1 .. Len(s) : t[k] = s[k]
      /\ t[Len(s) + 1] = c
  BY AppendFacts
<1>2. s # <<>> <=> Len(s) # 0
  BY EmptySeq
<1>3. \A k \in DOMAIN t : t[k].call = "fetch" => k \in DOMAIN s /\ t[k] = s[k]
  BY <1>1
<1> HIDE DEF t
<1>4. ASSUME NEW k \in DOMAIN s, s[k].call = "fetch" PROVE rc[s[k].mod][Asked(s[k], mp)] = None
  <2>1. CASE k < Len(s)
    BY <2>1, <1>4 DEF Answers
  <2>2. CASE k = Len(s)
    BY <2>2, <1>1, <1>2, <1>4 DEF Last
  <2>3. QED
    BY <2>1, <2>2, <1>1
<1>5. QED
  BY <1>3, <1>4 DEF Answers, t

\* The request at the top is answered, with the registered module if it is for
\* an ES module.
LEMMA AnswersAnswered ==
  ASSUME NEW s, NEW n, NEW mp, NEW ptm, NEW rc, NEW st, NEW rq, NEW m \in Mods,
         TreeOK(s, n, mp, ptm, rc), s # <<>>, Asking(Last(s), mp),
         Answers(s, mp, ptm, rc, st, rq),
         Kind[Asked(Last(s), mp)] = "esm" => ptm[Asked(Last(s), mp)] # None,
         Kind[Asked(Last(s), mp)] = "cjs" => rq[Asked(Last(s), mp)] # "none"
  PROVE  /\ Answers([s EXCEPT ![Len(s)].next = @ + 1], mp, ptm,
                    [rc EXCEPT ![Last(s).mod][Asked(Last(s), mp)] = m], st, rq)
         /\ Last(s).mod \in Mods /\ Last(s).mod <= n /\ st[Last(s).mod] = "unlinked"
         /\ Asked(Last(s), mp) \in Paths
<1> DEFINE f == Last(s)
           q == Asked(f, mp)
           t == [s EXCEPT ![Len(s)].next = @ + 1]
           rc2 == [rc EXCEPT ![f.mod][q] = m]
<1>1. s \in Seq(Calls) /\ rc \in [Mods -> [Paths -> Mods \union {None}]] /\ f.call = "fetch"
  BY DEF TreeOK, ChainOK, Tables, Asking
<1>2. /\ DOMAIN s = 1 .. Len(s) /\ Len(s) \in Nat \ {0} /\ Len(s) \in DOMAIN s
      /\ s[Len(s)] = f /\ f \in FetchCalls
  BY <1>1, FrontFacts, CallKinds
<1>3. FetchOK(f, n, mp, ptm, rc) /\ f.mod \in Mods
  BY <1>1, <1>2 DEF TreeOK, ChainOK, FetchCalls
<1>4. q \in Paths
  <2>1. Requests[mp[f.mod]] \in Seq(Paths) /\ f.next \in 1 .. Len(Requests[mp[f.mod]])
    BY <1>3, EsmConstants DEF FetchOK, TreeOK, Tables, Asking
  <2>2. QED
    BY <2>1, ElementOfSeq DEF Asked
<1>5. /\ \A p \in Paths : p # q => rc2[f.mod][p] = rc[f.mod][p]
      /\ \A x \in Mods : x # f.mod => rc2[x] = rc[x]
  BY <1>1, <1>3
<1>6. /\ DOMAIN t = DOMAIN s /\ Len(t) = Len(s)
      /\ \A k \in DOMAIN s : /\ t[k].call = s[k].call
                             /\ s[k].call = "fetch" => t[k].mod = s[k].mod
                             /\ k # Len(s) => t[k] = s[k]
  <2>1. [f EXCEPT !.next = @ + 1] \in Calls /\ [f EXCEPT !.next = @ + 1].call = f.call
        /\ [f EXCEPT !.next = @ + 1].mod = f.mod
    BY <1>2 DEF FetchCalls, Calls
  <2>2. t = [s EXCEPT ![Len(s)] = [f EXCEPT !.next = @ + 1]]
    BY <1>2
  <2> HIDE DEF t
  <2>3. t \in Seq(Calls) /\ DOMAIN t = DOMAIN s
    BY <2>1, <2>2, <1>1, <1>2, ExceptSeq
  <2>4. Len(t) = Len(s)
    BY <2>3, <1>1, LenProperties, <1>2
  <2>5. QED
    BY <2>1, <2>2, <2>3, <2>4, <1>1, <1>2
<1>7. \A k \in DOMAIN s : s[k].call = "fetch" =>
        /\ s[k].mod \in Mods
        /\ k # Len(s) => s[k].mod # f.mod
  BY <1>1, <1>2, CallKinds DEF FetchCalls, TreeOK, ChainOK
<1>8. st[f.mod] = "unlinked" /\ f.mod <= n
  BY <1>1, <1>2, <1>3 DEF Answers, FetchOK
<1> HIDE DEF f, q, t, rc2
<1>9. ASSUME NEW k \in DOMAIN t, t[k].call = "fetch"
      PROVE  /\ st[t[k].mod] = "unlinked"
             /\ k < Len(t) => rc2[t[k].mod][Asked(t[k], mp)] = None
             /\ \A p \in Paths : rc2[t[k].mod][p] # None =>
                  /\ Kind[p] = "esm" => ptm[p] # None
                  /\ Kind[p] = "cjs" => rq[p] # "none"
  <2>1. k \in DOMAIN s /\ s[k].call = "fetch" /\ t[k].mod = s[k].mod
    BY <1>6, <1>9
  <2>2. CASE k = Len(s)
    <3>1. t[k].mod = f.mod
      BY <2>1, <2>2, <1>2
    <3>2. \A p \in Paths : rc[f.mod][p] # None =>
                  /\ Kind[p] = "esm" => ptm[p] # None
                  /\ Kind[p] = "cjs" => rq[p] # "none"
      BY <1>1, <1>2 DEF Answers
    <3>3. /\ Kind[q] = "esm" => ptm[q] # None
          /\ Kind[q] = "cjs" => rq[q] # "none"
      BY DEF q, f
    <3>4. QED
      BY <3>1, <3>2, <3>3, <2>2, <1>2, <1>5, <1>6, <1>8
  <2>3. CASE k # Len(s)
    <3>1. t[k] = s[k] /\ rc2[s[k].mod] = rc[s[k].mod] /\ k < Len(s)
      BY <2>1, <2>3, <1>2, <1>5, <1>6, <1>7
    <3>2. QED
      BY <3>1, <2>1, <1>6 DEF Answers
  <2>4. QED
    BY <2>2, <2>3
<1>10. ASSUME NEW j \in DOMAIN t, NEW k \in DOMAIN t, t[j].call = "fetch", t[k].call = "fetch", j < k,
              NEW p \in Paths, rc2[t[j].mod][p] # None, Kind[p] = "esm"
       PROVE  ptm[p] # t[k].mod
  <2>1. /\ j \in DOMAIN s /\ k \in DOMAIN s /\ s[j].call = "fetch" /\ s[k].call = "fetch"
        /\ t[j].mod = s[j].mod /\ t[k].mod = s[k].mod /\ j # Len(s)
    BY <1>2, <1>6, <1>10
  <2>2. rc2[s[j].mod] = rc[s[j].mod]
    BY <2>1, <1>5, <1>7
  <2>3. QED
    BY <2>1, <2>2, <1>10 DEF Answers
<1>11. Answers(t, mp, ptm, rc2, st, rq)
  BY <1>9, <1>10 DEF Answers
<1>12. QED
  BY <1>3, <1>4, <1>8, <1>11 DEF t, rc2, f, q

----------------------------------------------------------------------------
\* What is evaluated: the actions.

LEMMA InitLink == Init => LinkInv
<1> SUFFICES ASSUME Init PROVE LinkInv
  OBVIOUS
<1>1. made = 0 /\ \A m \in Mods : ~ (m <= 0)
  BY DEF Init, Mods
<1>2. \A m \in Mods, p \in Paths : resolveCache[m][p] = None
  BY DEF Init
<1>3. Graph(made, resolveCache, status)
  BY <1>1, <1>2 DEF Graph
<1>4. DOMAIN stack = {} /\ ret = None /\ None \notin Mods /\ \A p \in Paths : pathToModule[p] = None
  BY EsmConstants DEF Init
<1>5. Answers(stack, modPath, pathToModule, resolveCache, status, required)
  BY <1>4 DEF Answers
<1>6. Roots(stack, pathToModule, status, ret)
  BY <1>4 DEF Roots
<1>7. Finished(pathToModule, status, required)
  BY DEF Init, Finished
<1>8. QED
  BY <1>3, <1>5, <1>6, <1>7 DEF LinkInv

\* What the lemmas use of both invariants.
LEMMA LinkFacts ==
  ASSUME IndInv, LinkInv
  PROVE  /\ stack \in Seq(Calls) /\ DOMAIN stack = 1 .. Len(stack) /\ Len(stack) \in Nat
         /\ made \in Nat /\ made <= MaxMods
         /\ status \in [Mods -> {"none", "unlinked", "linked", "pending", "evaluated", "errored"}]
         /\ resolveCache \in [Mods -> [Paths -> Mods \union {None}]]
         /\ pathToModule \in [Paths -> Mods \union {None}]
         /\ \A p \in Paths : pathToModule[p] # None =>
              pathToModule[p] \in Mods /\ pathToModule[p] <= made /\ modPath[pathToModule[p]] = p
         /\ \A k \in DOMAIN stack : stack[k].call = "fetch" =>
              /\ stack[k].mod \in Mods /\ stack[k].mod <= made
              /\ modPath[stack[k].mod] \in Paths /\ pathToModule[modPath[stack[k].mod]] = stack[k].mod
         /\ \A k \in DOMAIN stack : stack[k].call \in {"load", "eval"} =>
              /\ stack[k].path \in Paths
              /\ stack[k].step # "fetch" => stack[k].mod \in Mods
         /\ required \in [Paths -> {"none", "running", "done", "threw", "unread"}]
         /\ None \notin Mods /\ Fail \notin Mods
<1>1. /\ stack \in Seq(Calls) /\ made \in Nat /\ made <= MaxMods
      /\ status \in [Mods -> {"none", "unlinked", "linked", "pending", "evaluated", "errored"}]
      /\ resolveCache \in [Mods -> [Paths -> Mods \union {None}]]
      /\ pathToModule \in [Paths -> Mods \union {None}]
      /\ required \in [Paths -> {"none", "running", "done", "threw", "unread"}]
      /\ None \notin Mods /\ Fail \notin Mods
  BY EsmConstants DEF IndInv, Typed, TreeOK, Tables, ChainOK
<1>2. DOMAIN stack = 1 .. Len(stack) /\ Len(stack) \in Nat /\ \A k \in DOMAIN stack : stack[k] \in Calls
  BY <1>1, LenProperties, ElementOfSeq
<1>3. \A p \in Paths : pathToModule[p] # None =>
        pathToModule[p] \in Mods /\ pathToModule[p] <= made /\ modPath[pathToModule[p]] = p
  BY <1>1 DEF IndInv, TreeOK, Tables
<1>4. \A k \in DOMAIN stack : stack[k].call = "fetch" =>
        /\ stack[k].mod \in Mods /\ stack[k].mod <= made
        /\ modPath[stack[k].mod] \in Paths /\ pathToModule[modPath[stack[k].mod]] = stack[k].mod
  BY <1>2, CallKinds DEF FetchCalls, IndInv, TreeOK, Tables, ChainOK, FetchOK
<1>5. ASSUME NEW k \in DOMAIN stack, stack[k].call \in {"load", "eval"}
      PROVE  stack[k].path \in Paths /\ (stack[k].step # "fetch" => stack[k].mod \in Mods)
  <2>1. stack[k].path \in Paths
    BY <1>2, <1>5, CallKinds DEF RootCalls
  <2>2. stack[k].step # "fetch" => stack[k].mod \in Mods
    BY <1>5 DEF IndInv, TreeOK, ChainOK
  <2>3. QED
    BY <2>1, <2>2
<1>6. QED
  BY <1>1, <1>2, <1>3, <1>4, <1>5

\* The steps that leave the modules and the calls alone.
LEMMA QuietLink ==
  ASSUME IndInv, LinkInv, UNCHANGED modVars, UNCHANGED stack, ret' \in {ret, Fail, None},
         \A p \in Paths : required[p] # "none" => required'[p] # "none",
         \A p \in Paths : required'[p] = "done" => required[p] = "done"
  PROVE  LinkInv'
<1>1. UNCHANGED <<made, modPath, status, resolveCache, pathToModule, stack>>
  BY DEF modVars
<1>2. Graph(made, resolveCache, status)'
  BY <1>1 DEF LinkInv
<1>3. stack \in Seq(Calls) /\ None \notin Mods /\ Fail \notin Mods
  BY LinkFacts
<1>4. Answers(stack, modPath, pathToModule, resolveCache, status, required')
  BY <1>3, AnswersKept DEF LinkInv
<1>5. Roots(stack, pathToModule, status, ret)'
  BY <1>1, <1>3 DEF LinkInv, Roots
<1>6. Finished(pathToModule, status, required)'
  BY <1>1 DEF LinkInv, Finished
<1>7. QED
  BY <1>1, <1>2, <1>4, <1>5, <1>6 DEF LinkInv

\* A load, an evaluation or a body begins.
LEMMA EnterLink ==
  ASSUME IndInv, LinkInv, NEW c \in Calls, c.call # "fetch",
         c.call \in {"load", "eval"} => c.step = "fetch" /\ Kind[c.path] = "esm",
         \/ stack = <<>>
         \/ stack # <<>> /\ Top.call = "body"
         \/ /\ stack # <<>> /\ Top.call = "fetch"
            /\ resolveCache[Top.mod][Asked(Top, modPath)] = None,
         stack' = Append(stack, c), UNCHANGED modVars, UNCHANGED ret,
         \A p \in Paths : required[p] # "none" => required'[p] # "none",
         \A p \in Paths : required'[p] = "done" => required[p] = "done"
  PROVE  LinkInv'
<1>1. UNCHANGED <<made, modPath, status, resolveCache, pathToModule>>
  BY DEF modVars
<1>2. Graph(made, resolveCache, status)'
  BY <1>1 DEF LinkInv
<1>3. stack \in Seq(Calls) /\ Top = Last(stack)
  BY LinkFacts DEF Top, Last
<1>4. Answers(stack, modPath, pathToModule, resolveCache, status, required')
  BY <1>3, AnswersKept DEF LinkInv
<1>5. Answers(stack', modPath, pathToModule, resolveCache, status, required')
  BY <1>3, <1>4, AnswersLonger
<1>6. Roots(stack, pathToModule, status, ret)'
  <2>1. /\ DOMAIN stack = 1 .. Len(stack) /\ Len(stack) \in Nat
        /\ DOMAIN stack' = 1 .. Len(stack) + 1
        /\ \A k \in 1 .. Len(stack) : stack'[k] = stack[k]
        /\ stack'[Len(stack) + 1] = c
    BY <1>3, AppendFacts
  <2>2. ret \notin Mods
    BY <1>3 DEF LinkInv, Roots
  <2>3. ASSUME NEW k \in DOMAIN stack', stack'[k].call \in {"load", "eval"}
        PROVE  /\ Kind[stack'[k].path] = "esm"
               /\ stack'[k].step # "fetch" =>
                    /\ pathToModule'[stack'[k].path] = stack'[k].mod
                    /\ status'[stack'[k].mod] \notin {"none", "unlinked"}
    <3>1. stack'[k] = c \/ (k \in DOMAIN stack /\ stack'[k] = stack[k])
      BY <2>1, <2>3
    <3>2. QED
      BY <3>1, <2>3, <1>1 DEF LinkInv, Roots
  <2>4. QED
    BY <2>2, <2>3, <1>1 DEF LinkInv, Roots
<1>7. Finished(pathToModule, status, required)'
  BY <1>1 DEF LinkInv, Finished
<1>8. QED
  BY <1>1, <1>2, <1>5, <1>6, <1>7 DEF LinkInv

\* A load, an evaluation or a body is left.
LEMMA LeaveLink ==
  ASSUME IndInv, LinkInv, stack # <<>>, stack' = Front(stack), ret' \in {Fail, None},
         UNCHANGED <<made, modPath, resolveCache, pathToModule>>,
         Graph(made, resolveCache, status'), Onward,
         \A x \in Mods : status[x] \in {"unlinked", "evaluated"} => status'[x] = status[x],
         \A p \in Paths : required[p] # "none" => required'[p] # "none",
         \A p \in Paths : Kind[p] = "esm" /\ required'[p] = "done" =>
           required[p] = "done" \/ (pathToModule[p] # None /\ status'[pathToModule[p]] = "evaluated")
  PROVE  LinkInv'
<1>1. /\ stack \in Seq(Calls) /\ None \notin Mods /\ Fail \notin Mods
      /\ \A p \in Paths : pathToModule[p] # None => pathToModule[p] \in Mods
      /\ \A k \in DOMAIN stack : stack[k].call = "fetch" => stack[k].mod \in Mods
  BY LinkFacts
<1>2. \A k \in DOMAIN stack : stack[k].call = "fetch" => status'[stack[k].mod] = status[stack[k].mod]
  BY <1>1 DEF LinkInv, Answers
<1>3. Answers(stack, modPath, pathToModule, resolveCache, status', required')
  BY <1>1, <1>2, AnswersKept DEF LinkInv
<1>4. Answers(stack', modPath, pathToModule, resolveCache, status', required')
  BY <1>1, <1>3, AnswersShorter
<1>5. Roots(stack, pathToModule, status, ret)'
  <2>1. /\ DOMAIN stack = 1 .. Len(stack) /\ DOMAIN stack' = 1 .. Len(stack) - 1 /\ Len(stack) \in Nat \ {0}
        /\ \A k \in 1 .. Len(stack) - 1 : stack'[k] = stack[k]
    BY <1>1, FrontFacts
  <2>2. \A k \in DOMAIN stack' : k \in DOMAIN stack /\ stack'[k] = stack[k]
    BY <2>1
  <2>3. ASSUME NEW k \in DOMAIN stack', stack'[k].call \in {"load", "eval"}
        PROVE  /\ Kind[stack'[k].path] = "esm"
               /\ stack'[k].step # "fetch" =>
                    /\ pathToModule'[stack'[k].path] = stack'[k].mod
                    /\ status'[stack'[k].mod] \notin {"none", "unlinked"}
    <3>1. k \in DOMAIN stack /\ stack'[k] = stack[k]
      BY <2>2, <2>3
    <3>2. stack[k].step # "fetch" => stack[k].mod \in Mods
      BY <2>3, <3>1, LinkFacts
    <3>3. QED
      BY <2>3, <3>1, <3>2 DEF LinkInv, Roots, Onward
  <2>4. QED
    BY <2>3, <1>1 DEF LinkInv, Roots
<1>6. Finished(pathToModule, status, required)'
  BY <1>1 DEF LinkInv, Finished
<1>7. QED
  BY <1>4, <1>5, <1>6 DEF LinkInv

\* FetchESModuleTree of a path that is not registered.
LEMMA FetchFileLink ==
  ASSUME IndInv, LinkInv, NEW p \in Paths, stack # <<>>, FetchFile(p), ret = None, UNCHANGED required,
         \/ Top.call \in {"load", "eval"} /\ Top.step = "fetch" /\ Top.path = p
         \/ Asking(Top, modPath) /\ Asked(Top, modPath) = p /\ Kind[p] = "esm"
  PROVE  LinkInv'
<1>1. CASE ret' = Fail /\ UNCHANGED <<modVars, stack>>
  BY <1>1, QuietLink
<1>2. CASE Register(p) /\ stack' = Append(stack, FetchCall(made + 1)) /\ UNCHANGED <<resolveCache, ret>>
  <2> DEFINE c == FetchCall(made + 1)
  <2>1. /\ made < MaxMods /\ made' = made + 1 /\ modPath' = [modPath EXCEPT ![made + 1] = p]
        /\ status' = [status EXCEPT ![made + 1] = "unlinked"]
        /\ pathToModule' = [pathToModule EXCEPT ![p] = made + 1]
        /\ pathToModule[p] = None
        /\ resolveCache' = resolveCache /\ ret' = None /\ required' = required
    BY <1>2 DEF Register, FetchFile
  <2>2. /\ stack \in Seq(Calls) /\ DOMAIN stack = 1 .. Len(stack) /\ Len(stack) \in Nat \ {0}
        /\ made \in Nat /\ Top = stack[Len(stack)] /\ Len(stack) \in DOMAIN stack
    BY LinkFacts, TopFacts
  <2>3. made + 1 \in Mods /\ made + 1 # None
    BY <2>1, MadeTyped, EsmConstants
  <2>4. c \in Calls /\ c.call = "fetch" /\ c.mod = made + 1
    BY <2>3 DEF FetchCall, Calls, FetchCalls
  <2> HIDE DEF c
  <2>5. /\ DOMAIN stack' = 1 .. Len(stack) + 1 /\ Len(stack') = Len(stack) + 1
        /\ \A k \in 1 .. Len(stack) : stack'[k] = stack[k]
        /\ stack'[Len(stack) + 1] = c
    BY <1>2, <2>2, <2>4, AppendFacts, AppendProperties DEF c
  <2>6. Graph(made', resolveCache', status')
    BY <2>1, <2>2, LinkFacts, MadeGraph DEF LinkInv
  <2>7. /\ pathToModule'[p] = made + 1
        /\ \A q \in Paths : pathToModule[q] # None =>
             /\ q # p /\ pathToModule'[q] = pathToModule[q]
             /\ pathToModule[q] # made + 1 /\ pathToModule[q] \in Mods
             /\ status'[pathToModule[q]] = status[pathToModule[q]]
    BY <2>1, <2>2, LinkFacts
  <2>8. \A k \in DOMAIN stack : stack[k].call = "fetch" =>
          /\ stack[k].mod # made + 1 /\ stack[k].mod \in Mods
          /\ modPath'[stack[k].mod] = modPath[stack[k].mod]
          /\ status'[stack[k].mod] = "unlinked"
    BY <2>1, <2>2, LinkFacts DEF LinkInv, Answers
  <2>9. status'[made + 1] = "unlinked" /\ \A q \in Paths : resolveCache[made + 1][q] = None
    <3>1. \A q \in Paths : resolveCache[made + 1][q] # None => made + 1 <= made
      BY <2>3 DEF LinkInv, Graph
    <3>2. QED
      BY <3>1, <2>1, <2>2, <2>3, LinkFacts
  <2>10. \A k \in DOMAIN stack : stack[k].call = "fetch" =>
           resolveCache[stack[k].mod][Asked(stack[k], modPath')] = None
    <3>1. ASSUME NEW k \in DOMAIN stack, stack[k].call = "fetch"
          PROVE  resolveCache[stack[k].mod][Asked(stack[k], modPath)] = None
      <4>1. CASE k < Len(stack)
        BY <3>1, <4>1 DEF LinkInv, Answers
      <4>2. CASE k = Len(stack)
        <5>1. Top.call = "fetch" /\ Asked(Top, modPath) = p /\ Kind[p] = "esm"
          BY <2>2, <3>1, <4>2
        <5>2. resolveCache[Top.mod][p] = None
          BY <2>1, <2>2, <5>1 DEF LinkInv, Answers
        <5>3. QED
          BY <2>2, <4>2, <5>1, <5>2
      <4>3. QED
        BY <4>1, <4>2, <2>2
    <3>2. QED
      BY <3>1, <2>8 DEF Asked
  <2>11. ASSUME NEW k \in DOMAIN stack', stack'[k].call = "fetch"
         PROVE  /\ status'[stack'[k].mod] = "unlinked"
                /\ k < Len(stack') => resolveCache'[stack'[k].mod][Asked(stack'[k], modPath')] = None
                /\ \A q \in Paths : resolveCache'[stack'[k].mod][q] # None =>
                     /\ Kind[q] = "esm" => pathToModule'[q] # None
                     /\ Kind[q] = "cjs" => required'[q] # "none"
    <3>1. CASE k = Len(stack) + 1
      BY <3>1, <2>1, <2>4, <2>5, <2>9
    <3>2. CASE k # Len(stack) + 1
      <4>1. k \in DOMAIN stack /\ stack'[k] = stack[k]
        BY <3>2, <2>2, <2>5
      <4>2. \A q \in Paths : resolveCache[stack[k].mod][q] # None =>
              /\ Kind[q] = "esm" => pathToModule[q] # None
              /\ Kind[q] = "cjs" => required[q] # "none"
        BY <4>1, <2>11 DEF LinkInv, Answers
      <4>3. QED
        BY <4>1, <4>2, <2>1, <2>7, <2>8, <2>10, <2>11
    <3>3. QED
      BY <3>1, <3>2
  <2>12. ASSUME NEW j \in DOMAIN stack', NEW k \in DOMAIN stack', j < k,
                stack'[j].call = "fetch", stack'[k].call = "fetch",
                NEW q \in Paths, resolveCache'[stack'[j].mod][q] # None, Kind[q] = "esm"
         PROVE  pathToModule'[q] # stack'[k].mod
    <3>1. j \in DOMAIN stack /\ stack'[j] = stack[j]
      BY <2>2, <2>5, <2>12
    <3>2. pathToModule[q] # None
      BY <3>1, <2>1, <2>12 DEF LinkInv, Answers
    <3>3. pathToModule'[q] = pathToModule[q] /\ pathToModule[q] # made + 1
      BY <3>2, <2>7
    <3>4. CASE k = Len(stack) + 1
      BY <3>3, <3>4, <2>4, <2>5
    <3>5. CASE k # Len(stack) + 1
      <4>1. k \in DOMAIN stack /\ stack'[k] = stack[k]
        BY <3>5, <2>2, <2>5
      <4>2. pathToModule[q] # stack[k].mod
        BY <3>1, <4>1, <2>1, <2>12 DEF LinkInv, Answers
      <4>3. QED
        BY <3>3, <4>1, <4>2
    <3>6. QED
      BY <3>4, <3>5
  <2>13. Answers(stack', modPath', pathToModule', resolveCache', status', required')
    BY <2>11, <2>12 DEF Answers
  <2>14. Roots(stack, pathToModule, status, ret)'
    <3>1. ASSUME NEW k \in DOMAIN stack, stack[k].call \in {"load", "eval"}
          PROVE  /\ Kind[stack[k].path] = "esm"
                 /\ stack[k].step # "fetch" =>
                      /\ pathToModule'[stack[k].path] = stack[k].mod
                      /\ status'[stack[k].mod] \notin {"none", "unlinked"}
      <4>1. /\ Kind[stack[k].path] = "esm"
            /\ stack[k].step # "fetch" =>
                 /\ pathToModule[stack[k].path] = stack[k].mod
                 /\ status[stack[k].mod] \notin {"none", "unlinked"}
        BY <3>1 DEF LinkInv, Roots
      <4>2. stack[k].path \in Paths /\ None \notin Mods /\ (stack[k].step # "fetch" => stack[k].mod \in Mods)
        BY <3>1, LinkFacts
      <4>3. QED
        BY <4>1, <4>2, <2>7
    <3>2. \A k \in DOMAIN stack' : stack'[k].call \in {"load", "eval"} =>
            /\ Kind[stack'[k].path] = "esm"
            /\ stack'[k].step # "fetch" =>
                 /\ pathToModule'[stack'[k].path] = stack'[k].mod
                 /\ status'[stack'[k].mod] \notin {"none", "unlinked"}
      BY <3>1, <2>2, <2>4, <2>5
    <3>3. Kind[p] = "esm"
      BY <2>2 DEF LinkInv, Roots
    <3>4. \A q \in Paths : pathToModule'[q] # None => Kind[q] = "esm"
      BY <3>3, <2>1, LinkFacts DEF LinkInv, Roots
    <3>5. QED
      BY <3>2, <3>4, <2>1, LinkFacts DEF Roots
  <2>15. Finished(pathToModule, status, required)'
    BY <2>1, <2>7 DEF LinkInv, Finished
  <2>16. QED
    BY <2>6, <2>13, <2>14, <2>15 DEF LinkInv
<1>3. QED
  BY <1>1, <1>2 DEF FetchFile

\* The fetch below the call on top, or the top itself, has its answer.
LEMMA AnswerLink ==
  ASSUME IndInv, LinkInv, stack # <<>>, Top.call \in {"fetch", "body"},
         NEW s \in {stack, Front(stack)}, s # <<>>, NEW q, NEW m \in Mods, m <= made',
         TreeOK(s, made', modPath', pathToModule, resolveCache),
         Graph(made', resolveCache, status'),
         Answers(s, modPath', pathToModule, resolveCache, status', required'),
         Finished(pathToModule, status', required'),
         Asking(Last(s), modPath'), q = Asked(Last(s), modPath'), Answered(s, q, m),
         Kind[q] = "esm" => pathToModule[q] # None,
         Kind[q] = "cjs" => required'[q] # "none",
         Onward, UNCHANGED <<pathToModule, ret>>
  PROVE  LinkInv'
<1>1. /\ stack' = [s EXCEPT ![Len(s)].next = @ + 1]
      /\ resolveCache' = [resolveCache EXCEPT ![Last(s).mod][q] = m]
  BY DEF Answered
<1>2. /\ Answers(stack', modPath', pathToModule, resolveCache', status', required')
      /\ Last(s).mod \in Mods /\ Last(s).mod <= made' /\ status'[Last(s).mod] = "unlinked"
      /\ q \in Paths
  <2>1. q = Asked(Last(s), modPath')
    OBVIOUS
  <2>2. resolveCache' = [resolveCache EXCEPT ![Last(s).mod][Asked(Last(s), modPath')] = m]
    BY <1>1, <2>1
  <2>3. /\ Kind[Asked(Last(s), modPath')] = "esm" => pathToModule[Asked(Last(s), modPath')] # None
        /\ Kind[Asked(Last(s), modPath')] = "cjs" => required'[Asked(Last(s), modPath')] # "none"
    BY <2>1
  <2>4. /\ Answers([s EXCEPT ![Len(s)].next = @ + 1], modPath', pathToModule,
                    [resolveCache EXCEPT ![Last(s).mod][Asked(Last(s), modPath')] = m], status', required')
        /\ Last(s).mod \in Mods /\ Last(s).mod <= made' /\ status'[Last(s).mod] = "unlinked"
        /\ Asked(Last(s), modPath') \in Paths
    <3>1. /\ TreeOK(s, made', modPath', pathToModule, resolveCache) /\ s # <<>>
          /\ Asking(Last(s), modPath') /\ m \in Mods
          /\ Answers(s, modPath', pathToModule, resolveCache, status', required')
      OBVIOUS
    <3>2. QED
      BY ONLY <3>1, <2>3, AnswersAnswered
  <2>5. QED
    BY <1>1, <2>1, <2>2, <2>4
<1>3. Graph(made', resolveCache', status')
  BY <1>1, <1>2, LinkFacts, AnswerGraph
<1>4. /\ stack \in Seq(Calls) /\ Top = stack[Len(stack)] /\ DOMAIN stack = 1 .. Len(stack)
      /\ Len(stack) \in Nat \ {0} /\ s \in Seq(Calls)
      /\ \A k \in DOMAIN s : k \in DOMAIN stack /\ s[k] = stack[k]
  <2>1. /\ stack \in Seq(Calls) /\ Top = stack[Len(stack)] /\ DOMAIN stack = 1 .. Len(stack)
        /\ Len(stack) \in Nat \ {0}
    BY TopFacts
  <2>2. /\ Front(stack) \in Seq(Calls) /\ DOMAIN Front(stack) = 1 .. Len(stack) - 1
        /\ \A k \in 1 .. Len(stack) - 1 : Front(stack)[k] = stack[k]
    BY <2>1, FrontFacts
  <2>3. CASE s = stack
    BY <2>1, <2>3
  <2>4. CASE s = Front(stack)
    BY <2>1, <2>2, <2>4
  <2>5. QED
    BY <2>3, <2>4
<1>5. ASSUME NEW k \in DOMAIN stack, stack[k].call \in {"load", "eval"}
      PROVE  /\ Kind[stack[k].path] = "esm"
             /\ stack[k].step # "fetch" =>
                  /\ pathToModule[stack[k].path] = stack[k].mod
                  /\ status'[stack[k].mod] \notin {"none", "unlinked"}
  <2>1. stack[k].step # "fetch" => stack[k].mod \in Mods
    BY <1>5, LinkFacts
  <2>2. QED
    BY <2>1, <1>5 DEF LinkInv, Roots, Onward
<1>6. Roots(stack, pathToModule, status, ret)'
  <2>1. ret' = ret /\ ret \notin Mods
    BY <1>4 DEF LinkInv, Roots, Last
  <2>2. DOMAIN stack' = DOMAIN s
        /\ \A k \in DOMAIN s : stack'[k].call \in {"load", "eval"} => stack'[k] = s[k]
    <3>1. /\ DOMAIN s = 1 .. Len(s) /\ Len(s) \in Nat \ {0} /\ Len(s) \in DOMAIN s
          /\ s[Len(s)] = Last(s) /\ Last(s) \in Calls /\ Last(s).call = "fetch"
      BY <1>4, FrontFacts DEF Asking
    <3>2. Last(s) \in FetchCalls
      BY <3>1, CallKinds
    <3> DEFINE g == [Last(s) EXCEPT !.next = @ + 1]
    <3>3. g \in Calls /\ g.call = "fetch"
      BY <3>1, <3>2 DEF FetchCalls, Calls
    <3>4. stack' = [s EXCEPT ![Len(s)] = g]
      BY <1>1, <3>1
    <3> HIDE DEF g
    <3>5. stack' \in Seq(Calls) /\ DOMAIN stack' = DOMAIN s
      BY <3>1, <3>3, <3>4, <1>4, ExceptSeq
    <3>6. stack'[Len(s)] = g /\ \A k \in DOMAIN s : k # Len(s) => stack'[k] = s[k]
      BY <3>1, <3>4
    <3>7. QED
      BY <3>3, <3>5, <3>6
  <2>3. \A k \in DOMAIN stack' : stack'[k].call \in {"load", "eval"} =>
          /\ Kind[stack'[k].path] = "esm"
          /\ stack'[k].step # "fetch" =>
               /\ pathToModule[stack'[k].path] = stack'[k].mod
               /\ status'[stack'[k].mod] \notin {"none", "unlinked"}
    BY <2>2, <1>4, <1>5
  <2>4. QED
    BY <2>1, <2>3 DEF LinkInv, Roots
<1>7. Finished(pathToModule, status, required)'
  BY DEF Finished
<1>8. QED
  BY <1>2, <1>3, <1>6, <1>7 DEF LinkInv

LEMMA FetchRootLink == IndInv /\ LinkInv /\ FetchRoot => LinkInv'
<1> SUFFICES ASSUME IndInv, LinkInv, FetchRoot PROVE LinkInv'
  OBVIOUS
<1>1. /\ stack # <<>> /\ Top.call \in {"load", "eval"} /\ Top.step = "fetch" /\ ret = None
      /\ UNCHANGED required
  BY DEF FetchRoot, Rooted, On
<1>2. Top.path \in Paths /\ Top = Last(stack)
  BY <1>1, TopFacts
<1>3. CASE ret' = pathToModule[Top.path] /\ UNCHANGED <<modVars, stack>>
  <2>1. UNCHANGED <<made, modPath, status, resolveCache, pathToModule, stack, required>>
    BY <1>1, <1>3 DEF modVars
  <2>2. Roots(stack, pathToModule, status, ret)'
    BY <1>1, <1>2, <1>3, <2>1 DEF LinkInv, Roots
  <2>3. QED
    BY <2>1, <2>2 DEF LinkInv
<1>4. CASE FetchFile(Top.path)
  BY <1>1, <1>2, <1>4, FetchFileLink
<1>5. QED
  BY <1>3, <1>4 DEF FetchRoot

LEMMA FetchRequestLink == IndInv /\ LinkInv /\ FetchRequest => LinkInv'
<1> SUFFICES ASSUME IndInv, LinkInv, FetchRequest PROVE LinkInv'
  OBVIOUS
<1>1. Requesting /\ Kind[Request] = "esm" /\ UNCHANGED <<required, main, importVars>>
  BY DEF FetchRequest
<1>2. /\ stack # <<>> /\ Asking(Last(stack), modPath) /\ Top = Last(stack)
      /\ Request = Asked(Last(stack), modPath) /\ Request \in Paths
      /\ Top.call = "fetch" /\ ret = None
  BY <1>1, RequestFacts, TopFacts DEF Requesting, On
<1>3. CASE pathToModule[Request] # None /\ Answered(stack, Request, pathToModule[Request])
           /\ UNCHANGED <<made, modPath, status, tracked, pathToModule, ret>>
  <2>1. pathToModule[Request] \in Mods /\ pathToModule[Request] <= made
    BY <1>2, <1>3, LinkFacts
  <2>2. TreeOK(stack, made', modPath', pathToModule, resolveCache)
    BY <1>3 DEF IndInv
  <2>3. /\ Graph(made', resolveCache, status')
        /\ Answers(stack, modPath', pathToModule, resolveCache, status', required')
        /\ Finished(pathToModule, status', required')
    BY <1>1, <1>3 DEF LinkInv
  <2>4. Asking(Last(stack), modPath') /\ Request = Asked(Last(stack), modPath')
    BY <1>2, <1>3
  <2>5. Kind[Request] # "cjs" /\ UNCHANGED <<pathToModule, ret>> /\ Onward
    BY <1>1, <1>3 DEF Onward
  <2>6. QED
    BY <1>2, <1>3, <2>1, <2>2, <2>3, <2>4, <2>5, AnswerLink
<1>4. CASE FetchFile(Request)
  BY <1>1, <1>2, <1>4, FetchFileLink
<1>5. QED
  BY <1>3, <1>4 DEF FetchRequest

\* A request that is no ES module is answered with a synthetic module.
LEMMA SyntheticLink ==
  ASSUME IndInv, LinkInv, stack # <<>>, Top.call \in {"fetch", "body"},
         NEW s \in {stack, Front(stack)}, s # <<>>,
         TreeOK(s, made, modPath, pathToModule, resolveCache),
         Asking(Last(s), modPath),
         NEW p \in Paths, p = Asked(Last(s), modPath), Kind[p] # "esm",
         NEW v \in {"unlinked", "evaluated"}, Synthetic(p, v), Answered(s, p, made + 1),
         \A q \in Paths : required[q] # "none" => required'[q] # "none",
         \A q \in Paths : Kind[q] = "esm" /\ required'[q] = "done" => required[q] = "done",
         Kind[p] = "cjs" => required'[p] # "none",
         UNCHANGED ret
  PROVE  LinkInv'
<1>1. /\ made < MaxMods /\ made' = made + 1 /\ modPath' = [modPath EXCEPT ![made + 1] = p]
      /\ status' = [status EXCEPT ![made + 1] = v] /\ pathToModule' = pathToModule
  BY DEF Synthetic
<1>2. /\ made + 1 \in Mods /\ made \in Nat /\ made + 1 <= made'
  <2>1. made + 1 \in Mods
    BY <1>1, MadeTyped
  <2>2. made \in Nat
    BY LinkFacts
  <2>3. QED
    BY <1>1, <2>1, <2>2
<1>3. /\ TreeOK(s, made', modPath', pathToModule, resolveCache)
      /\ \A k \in DOMAIN s : s[k].call = "fetch" => modPath'[s[k].mod] = modPath[s[k].mod]
  <2>1. /\ TreeOK(s, made, modPath, pathToModule, resolveCache) /\ made < MaxMods /\ p \in Paths
        /\ modPath' = [modPath EXCEPT ![made + 1] = p]
    BY <1>1
  <2>2. ASSUME NEW mp2, mp2 = [modPath EXCEPT ![made + 1] = p]
        PROVE  /\ TreeOK(s, made + 1, mp2, pathToModule, resolveCache)
               /\ \A k \in DOMAIN s : s[k].call = "fetch" => mp2[s[k].mod] = modPath[s[k].mod]
    <3>1. TreeOK(s, made + 1, mp2, pathToModule, resolveCache)
      BY ONLY <2>1, <2>2, MakeModule
    <3>2. \A k \in DOMAIN s : s[k].call = "fetch" => mp2[s[k].mod] = modPath[s[k].mod]
      BY ONLY <2>1, <2>2, MakeModule
    <3>3. QED
      BY <3>1, <3>2
  <2>3. /\ TreeOK(s, made + 1, modPath', pathToModule, resolveCache)
        /\ \A k \in DOMAIN s : s[k].call = "fetch" => modPath'[s[k].mod] = modPath[s[k].mod]
    BY ONLY <2>1, <2>2
  <2>4. QED
    BY <1>1, <2>3
<1>4. Graph(made', resolveCache, status')
  BY <1>1, <1>2, LinkFacts, MadeGraph DEF LinkInv
<1>5. s \in Seq(Calls) /\ Answers(s, modPath, pathToModule, resolveCache, status, required)
  BY LinkFacts, FrontFacts, AnswersShorter DEF LinkInv
<1>6. \A k \in DOMAIN s : s[k].call = "fetch" => s[k].mod \in Mods /\ s[k].mod <= made
  BY <1>5, CallKinds DEF FetchCalls, TreeOK, ChainOK, FetchOK
<1>7. \A k \in DOMAIN s : s[k].call = "fetch" => status'[s[k].mod] = status[s[k].mod]
  BY <1>1, <1>2, <1>6, LinkFacts
<1>8. Answers(s, modPath', pathToModule, resolveCache, status', required')
  BY <1>3, <1>5, <1>7, AnswersKept
<1>9. Finished(pathToModule, status', required')
  <2>1. \A q \in Paths : pathToModule[q] # None =>
          pathToModule[q] \in Mods /\ status'[pathToModule[q]] = status[pathToModule[q]]
    BY <1>1, <1>2, LinkFacts
  <2>2. QED
    BY <2>1 DEF LinkInv, Finished
<1>10. Asking(Last(s), modPath') /\ p = Asked(Last(s), modPath')
  <2>1. Last(s) = s[Len(s)] /\ Len(s) \in DOMAIN s /\ Last(s).call = "fetch"
    BY <1>5, FrontFacts DEF Asking
  <2>2. modPath'[Last(s).mod] = modPath[Last(s).mod]
    BY <1>3, <2>1
  <2>3. QED
    BY <2>2 DEF Asking, Asked
<1>11. Onward
  <2>1. v \notin {"none"} /\ status[made + 1] = "none"
    BY <1>2 DEF IndInv, Typed
  <2>2. QED
    BY <2>1, <1>1, LinkFacts DEF Onward
<1>12. QED
  BY <1>1, <1>2, <1>3, <1>4, <1>8, <1>9, <1>10, <1>11, AnswerLink

LEMMA FetchExtensionLink == IndInv /\ LinkInv /\ FetchExtension => LinkInv'
<1> SUFFICES ASSUME IndInv, LinkInv, FetchExtension PROVE LinkInv'
  OBVIOUS
<1>1. Requesting /\ Kind[Request] = "ext" /\ UNCHANGED required
  BY DEF FetchExtension
<1>2. /\ stack # <<>> /\ Asking(Last(stack), modPath) /\ Top.call = "fetch"
      /\ Request = Asked(Last(stack), modPath) /\ Request \in Paths
      /\ TreeOK(stack, made, modPath, pathToModule, resolveCache)
  BY <1>1, RequestFacts DEF Requesting, On, IndInv
<1>3. CASE ret' = Fail /\ UNCHANGED <<modVars, stack>>
  BY <1>1, <1>3, QuietLink
<1>4. CASE Synthetic(Request, "evaluated") /\ Answered(stack, Request, made + 1) /\ UNCHANGED <<tracked, ret>>
  BY <1>1, <1>2, <1>4, SyntheticLink
<1>5. QED
  BY <1>3, <1>4 DEF FetchExtension

LEMMA FetchCjsLink == IndInv /\ LinkInv /\ FetchCjs => LinkInv'
<1> SUFFICES ASSUME IndInv, LinkInv, FetchCjs PROVE LinkInv'
  OBVIOUS
<1>1. Requesting /\ Kind[Request] = "cjs"
  BY DEF FetchCjs
<1>2. /\ stack # <<>> /\ Asking(Last(stack), modPath) /\ Top.call = "fetch" /\ Top = Last(stack)
      /\ Request = Asked(Last(stack), modPath) /\ Request \in Paths
      /\ TreeOK(stack, made, modPath, pathToModule, resolveCache)
  BY <1>1, RequestFacts, TopFacts DEF Requesting, On, IndInv
<1>3. required \in [Paths -> {"none", "running", "done", "threw", "unread"}]
  BY LinkFacts
<1>4. CASE /\ required[Request] \in {"running", "done", "unread"}
           /\ Wrapped(stack, Request) /\ UNCHANGED <<required, ret>>
  <2>1. Synthetic(Request, "unlinked") /\ Answered(stack, Request, made + 1)
    BY <1>4 DEF Wrapped
  <2>2. QED
    BY <1>1, <1>2, <1>4, <2>1, SyntheticLink
<1>5. CASE ret' = Fail /\ UNCHANGED <<modVars, stack, required>>
  BY <1>5, QuietLink
<1>6. CASE /\ required[Request] = "none"
           /\ required' = [required EXCEPT ![Request] = "unread"]
           /\ ret' = Fail /\ UNCHANGED <<modVars, stack>>
  BY <1>2, <1>3, <1>6, QuietLink
<1>7. CASE /\ required[Request] = "none"
           /\ required' = [required EXCEPT ![Request] = "running"]
           /\ stack' = Append(stack, BodyCall(Request))
           /\ UNCHANGED <<modVars, ret>>
  <2>1. BodyCall(Request) \in Calls /\ BodyCall(Request).call = "body"
    BY <1>2 DEF BodyCall, Calls, BodyCalls
  <2>2. resolveCache[Top.mod][Asked(Top, modPath)] = None
    <3>1. Len(stack) \in DOMAIN stack /\ Top = stack[Len(stack)]
      BY <1>2, TopFacts
    <3>2. QED
      BY <1>1, <1>2, <1>7, <3>1 DEF LinkInv, Answers
  <2>3. /\ \A p \in Paths : required[p] # "none" => required'[p] # "none"
        /\ \A p \in Paths : required'[p] = "done" => required[p] = "done"
    BY <1>2, <1>3, <1>7
  <2>4. QED
    BY <1>2, <1>7, <2>1, <2>2, <2>3, EnterLink
<1>8. QED
  BY <1>4, <1>5, <1>6, <1>7 DEF FetchCjs

LEMMA FetchReturnLink == IndInv /\ LinkInv /\ FetchReturn => LinkInv'
<1> SUFFICES ASSUME IndInv, LinkInv, FetchReturn PROVE LinkInv'
  OBVIOUS
<1> DEFINE below == Front(stack)
<1>1. /\ stack # <<>> /\ Top.call = "fetch" /\ Top.next > Len(Requests[modPath[Top.mod]])
      /\ UNCHANGED <<made, modPath, status, tracked, pathToModule, required>>
  BY DEF FetchReturn, On
<1>2. /\ stack \in Seq(Calls) /\ Top = Last(stack) /\ Top.mod \in Mods /\ Top.mod <= made
      /\ below # <<>> /\ Invokes(Last(below), Top, modPath)
      /\ Top = stack[Len(stack)] /\ Len(stack) \in DOMAIN stack
      /\ modPath[Top.mod] \in Paths
  BY <1>1, TopFacts
<1>3. pathToModule[modPath[Top.mod]] = Top.mod /\ Top.mod # None
  BY <1>1, <1>2, LinkFacts
<1>4. TreeOK(below, made, modPath, pathToModule, resolveCache)
  BY <1>1, <1>2, LeaveFetch DEF IndInv
<1>5. Answers(below, modPath, pathToModule, resolveCache, status, required)
  BY <1>1, <1>2, AnswersShorter DEF LinkInv
<1>6. /\ Last(below).call = "fetch" => Answered(below, modPath[Top.mod], Top.mod) /\ UNCHANGED ret
      /\ Last(below).call # "fetch" => stack' = below /\ ret' = Top.mod /\ UNCHANGED resolveCache
  BY DEF FetchReturn
<1>7. /\ below \in Seq(Calls) /\ \A k \in DOMAIN below : k \in DOMAIN stack /\ below[k] = stack[k] /\ k # Len(stack)
  BY <1>1, <1>2, FrontFacts
<1> HIDE DEF below
<1>8. CASE Last(below).call = "fetch"
  <2>1. Asking(Last(below), modPath') /\ modPath[Top.mod] = Asked(Last(below), modPath')
    BY <1>1, <1>2, <1>8 DEF Invokes
  <2>2. /\ TreeOK(below, made', modPath', pathToModule, resolveCache)
        /\ Graph(made', resolveCache, status')
        /\ Answers(below, modPath', pathToModule, resolveCache, status', required')
        /\ Finished(pathToModule, status', required')
    BY <1>1, <1>4, <1>5 DEF LinkInv
  <2>3. Kind[modPath[Top.mod]] # "cjs" /\ Onward
    BY <1>1, <1>2, <1>3 DEF LinkInv, Roots, Onward
  <2>4. QED
    BY <1>1, <1>2, <1>3, <1>6, <1>8, <2>1, <2>2, <2>3, AnswerLink DEF below
<1>9. CASE Last(below).call # "fetch"
  <2>1. stack' = below /\ ret' = Top.mod /\ resolveCache' = resolveCache
    BY <1>6, <1>9
  <2>2. /\ Last(below).call \in {"load", "eval"} /\ Last(below).step = "fetch"
        /\ Last(below).path = modPath[Top.mod]
    BY <1>1, <1>2, <1>9 DEF Invokes, Asking
  <2>3. \A k \in DOMAIN below : below[k].call \in {"load", "eval"} =>
          /\ Kind[below[k].path] = "esm"
          /\ below[k].step # "fetch" =>
               /\ pathToModule[below[k].path] = below[k].mod
               /\ status[below[k].mod] \notin {"none", "unlinked"}
    BY <1>7 DEF LinkInv, Roots
  <2>4. Roots(stack, pathToModule, status, ret)'
    BY <1>1, <1>2, <1>3, <2>1, <2>2, <2>3 DEF LinkInv, Roots
  <2>5. QED
    BY <1>1, <1>5, <2>1, <2>4 DEF LinkInv
<1>10. QED
  BY <1>8, <1>9

\* A fetch that fails: its module is in no answer of the fetches below, and it
\* has not been evaluated.
LEMMA FetchUnwindLink == IndInv /\ LinkInv /\ FetchUnwind => LinkInv'
<1> SUFFICES ASSUME IndInv, LinkInv, FetchUnwind PROVE LinkInv'
  OBVIOUS
<1> DEFINE gone == modPath[Top.mod]
<1>1. /\ stack # <<>> /\ Top.call = "fetch" /\ ret = Fail /\ stack' = Front(stack)
      /\ pathToModule' = [pathToModule EXCEPT ![gone] = None]
      /\ UNCHANGED <<made, modPath, status, resolveCache, ret, required>>
  BY DEF FetchUnwind, On, Unregister
<1>2. /\ stack \in Seq(Calls) /\ Top = stack[Len(stack)] /\ Len(stack) \in Nat \ {0}
      /\ DOMAIN stack = 1 .. Len(stack) /\ Len(stack) \in DOMAIN stack
  BY <1>1, TopFacts
<1>3. /\ DOMAIN stack' = 1 .. Len(stack) - 1 /\ Len(stack') = Len(stack) - 1
      /\ \A k \in 1 .. Len(stack) - 1 : stack'[k] = stack[k]
  BY <1>1, <1>2, FrontFacts
<1>4. Top.mod \in Mods /\ gone \in Paths /\ pathToModule[gone] = Top.mod /\ Top.mod # None
  BY <1>1, <1>2, LinkFacts
<1> HIDE DEF gone
<1>5. /\ \A q \in Paths : pathToModule[q] # Top.mod => q # gone /\ pathToModule'[q] = pathToModule[q]
      /\ \A q \in Paths : pathToModule'[q] = pathToModule[q] \/ pathToModule'[q] = None
  BY <1>1, <1>4, LinkFacts
<1>6. \A k \in DOMAIN stack' : k \in DOMAIN stack /\ stack'[k] = stack[k] /\ k < Len(stack)
  BY <1>2, <1>3
<1>7. Answers(stack', modPath, pathToModule, resolveCache, status, required)
  BY <1>1, <1>2, AnswersShorter DEF LinkInv
<1>8. \A k \in DOMAIN stack', p \in Paths :
        stack'[k].call = "fetch" /\ resolveCache[stack'[k].mod][p] # None /\ Kind[p] = "esm"
          => pathToModule[p] # Top.mod
  BY <1>1, <1>2, <1>6 DEF LinkInv, Answers
<1>9. Answers(stack', modPath, pathToModule', resolveCache, status, required)
  BY <1>5, <1>7, <1>8 DEF Answers
<1>10. Roots(stack, pathToModule, status, ret)'
  <2>1. ASSUME NEW k \in DOMAIN stack', stack'[k].call \in {"load", "eval"}
        PROVE  /\ Kind[stack'[k].path] = "esm"
               /\ stack'[k].step # "fetch" =>
                    /\ pathToModule'[stack'[k].path] = stack'[k].mod
                    /\ status'[stack'[k].mod] \notin {"none", "unlinked"}
    <3>1. k \in DOMAIN stack /\ stack'[k] = stack[k]
      BY <1>6, <2>1
    <3>2. stack[k].path \in Paths /\ status[Top.mod] = "unlinked"
      BY <1>1, <1>2, <2>1, <3>1, LinkFacts DEF LinkInv, Answers
    <3>3. /\ Kind[stack[k].path] = "esm"
          /\ stack[k].step # "fetch" =>
               /\ pathToModule[stack[k].path] = stack[k].mod
               /\ status[stack[k].mod] \notin {"none", "unlinked"}
      BY <2>1, <3>1 DEF LinkInv, Roots
    <3>4. QED
      BY <1>1, <1>5, <3>1, <3>2, <3>3
  <2>2. ret' \notin Mods
    BY <1>1, LinkFacts
  <2>3. \A p \in Paths : pathToModule'[p] # None => Kind[p] = "esm"
    BY <1>5 DEF LinkInv, Roots
  <2>4. QED
    BY <2>1, <2>2, <2>3 DEF Roots
<1>11. Finished(pathToModule, status, required)'
  <2>1. status[Top.mod] = "unlinked"
    BY <1>1, <1>2 DEF LinkInv, Answers
  <2>2. QED
    BY <2>1, <1>1, <1>5 DEF LinkInv, Finished
<1>12. QED
  BY <1>1, <1>9, <1>10, <1>11 DEF LinkInv

\* require of an ES module, by a body or a callback.
LEMMA RequireEsmLink ==
  ASSUME IndInv, LinkInv, NEW q \in Paths, Kind[q] = "esm", RequireEsm(q),
         stack = <<>> \/ (stack # <<>> /\ Top.call = "body")
  PROVE  LinkInv'
<1>1. /\ required[q] = "none" /\ required' = [required EXCEPT ![q] = "running"]
      /\ stack' = Append(stack, EvalCall(q)) /\ UNCHANGED modVars /\ UNCHANGED ret
  BY DEF RequireEsm
<1>2. /\ EvalCall(q) \in Calls /\ EvalCall(q).call = "eval" /\ EvalCall(q).step = "fetch"
      /\ EvalCall(q).path = q
  BY DEF EvalCall, Calls, RootCalls
<1>3. /\ \A p \in Paths : required[p] # "none" => required'[p] # "none"
      /\ \A p \in Paths : required'[p] = "done" => required[p] = "done"
  BY <1>1, LinkFacts
<1>4. QED
  BY <1>1, <1>2, <1>3, EnterLink

LEMMA RequiresLink == IndInv /\ LinkInv /\ (BodyRequiresEsm \/ ScriptRequires) => LinkInv'
<1> SUFFICES ASSUME IndInv, LinkInv, BodyRequiresEsm \/ ScriptRequires PROVE LinkInv'
  OBVIOUS
<1>1. CASE BodyRequiresEsm
  <2>1. stack # <<>> /\ Top.call = "body"
    BY <1>1 DEF BodyRequiresEsm, On
  <2>2. PICK q \in BodyRequires[Top.path] : RequireEsm(q)
    BY <1>1 DEF BodyRequiresEsm
  <2>3. q \in Paths /\ Kind[q] = "esm"
    BY <2>1, <2>2, TopFacts, EsmConstants
  <2>4. QED
    BY <2>1, <2>2, <2>3, RequireEsmLink
<1>2. CASE ScriptRequires
  <2>1. stack = <<>>
    BY <1>2 DEF ScriptRequires, Idle
  <2>2. PICK q \in UNION {BodyRequires[x] : x \in Paths} : RequireEsm(q)
    BY <1>2 DEF ScriptRequires
  <2>3. q \in Paths /\ Kind[q] = "esm"
    BY <2>2, EsmConstants
  <2>4. QED
    BY <2>1, <2>2, <2>3, RequireEsmLink
<1>3. QED
  BY <1>1, <1>2

\* A call that is no fetch is made, and nothing has been returned to the last.
LEMMA RootsLonger ==
  ASSUME NEW s \in Seq(Calls), NEW ptm, NEW st, NEW r, NEW c \in Calls,
         Roots(s, ptm, st, r), r \notin Mods,
         c.call \in {"load", "eval"} => c.step = "fetch" /\ Kind[c.path] = "esm"
  PROVE  Roots(Append(s, c), ptm, st, r)
<1> DEFINE t == Append(s, c)
<1>1. /\ DOMAIN s = 1 .. Len(s) /\ Len(s) \in Nat /\ DOMAIN t = 1 .. Len(s) + 1
      /\ \A k \in 1 .. Len(s) : t[k] = s[k]
      /\ t[Len(s) + 1] = c
  BY AppendFacts
<1>2. \A k \in DOMAIN t : t[k] = c \/ (k \in DOMAIN s /\ t[k] = s[k])
  BY <1>1
<1> HIDE DEF t
<1>3. QED
  BY <1>2 DEF Roots, t

LEMMA MicrotaskRequiresLink == IndInv /\ LinkInv /\ MicrotaskRequires => LinkInv'
<1> SUFFICES ASSUME IndInv, LinkInv, MicrotaskRequires PROVE LinkInv'
  OBVIOUS
<1>1. PICK q \in UNION {BodyRequires[x] : x \in Paths} :
        /\ required[q] = "none" /\ required' = [required EXCEPT ![q] = "running"]
        /\ stack' = Append(Append(stack, MicrotaskCall), EvalCall(q))
  BY DEF MicrotaskRequires
<1>2. /\ UNCHANGED <<made, modPath, status, resolveCache, pathToModule, ret>>
      /\ stack = <<>> \/ (Last(stack).call = "eval" /\ Last(stack).step = "spin")
  BY DEF MicrotaskRequires, Idle, Spinning, On, Top, modVars
<1>3. q \in Paths /\ Kind[q] = "esm"
  BY EsmConstants
<1> DEFINE s == Append(stack, MicrotaskCall)
<1>4. /\ MicrotaskCall \in Calls /\ MicrotaskCall.call = "microtask"
      /\ EvalCall(q) \in Calls /\ EvalCall(q).call = "eval" /\ EvalCall(q).step = "fetch"
      /\ EvalCall(q).path = q
  BY <1>3 DEF MicrotaskCall, EvalCall, Calls, RootCalls, MicrotaskCalls
<1>5. stack \in Seq(Calls)
  BY LinkFacts
<1>6. s \in Seq(Calls) /\ s # <<>> /\ Last(s) = MicrotaskCall
  BY <1>4, <1>5, AppendFacts DEF Last
<1>7. ret \notin Mods
  BY <1>2 DEF LinkInv, Roots
<1>8. Roots(s, pathToModule, status, ret)
  BY <1>4, <1>5, <1>7, RootsLonger DEF LinkInv
<1>9. \A p \in Paths : required[p] # "none" => required'[p] # "none"
  BY <1>1, LinkFacts
<1>10. Answers(stack, modPath, pathToModule, resolveCache, status, required')
  BY <1>5, <1>9, AnswersKept DEF LinkInv
<1>11. Answers(s, modPath, pathToModule, resolveCache, status, required')
  BY <1>2, <1>4, <1>5, <1>10, AnswersLonger
<1> HIDE DEF s
<1>12. Roots(Append(s, EvalCall(q)), pathToModule, status, ret)
  BY <1>3, <1>4, <1>6, <1>7, <1>8, RootsLonger
<1>13. Answers(Append(s, EvalCall(q)), modPath, pathToModule, resolveCache, status, required')
  BY <1>4, <1>6, <1>11, AnswersLonger
<1>14. stack' = Append(s, EvalCall(q))
  BY <1>1 DEF s
<1>15. Finished(pathToModule, status, required)'
  <2>1. \A p \in Paths : required'[p] = "done" => required[p] = "done"
    BY <1>1, LinkFacts
  <2>2. QED
    BY <1>2, <2>1 DEF LinkInv, Finished
<1>16. QED
  BY <1>2, <1>12, <1>13, <1>14, <1>15 DEF LinkInv

LEMMA BodyEndsLink == IndInv /\ LinkInv /\ BodyEnds => LinkInv'
<1> SUFFICES ASSUME IndInv, LinkInv, BodyEnds PROVE LinkInv'
  OBVIOUS
<1>1. /\ stack # <<>> /\ Top.call = "body"
      /\ required' = [required EXCEPT ![Top.path] = "done"]
      /\ Synthetic(Top.path, "unlinked") /\ Answered(Front(stack), Top.path, made + 1)
      /\ UNCHANGED ret
  BY DEF BodyEnds, On, Wrapped
<1>2. /\ Top.path \in Paths /\ Front(stack) # <<>>
      /\ Invokes(Last(Front(stack)), Top, modPath)
  BY <1>1, TopFacts
<1>3. /\ Asking(Last(Front(stack)), modPath) /\ Top.path = Asked(Last(Front(stack)), modPath)
      /\ Kind[Top.path] = "cjs"
  BY <1>1, <1>2 DEF Invokes
<1>4. TreeOK(Front(stack), made, modPath, pathToModule, resolveCache)
  BY <1>1, LeaveInv
<1>5. /\ \A q \in Paths : required[q] # "none" => required'[q] # "none"
      /\ \A q \in Paths : Kind[q] = "esm" /\ required'[q] = "done" => required[q] = "done"
      /\ required'[Top.path] # "none"
  BY <1>1, <1>2, <1>3, LinkFacts
<1>6. QED
  BY <1>1, <1>2, <1>3, <1>4, <1>5, SyntheticLink

LEMMA BodyThrowsLink == IndInv /\ LinkInv /\ BodyThrows => LinkInv'
<1> SUFFICES ASSUME IndInv, LinkInv, BodyThrows PROVE LinkInv'
  OBVIOUS
<1>1. /\ stack # <<>> /\ required' = [required EXCEPT ![Top.path] = "threw"]
      /\ stack' = Front(stack) /\ ret' = Fail
      /\ UNCHANGED <<made, modPath, status, resolveCache, pathToModule>>
  BY DEF BodyThrows, On, modVars
<1>2. /\ \A p \in Paths : required[p] # "none" => required'[p] # "none"
      /\ \A p \in Paths : required'[p] = "done" => required[p] = "done"
      /\ Graph(made, resolveCache, status') /\ Onward
  BY <1>1, LinkFacts DEF LinkInv, Onward
<1>3. QED
  BY <1>1, <1>2, LeaveLink

\* A promise callback returns.
LEMMA MicrotaskEndsLink == IndInv /\ LinkInv /\ MicrotaskEnds => LinkInv'
<1> SUFFICES ASSUME IndInv, LinkInv, MicrotaskEnds PROVE LinkInv'
  OBVIOUS
<1>1. /\ stack # <<>> /\ stack' = Front(stack) /\ ret' = None /\ required' = required
      /\ UNCHANGED <<made, modPath, status, resolveCache, pathToModule>>
  BY DEF MicrotaskEnds, On, modVars
<1>2. Graph(made, resolveCache, status') /\ Onward
  BY <1>1 DEF LinkInv, Onward
<1>3. QED
  BY <1>1, <1>2, LeaveLink

\* EvalScript is left, with the registered module evaluated or an exception.
LEMMA RequireEndsLink ==
  ASSUME IndInv, LinkInv, stack # <<>>, Top.call = "eval",
         NEW outcome \in {"done", "threw"}, RequireEnds(outcome),
         outcome = "done" => Top.step # "fetch" /\ status'[Top.mod] = "evaluated",
         UNCHANGED <<made, modPath, resolveCache, pathToModule>>,
         Graph(made, resolveCache, status'), Onward,
         \A x \in Mods : status[x] \in {"unlinked", "evaluated"} => status'[x] = status[x]
  PROVE  LinkInv'
<1>1. /\ required' = [required EXCEPT ![Top.path] = outcome] /\ stack' = Front(stack)
      /\ ret' \in {Fail, None}
  BY DEF RequireEnds
<1>2. /\ Top = stack[Len(stack)] /\ Len(stack) \in DOMAIN stack
      /\ Top.step # "fetch" => Top.mod \in Mods
  BY TopFacts
<1>3. outcome = "done" => pathToModule[Top.path] # None /\ status'[pathToModule[Top.path]] = "evaluated"
  BY <1>2, LinkFacts DEF LinkInv, Roots
<1>4. /\ \A p \in Paths : required[p] # "none" => required'[p] # "none"
      /\ \A p \in Paths : Kind[p] = "esm" /\ required'[p] = "done" =>
           required[p] = "done" \/ (pathToModule[p] # None /\ status'[pathToModule[p]] = "evaluated")
  BY <1>1, <1>3, LinkFacts
<1>5. QED
  BY <1>1, <1>4, LeaveLink

LEMMA EvalFailsLink == IndInv /\ LinkInv /\ EvalFails => LinkInv'
<1> SUFFICES ASSUME IndInv, LinkInv, EvalFails PROVE LinkInv'
  OBVIOUS
<1>1. /\ stack # <<>> /\ Top.call = "eval" /\ RequireEnds("threw")
      /\ UNCHANGED <<made, modPath, status, resolveCache, pathToModule>>
  BY DEF EvalFails, On, modVars
<1>2. Graph(made, resolveCache, status') /\ Onward
  BY <1>1 DEF LinkInv, Onward
<1>3. QED
  BY <1>1, <1>2, RequireEndsLink

LEMMA SpinEndsLink == IndInv /\ LinkInv /\ SpinEnds => LinkInv'
<1> SUFFICES ASSUME IndInv, LinkInv, SpinEnds PROVE LinkInv'
  OBVIOUS
<1>1. /\ stack # <<>> /\ Top.call = "eval" /\ Top.step = "spin"
      /\ \/ status[Top.mod] = "evaluated" /\ RequireEnds("done")
         \/ RequireEnds("threw")
      /\ UNCHANGED <<made, modPath, status, resolveCache, pathToModule>>
  BY DEF SpinEnds, On, modVars
<1>2. Graph(made, resolveCache, status') /\ Onward
  BY <1>1 DEF LinkInv, Onward
<1>3. QED
  BY <1>1, <1>2, RequireEndsLink

\* The module that a load or an evaluation works on is made.
LEMMA RootModule ==
  ASSUME IndInv, LinkInv, stack # <<>>, Top.call \in {"load", "eval"},
         NEW m, (Top.step # "fetch" /\ m = Top.mod) \/ (m = ret /\ ret \in Mods)
  PROVE  m \in Mods /\ m <= made /\ pathToModule[Top.path] = m
<1>1. /\ Top = stack[Len(stack)] /\ Len(stack) \in DOMAIN stack /\ Top = Last(stack)
      /\ Top.step # "fetch" => Top.mod \in Mods
      /\ Top.path \in Paths
  BY TopFacts
<1>2. m \in Mods /\ pathToModule[Top.path] = m
  BY <1>1 DEF LinkInv, Roots
<1>3. QED
  BY <1>1, <1>2, LinkFacts

\* LoadModule or EvalScript takes its next step, with the registered module.
LEMMA GotoLink ==
  ASSUME IndInv, LinkInv, stack # <<>>, Top.call \in {"load", "eval"},
         NEW m \in Mods, pathToModule[Top.path] = m,
         NEW step \in {"eval", "spin"}, Goto(step, m),
         status'[m] \notin {"none", "unlinked"}, Onward,
         UNCHANGED <<made, modPath, resolveCache, pathToModule, required>>,
         ret' \notin Mods,
         Graph(made, resolveCache, status'),
         \A x \in Mods : status[x] = "evaluated" => status'[x] = status[x],
         \A k \in DOMAIN stack : stack[k].call = "fetch" => status'[stack[k].mod] = "unlinked"
  PROVE  LinkInv'
<1> DEFINE top == [Top EXCEPT !.step = step, !.mod = m]
<1>1. /\ stack \in Seq(Calls) /\ Top = stack[Len(stack)] /\ Len(stack) \in Nat \ {0}
      /\ DOMAIN stack = 1 .. Len(stack) /\ Len(stack) \in DOMAIN stack
      /\ Top \in RootCalls
  BY TopFacts
<1>2. /\ top \in Calls /\ top.call = Top.call /\ top.path = Top.path /\ top.mod = m
      /\ top.call # "fetch"
  BY <1>1 DEF RootCalls, Calls
<1>3. stack' = [stack EXCEPT ![Len(stack)] = top]
  BY <1>1 DEF Goto
<1> HIDE DEF top
<1>4. /\ DOMAIN stack' = DOMAIN stack /\ Len(stack') = Len(stack)
      /\ stack'[Len(stack)] = top
      /\ \A k \in DOMAIN stack : k # Len(stack) => stack'[k] = stack[k]
  <2>1. stack' \in Seq(Calls) /\ DOMAIN stack' = DOMAIN stack
    BY <1>1, <1>2, <1>3, ExceptSeq
  <2>2. DOMAIN stack' = 1 .. Len(stack') /\ Len(stack') \in Nat
    BY <2>1, LenProperties
  <2>3. Len(stack') = Len(stack)
    BY <1>1, <2>1, <2>2
  <2>4. QED
    BY <1>1, <1>3, <2>1, <2>3
<1>5. \A k \in DOMAIN stack' : stack'[k].call = "fetch" =>
        k \in DOMAIN stack /\ stack'[k] = stack[k] /\ stack[k].call = "fetch"
  BY <1>2, <1>4
<1>6. Answers(stack', modPath, pathToModule, resolveCache, status', required)
  <2>1. ASSUME NEW k \in DOMAIN stack', stack'[k].call = "fetch"
        PROVE  /\ status'[stack'[k].mod] = "unlinked"
               /\ k < Len(stack') => resolveCache[stack'[k].mod][Asked(stack'[k], modPath)] = None
               /\ \A p \in Paths : resolveCache[stack'[k].mod][p] # None =>
                    /\ Kind[p] = "esm" => pathToModule[p] # None
                    /\ Kind[p] = "cjs" => required[p] # "none"
    BY <1>4, <1>5, <2>1 DEF LinkInv, Answers
  <2>2. \A j, k \in DOMAIN stack' : stack'[j].call = "fetch" /\ stack'[k].call = "fetch" /\ j < k =>
          \A p \in Paths : resolveCache[stack'[j].mod][p] # None /\ Kind[p] = "esm" => pathToModule[p] # stack'[k].mod
    BY <1>5 DEF LinkInv, Answers
  <2>3. QED
    BY <2>1, <2>2 DEF Answers
<1>7. Roots(stack, pathToModule, status, ret)'
  <2>1. ASSUME NEW k \in DOMAIN stack', stack'[k].call \in {"load", "eval"}
        PROVE  /\ Kind[stack'[k].path] = "esm"
               /\ stack'[k].step # "fetch" =>
                    /\ pathToModule[stack'[k].path] = stack'[k].mod
                    /\ status'[stack'[k].mod] \notin {"none", "unlinked"}
    <3>1. CASE k = Len(stack)
      BY <3>1, <1>1, <1>2, <1>4 DEF LinkInv, Roots
    <3>2. CASE k # Len(stack)
      <4>1. k \in DOMAIN stack /\ stack'[k] = stack[k]
        BY <3>2, <1>4
      <4>2. stack[k].step # "fetch" => stack[k].mod \in Mods
        BY <2>1, <4>1, LinkFacts
      <4>3. QED
        BY <2>1, <4>1, <4>2 DEF LinkInv, Roots, Onward
    <3>3. QED
      BY <3>1, <3>2
  <2>2. QED
    BY <2>1 DEF LinkInv, Roots
<1>8. Finished(pathToModule, status, required)'
  BY LinkFacts DEF LinkInv, Finished
<1>9. QED
  BY <1>6, <1>7, <1>8 DEF LinkInv

LEMMA EvalEvaluateLink == IndInv /\ LinkInv /\ EvalEvaluate => LinkInv'
<1> SUFFICES ASSUME IndInv, LinkInv, EvalEvaluate PROVE LinkInv'
  OBVIOUS
<1>1. /\ stack # <<>> /\ Top.call = "eval" /\ Top.step = "eval" /\ StatusEvaluated(Top.mod)
      /\ UNCHANGED <<made, modPath, resolveCache, tracked, pathToModule>>
  BY DEF EvalEvaluate, On
<1>2. Top.mod \in Mods /\ Top.mod <= made /\ pathToModule[Top.path] = Top.mod
  BY <1>1, RootModule
<1>3. /\ Graph(made, resolveCache, status')
      /\ \A x \in Mods : status[x] # "linked" => status'[x] = status[x]
      /\ Onward
  BY <1>1, <1>2, EvaluatedGraph, EvaluatedKeeps DEF LinkInv, Onward
<1>4. CASE /\ status'[Top.mod] = "pending" /\ Goto("spin", Top.mod)
           /\ UNCHANGED <<ret, required>>
  <2>1. ret' \notin Mods
    BY <1>1, <1>4, TopFacts DEF LinkInv, Roots
  <2>2. \A k \in DOMAIN stack : stack[k].call = "fetch" => status'[stack[k].mod] = "unlinked"
    BY <1>3, LinkFacts DEF LinkInv, Answers
  <2>3. \A x \in Mods : status[x] = "evaluated" => status'[x] = status[x]
    BY <1>3
  <2>4. UNCHANGED <<made, modPath, resolveCache, pathToModule, required>>
    BY <1>1, <1>4
  <2>5. QED
    BY <1>1, <1>2, <1>3, <1>4, <2>1, <2>2, <2>3, <2>4, GotoLink
<1>5. CASE \/ status'[Top.mod] = "evaluated" /\ RequireEnds("done")
           \/ RequireEnds("threw")
  BY <1>1, <1>3, <1>5, RequireEndsLink
<1>6. QED
  BY <1>4, <1>5 DEF EvalEvaluate

\* A fetch below the top has a request that is not answered, so linking, which
\* needs every request of what it visits, has not reached its module.
LEMMA FetchNotVisited ==
  ASSUME IndInv, LinkInv, stack # <<>>, Top.call # "fetch", NEW m, Linkable(m),
         NEW k \in DOMAIN stack, stack[k].call = "fetch"
  PROVE  stack[k].mod \notin Visited(m)
<1> DEFINE f == stack[k]
           r == Requests[modPath[f.mod]]
<1>1. /\ stack \in Seq(Calls) /\ DOMAIN stack = 1 .. Len(stack) /\ Len(stack) \in Nat
      /\ f.mod \in Mods /\ modPath[f.mod] \in Paths
  BY LinkFacts
<1>2. k + 1 \in DOMAIN stack /\ k + 1 # 1 /\ (k + 1) - 1 = k /\ k < Len(stack)
  <2>1. k # Len(stack)
    BY TopFacts
  <2>2. QED
    BY <1>1, <2>1
<1>3. Invokes(f, stack[k + 1], modPath)
  BY <1>2 DEF IndInv, TreeOK, ChainOK
<1>4. f.next <= Len(r) /\ f.next \in 1 .. Len(r) + 1
  BY <1>3 DEF Invokes, Asking, IndInv, TreeOK, ChainOK, FetchOK
<1>5. r \in Seq(Paths) /\ DOMAIN r = 1 .. Len(r) /\ Len(r) \in Nat
  BY <1>1, EsmConstants, LenProperties
<1>6. resolveCache[f.mod][r[f.next]] = None
  BY <1>2 DEF LinkInv, Answers, Asked
<1> HIDE DEF f
<1>7. f.next \in DOMAIN r /\ r # <<>>
  BY <1>4, <1>5
<1>8. ~ Resolves(f.mod)
  BY <1>6, <1>7 DEF Resolves
<1>9. QED
  BY <1>7, <1>8 DEF Linkable, f

LEMMA InstantiateModuleLink == IndInv /\ LinkInv /\ InstantiateModule => LinkInv'
<1> SUFFICES ASSUME IndInv, LinkInv, InstantiateModule PROVE LinkInv'
  OBVIOUS
<1>1. /\ stack # <<>> /\ Top.call \in {"load", "eval"} /\ ret \in Mods /\ Linkable(ret)
      /\ status' = [x \in Mods |-> IF x \in Visited(ret) THEN "linked" ELSE status[x]]
      /\ Goto("eval", ret) /\ ret' = None
      /\ UNCHANGED <<made, modPath, resolveCache, pathToModule, required>>
  BY DEF InstantiateModule, Rooted, On
<1>2. ret <= made /\ pathToModule[Top.path] = ret
  BY <1>1, RootModule
<1>3. Graph(made, resolveCache, status')
  BY <1>1, <1>2, LinkedGraph DEF LinkInv
<1>4. \A x \in Mods : status[x] = "evaluated" => status'[x] = status[x]
  BY <1>1 DEF Visited
<1>5. ASSUME NEW k \in DOMAIN stack, stack[k].call = "fetch"
      PROVE  status'[stack[k].mod] = "unlinked"
  <2>1. stack[k].mod \notin Visited(ret)
    BY <1>1, <1>5, FetchNotVisited
  <2>2. stack[k].mod \in Mods /\ status[stack[k].mod] = "unlinked"
    BY <1>5, LinkFacts DEF LinkInv, Answers
  <2>3. QED
    BY <1>1, <2>1, <2>2
<1>6. ret' \notin Mods
  BY <1>1, LinkFacts
<1>7. Onward
  BY <1>1, LinkFacts DEF Onward
<1>8. status'[ret] \notin {"none", "unlinked"}
  <2>1. status[ret] # "none" /\ ret \in Reach(ret)
    BY <1>1, <1>2, ReachFacts DEF LinkInv, Graph
  <2>2. QED
    BY <2>1, <1>1 DEF Visited
<1>9. QED
  BY <1>1, <1>2, <1>3, <1>4, <1>5, <1>6, <1>7, <1>8, GotoLink

LEMMA LoadFailsLink == IndInv /\ LinkInv /\ LoadFails => LinkInv'
<1> SUFFICES ASSUME IndInv, LinkInv, LoadFails PROVE LinkInv'
  OBVIOUS
<1>1. /\ stack # <<>> /\ stack' = Front(stack) /\ ret' = None
      /\ UNCHANGED <<made, modPath, status, resolveCache, pathToModule>> /\ UNCHANGED required
  BY DEF LoadFails, On, LeaveLoad, modVars
<1>2. Graph(made, resolveCache, status') /\ Onward
  BY <1>1 DEF LinkInv, Onward
<1>3. QED
  BY <1>1, <1>2, LeaveLink

LEMMA EvaluateLink == IndInv /\ LinkInv /\ Evaluate => LinkInv'
<1> SUFFICES ASSUME IndInv, LinkInv, Evaluate PROVE LinkInv'
  OBVIOUS
<1>1. /\ stack # <<>> /\ Top.call = "load" /\ Top.step = "eval" /\ StatusEvaluated(Top.mod)
      /\ stack' = Front(stack) /\ ret' = None
      /\ UNCHANGED <<made, modPath, resolveCache, pathToModule>> /\ UNCHANGED required
  BY DEF Evaluate, On, LeaveLoad
<1>2. Top.mod \in Mods /\ Top.mod <= made
  BY <1>1, RootModule
<1>3. /\ Graph(made, resolveCache, status')
      /\ \A x \in Mods : status[x] # "linked" => status'[x] = status[x]
      /\ Onward
  BY <1>1, <1>2, EvaluatedGraph, EvaluatedKeeps DEF LinkInv, Onward
<1>4. \A x \in Mods : status[x] \in {"unlinked", "evaluated"} => status'[x] = status[x]
  BY <1>3
<1>5. QED
  BY <1>1, <1>3, <1>4, LeaveLink

LEMMA AwaitEndsLink ==
  ASSUME IndInv, LinkInv, NEW m \in Mods, AwaitEnds(m)
  PROVE  LinkInv'
<1>1. UNCHANGED <<made, modPath, resolveCache, pathToModule>> /\ UNCHANGED <<stack, ret, required>>
  BY DEF AwaitEnds, loadVars
<1>2. Graph(made, resolveCache, status')
  BY AwaitedGraph DEF LinkInv
<1>3. \A x \in Mods : status[x] # "pending" => status'[x] = status[x]
  BY DEF AwaitEnds
<1>4. /\ stack \in Seq(Calls)
      /\ \A k \in DOMAIN stack : stack[k].call = "fetch" => stack[k].mod \in Mods
      /\ pathToModule \in [Paths -> Mods \union {None}]
  BY LinkFacts
<1>5. \A k \in DOMAIN stack : stack[k].call = "fetch" => status'[stack[k].mod] = status[stack[k].mod]
  BY <1>3, <1>4 DEF LinkInv, Answers
<1>6. Answers(stack, modPath, pathToModule, resolveCache, status', required)
  BY <1>4, <1>5, AnswersKept DEF LinkInv
<1>7. Finished(pathToModule, status', required)
  BY <1>3, <1>4 DEF LinkInv, Finished
<1>8. Onward
  BY LinkFacts DEF AwaitEnds, Onward
<1>9. Roots(stack, pathToModule, status', ret)
  <2>1. \A k \in DOMAIN stack : stack[k].call \in {"load", "eval"} =>
          (stack[k].step # "fetch" => stack[k].mod \in Mods)
    BY LinkFacts
  <2>2. QED
    BY <2>1, <1>8 DEF LinkInv, Roots, Onward
<1>10. QED
  BY <1>1, <1>2, <1>6, <1>7, <1>9 DEF LinkInv

\* LoadModule is called for the path of an ES module.
LEMMA BeginLoadLink ==
  ASSUME IndInv, LinkInv, stack = <<>>, NEW p \in Paths, NEW i \in Imports \union {None},
         Kind[p] = "esm", stack' = <<LoadCall(p, i)>>, UNCHANGED <<modVars, ret, required>>
  PROVE  LinkInv'
<1>1. /\ LoadCall(p, i) \in Calls /\ LoadCall(p, i).call = "load" /\ LoadCall(p, i).step = "fetch"
      /\ LoadCall(p, i).path = p
  BY DEF LoadCall, Calls, RootCalls
<1>2. stack' = Append(stack, LoadCall(p, i))
  OBVIOUS
<1>3. UNCHANGED modVars /\ UNCHANGED ret /\ UNCHANGED required
  OBVIOUS
<1>4. QED
  BY <1>1, <1>2, <1>3, EnterLink

LEMMA LoadMainLink ==
  ASSUME IndInv, LinkInv, NEW p \in Mains, LoadMain(p)
  PROVE  LinkInv'
<1>1. p \in Paths /\ Kind[p] = "esm"
  BY EsmConstants
<1>2. QED
  BY <1>1, BeginLoadLink DEF LoadMain, Idle

LEMMA ImportTaskLink == IndInv /\ LinkInv /\ ImportTask => LinkInv'
<1> SUFFICES ASSUME IndInv, LinkInv, ImportTask PROVE LinkInv'
  OBVIOUS
<1> DEFINE p == Head(queue)
<1>1. /\ stack = <<>> /\ queue # <<>> /\ dynamicImports[p] # None
      /\ stack' = <<LoadCall(p, dynamicImports[p])>>
      /\ UNCHANGED <<modVars, ret, required>>
  BY DEF ImportTask, Idle
<1>2. p \in Paths /\ 1 \in DOMAIN queue /\ p = queue[1]
  <2>1. queue \in Seq(Paths) /\ queue # <<>>
    BY <1>1 DEF IndInv, Typed
  <2>2. QED
    BY <2>1, HeadTailProperties, EmptySeq, LenProperties
<1>3. Kind[p] = "esm" /\ dynamicImports[p] \in Imports
  BY <1>1, <1>2 DEF IndInv, Typed, Queued
<1> HIDE DEF p
<1>4. QED
  BY <1>1, <1>2, <1>3, BeginLoadLink

LEMMA NextLink == IndInv /\ LinkInv /\ [Next]_vars => LinkInv'
<1> SUFFICES ASSUME IndInv, LinkInv, [Next]_vars PROVE LinkInv'
  OBVIOUS
<1>1. CASE BodyCatches
  BY <1>1, QuietLink DEF BodyCatches
<1>2. CASE LoadStep
  BY <1>1, <1>2, FetchRootLink, FetchRequestLink, FetchExtensionLink, FetchCjsLink, FetchReturnLink,
     FetchUnwindLink, RequiresLink, BodyEndsLink, BodyThrowsLink, LoadFailsLink, EvalFailsLink,
     InstantiateModuleLink, EvaluateLink, EvalEvaluateLink, SpinEndsLink,
     MicrotaskEndsLink DEF LoadStep
<1>3. CASE (\E p \in Dynamic : ImportDynamic(p)) \/ ImportMiss
  <2>1. UNCHANGED modVars /\ UNCHANGED <<stack, ret, required>>
    BY <1>3 DEF ImportDynamic, ImportMiss, loadVars
  <2>2. QED
    BY <2>1, QuietLink
<1>4. CASE \E p \in Mains : LoadMain(p)
  BY <1>4, LoadMainLink
<1>5. CASE ScriptRequires \/ MicrotaskRequires \/ ImportTask
  BY <1>5, RequiresLink, MicrotaskRequiresLink, ImportTaskLink
<1>6. CASE \E m \in Mods : AwaitEnds(m)
  BY <1>6, AwaitEndsLink
<1>7. CASE UNCHANGED vars
  <2>1. UNCHANGED modVars /\ UNCHANGED <<stack, ret, required>>
    BY <1>7 DEF vars, loadVars
  <2>2. QED
    BY <2>1, QuietLink
<1>8. QED
  BY <1>2, <1>3, <1>4, <1>5, <1>6, <1>7 DEF Next

\* LinkInv holds, with IndInv, of every state the loader can be in.
THEOREM LinkInvariant == Spec => [](IndInv /\ LinkInv)
<1>1. Init => IndInv /\ LinkInv
  BY InitInv, InitLink
<1>2. IndInv /\ LinkInv /\ [Next]_vars => (IndInv /\ LinkInv)'
  BY NextInv, NextLink
<1>3. QED
  BY <1>1, <1>2, PTL DEF Spec

\* What require() has answered with for an ES module is the registered module,
\* and all that this reaches has been evaluated: EvalScript never hands out a
\* module that a fetch below it is still putting together, or whose top-level
\* await, or that of a module it imports, has not ended.
THEOREM RequiredModulesAreEvaluated == Spec => []RequiredIsEvaluated
<1>1. IndInv /\ LinkInv => RequiredIsEvaluated
  <2> SUFFICES ASSUME IndInv, LinkInv, NEW q \in Paths, Kind[q] = "esm", required[q] = "done"
               PROVE  /\ pathToModule[q] # None
                      /\ \A x \in Reach(pathToModule[q]) : status[x] = "evaluated"
    BY DEF RequiredIsEvaluated
  <2> DEFINE m == pathToModule[q]
             S == {x \in Mods : status[x] = "evaluated"}
  <2>1. m # None /\ m \in Mods /\ m <= made /\ status[m] = "evaluated"
    BY LinkFacts DEF LinkInv, Finished
  <2>2. \A x \in S, p \in Paths : resolveCache[x][p] # None => resolveCache[x][p] \in S
    BY LinkFacts DEF LinkInv, Graph
  <2>3. m \in S
    BY <2>1
  <2> HIDE DEF m
  <2>4. Graph(made, resolveCache, status)
    BY DEF LinkInv
  <2>5. Reach(m) \subseteq S
    <3>1. \A x \in S \cap Mods, p \in Paths : resolveCache[x][p] # None => resolveCache[x][p] \in S
      BY <2>2
    <3> HIDE DEF S
    <3>2. QED
      BY <2>1, <2>3, <2>4, <3>1, ReachFacts
  <2>6. QED
    BY <2>1, <2>5 DEF m
<1>2. QED
  BY LinkInvariant, <1>1, PTL
=============================================================================
