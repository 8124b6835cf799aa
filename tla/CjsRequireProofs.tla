-------------------------- MODULE CjsRequireProofs --------------------------
(***************************************************************************)
(* Machine-checked facts about CjsRequire, for any file tree, modules and  *)
(* names.  Of what Search finds the proofs use that it depends on the      *)
(* directory and the name only, that it comes in the normal form (which    *)
(* takes an induction over the parts of a path), and that the directory    *)
(* itself comes first.                                                     *)
(***************************************************************************)
EXTENDS CjsRequire, TLAPS, SequenceTheorems, WellFoundedInduction

\* Module objects are numbered as they are made; one that is not made yet has
\* no file, no body and nothing in its local cache.
MadeInOrder ==
    \A o \in Objs :
        /\ o <= made => file[o] \in Files /\ body[o] # "none"
        /\ o > made => /\ file[o] = Absent /\ body[o] = "none"
                       /\ \A n \in Keys : localModuleCache[o][n] \notin Objs

\* moduleCache has a module object under the path of its file, and a path that
\* has had one never becomes unknown again.
CacheNamesFiles ==
    /\ \A f \in Files : moduleCache[f] \in Objs =>
         moduleCache[f] <= made /\ file[moduleCache[f]] = f
    /\ \A o \in Objs : o <= made => moduleCache[file[o]] # Absent

LocalNamesFiles ==
    \A c \in Requirers, n \in Keys :
        LET o == localModuleCache[c][n]
        IN  o \in Objs => o <= made /\ file[o] = Find(c, n)

\* Before the first forceReload.
BeforeReloads ==
    reloads = 0 =>
        /\ \A o \in Objs : ~ flag[o]
        /\ \A o, p \in Objs : o <= made /\ p <= made /\ file[o] = file[p] => o = p
        /\ \A c \in Requirers, n \in Keys :
             LET o == localModuleCache[c][n]
             IN  o \in Objs => moduleCache[Find(c, n)] \in {o, Undefined}

\* A slot is free or has a module object of its own, which is executing or
\* could not be read.
SlotsApart ==
    /\ \A i \in DOMAIN slots : slots[i] # Undefined =>
         slots[i] <= made /\ body[slots[i]] \in {"running", "unread"}
    /\ \A i, k \in DOMAIN slots : slots[i] = slots[k] /\ slots[i] # Undefined => i = k

StackInSlots ==
    /\ \A i \in DOMAIN stack :
         /\ stack[i].sid \in DOMAIN slots
         /\ slots[stack[i].sid] = stack[i].obj
         /\ body[stack[i].obj] = "running"
    /\ \A i, k \in DOMAIN stack : stack[i].obj = stack[k].obj => i = k

\* The inductive invariant.
IndInv ==
    /\ TypeOK
    /\ MadeInOrder
    /\ CacheNamesFiles
    /\ LocalNamesFiles
    /\ BeforeReloads
    /\ SlotsApart
    /\ StackInSlots

----------------------------------------------------------------------------
\* The least number of a set, which Min chooses.
LEMMA LeastNumber ==
  ASSUME NEW T, T \subseteq Nat, T # {}
  PROVE  Min(T) \in T /\ \A y \in T : Min(T) <= y
<1> DEFINE R == OpToRel(<, Nat)
<1>1. \E x \in T : \A y \in T : ~ (<<y, x>> \in R)
  <2>1. IsWellFoundedOn(R, Nat)
    BY NatLessThanWellFounded
  <2> HIDE DEF R
  <2> QED BY <2>1, WFMin
<1>2. \A y, z \in Nat : y < z => <<y, z>> \in R
  BY DEF OpToRel
<1> HIDE DEF R
<1>3. \E x \in T : \A y \in T : x <= y
  <2>1. PICK x \in T : \A y \in T : ~ (<<y, x>> \in R)
    BY <1>1
  <2>2. ASSUME NEW y \in T PROVE x <= y
    <3>1. x \in Nat /\ y \in Nat
      OBVIOUS
    <3>2. ~ (y < x)
      BY <1>2, <2>1, <3>1
    <3> QED BY <3>1, <3>2
  <2> QED BY <2>2
<1> QED BY <1>3 DEF Min

\* Induction over the natural numbers, for a set.
LEMMA NatSetInduction ==
  ASSUME NEW S, 0 \in S, \A n \in Nat : n \in S => n + 1 \in S
  PROVE  \A n \in Nat : n \in S
<1> SUFFICES ASSUME Nat \ S # {} PROVE FALSE
  OBVIOUS
<1> DEFINE x == Min(Nat \ S)
<1>1. x \in Nat \ S /\ \A y \in Nat \ S : x <= y
  BY LeastNumber
<1> HIDE DEF x
<1>2. x # 0
  BY <1>1
<1>3. x - 1 \in Nat /\ ~ (x <= x - 1) /\ (x - 1) + 1 = x
  BY <1>1, <1>2
<1> QED BY <1>1, <1>3

\* FirstFound gives NotFound or what the first successful search has found.
LEMMA FirstFoundIsOne ==
  ASSUME NEW found, DOMAIN found \subseteq Nat
  PROVE  \/ FirstFound(found) = NotFound
         \/ \E k \in DOMAIN found : FirstFound(found) = found[k]
<1> DEFINE hits == {k \in DOMAIN found : found[k] # NotFound}
<1>1. CASE hits = {}
  BY <1>1 DEF FirstFound
<1>2. CASE hits # {}
  <2>1. Min(hits) \in hits
    BY <1>2, LeastNumber
  <2> QED BY <1>2, <2>1 DEF FirstFound
<1> QED BY <1>1, <1>2

LEMMA FirstFoundIsFirst ==
  ASSUME NEW found, DOMAIN found \subseteq Nat \ {0}, 1 \in DOMAIN found, found[1] # NotFound
  PROVE  FirstFound(found) = found[1]
<1> DEFINE hits == {k \in DOMAIN found : found[k] # NotFound}
<1>1. 1 \in hits /\ hits \subseteq Nat
  OBVIOUS
<1>2. Min(hits) \in hits /\ Min(hits) <= 1
  BY <1>1, LeastNumber
<1>3. Min(hits) = 1
  BY <1>2
<1> QED BY <1>1, <1>3 DEF FirstFound

----------------------------------------------------------------------------
\* A part of a path.  The provers do not know that a literal is a STRING.
Part == STRING \union {"node_modules", "package", "index", ".js", ".mjs", ".cjs", ".json"}
Parts == Seq(Part)

LEMMA StringsAreParts ==
  ASSUME NEW path \in Seq(STRING)
  PROVE  path \in Parts
<1>1. STRING \subseteq Part
  BY DEF Part
<1> QED BY <1>1, SeqMonotonic DEF Parts

\* A path that lexically_normal leaves alone.

InNormalForm(s) ==
    \A k \in DOMAIN s : s[k] # "." /\ (s[k] = ".." => k = 1 \/ s[k - 1] = "..")

LEMMA NormalStepKeepsForm ==
  ASSUME NEW done \in Parts, NEW part \in Part
  PROVE  /\ NormalStep(done, part) \in Parts
         /\ InNormalForm(done) => InNormalForm(NormalStep(done, part))
<1>1. CASE part = "."
  BY <1>1 DEF NormalStep
<1>2. CASE part # "." /\ (part # ".." \/ done = <<>> \/ Last(done) = "..")
  <2>1. NormalStep(done, part) = Append(done, part)
    BY <1>2 DEF NormalStep
  <2>2. /\ Append(done, part) \in Parts
        /\ Len(Append(done, part)) = Len(done) + 1
        /\ \A k \in 1 .. Len(done) : Append(done, part)[k] = done[k]
        /\ Append(done, part)[Len(done) + 1] = part
    BY DEF Parts
  <2>3. InNormalForm(done) => InNormalForm(Append(done, part))
    <3> SUFFICES ASSUME InNormalForm(done), NEW k \in 1 .. Len(done) + 1
                 PROVE  /\ Append(done, part)[k] # "."
                        /\ Append(done, part)[k] = ".." =>
                             k = 1 \/ Append(done, part)[k - 1] = ".."
      BY <2>2 DEF InNormalForm, Parts
    <3>1. CASE k \in 1 .. Len(done)
      BY <2>2, <3>1 DEF InNormalForm, Parts
    <3>2. CASE k = Len(done) + 1
      <4>1. done # <<>> => Last(done) = done[Len(done)] /\ k - 1 \in 1 .. Len(done)
        BY <3>2 DEF Last, Parts
      <4>2. done = <<>> => k = 1
        BY <3>2
      <4> QED BY <1>2, <2>2, <3>2, <4>1, <4>2 DEF Parts
    <3> QED BY <3>1, <3>2 DEF Parts
  <2> QED BY <2>1, <2>2, <2>3
<1>3. CASE part = ".." /\ done # <<>> /\ Last(done) # ".." /\ Last(done) = "/"
  BY <1>3 DEF NormalStep
<1>4. CASE part = ".." /\ done # <<>> /\ Last(done) # ".." /\ Last(done) # "/"
  <2>1. NormalStep(done, part) = Front(done)
    BY <1>4 DEF NormalStep
  <2>2. /\ Front(done) \in Parts
        /\ Len(Front(done)) = Len(done) - 1
        /\ \A k \in 1 .. Len(done) - 1 : Front(done)[k] = done[k]
    <3>1. Len(done) \in Nat /\ Len(done) # 0
      BY <1>4 DEF Parts
    <3>2. Front(done) = SubSeq(done, 1, Len(done) - 1)
      BY DEF Front
    <3> DEFINE n == Len(done) - 1
    <3>3. n \in Nat /\ 1 .. n \subseteq 1 .. Len(done)
      BY <3>1
    <3>4. \A k \in 1 .. n : done[k] \in Part
      BY <3>3 DEF Parts
    <3>5. /\ SubSeq(done, 1, n) \in Seq(Part)
          /\ Len(SubSeq(done, 1, n)) = IF 1 <= n THEN n - 1 + 1 ELSE 0
          /\ \A k \in 1 .. n - 1 + 1 : SubSeq(done, 1, n)[k] = done[1 + k - 1]
      <4> HIDE DEF n
      <4> QED BY <3>3, <3>4, SubSeqProperties
    <3>6. Len(SubSeq(done, 1, n)) = n /\ \A k \in 1 .. n : SubSeq(done, 1, n)[k] = done[k]
      <4> HIDE DEF n
      <4> QED BY <3>3, <3>5
    <3> QED BY <3>2, <3>5, <3>6 DEF Parts
  <2>3. InNormalForm(done) => InNormalForm(Front(done))
    <3> SUFFICES ASSUME InNormalForm(done), NEW k \in 1 .. Len(done) - 1
                 PROVE  /\ done[k] # "."
                        /\ done[k] = ".." => k = 1 \/ Front(done)[k - 1] = ".."
      BY <2>2 DEF InNormalForm, Parts
    <3>1. k \in DOMAIN done /\ (k # 1 => Front(done)[k - 1] = done[k - 1])
      BY <2>2 DEF Parts
    <3> QED BY <3>1 DEF InNormalForm
  <2> QED BY <2>1, <2>2, <2>3
<1> QED BY <1>1, <1>2, <1>3, <1>4

\* Normal's recursive function exists, and has its equations.
IsNormalRun(path, f) ==
    f = [k \in 0 .. Len(path) |-> IF k = 0 THEN <<>> ELSE NormalStep(f[k - 1], path[k])]

LEMMA NormalRunExists ==
  ASSUME NEW path \in Parts
  PROVE  \E f : IsNormalRun(path, f) /\ Normal(path) = f[Len(path)]
<1> DEFINE Upto(n, g) == /\ g \in [0 .. n -> Parts]
                         /\ g[0] = <<>>
                         /\ \A k \in 1 .. n : g[k] = NormalStep(g[k - 1], path[k])
           S == {n \in Nat : n <= Len(path) => \E g : Upto(n, g)}
<1>1. 0 \in S
  <2> DEFINE g == [k \in 0 .. 0 |-> <<>>]
  <2>1. Upto(0, g)
    BY DEF Parts
  <2> QED BY <2>1
<1>2. ASSUME NEW n \in Nat, n \in S PROVE n + 1 \in S
  <2> SUFFICES ASSUME n + 1 <= Len(path) PROVE \E g : Upto(n + 1, g)
    OBVIOUS
  <2>0. Len(path) \in Nat /\ n <= Len(path)
    BY DEF Parts
  <2>1. \E g : Upto(n, g)
    BY <1>2, <2>0
  <2> PICK g : Upto(n, g)
    BY <2>1
  <2> DEFINE h == [k \in 0 .. n + 1 |-> IF k = n + 1 THEN NormalStep(g[n], path[n + 1]) ELSE g[k]]
  <2>2. g[n] \in Parts /\ path[n + 1] \in Part
    BY <2>1 DEF Parts
  <2>3. NormalStep(g[n], path[n + 1]) \in Parts
    BY <2>2, NormalStepKeepsForm
  <2>4. h \in [0 .. n + 1 -> Parts] /\ h[0] = <<>>
    BY <2>1, <2>3
  <2>5. ASSUME NEW k \in 1 .. n + 1 PROVE h[k] = NormalStep(h[k - 1], path[k])
    <3>1. CASE k = n + 1
      BY <3>1
    <3>2. CASE k \in 1 .. n
      <4>1. h[k] = g[k] /\ h[k - 1] = g[k - 1]
        BY <3>2
      <4> QED BY <2>1, <3>2, <4>1
    <3> QED BY <3>1, <3>2
  <2> HIDE DEF h
  <2> QED BY <2>4, <2>5
<1>3. Len(path) \in Nat
  BY DEF Parts
<1>4. \A n \in Nat : n \in S
  <2> HIDE DEF S
  <2> QED BY <1>1, <1>2, NatSetInduction
<1>5. PICK g : Upto(Len(path), g)
  BY <1>3, <1>4
<1>6. IsNormalRun(path, g)
  BY <1>3, <1>5 DEF IsNormalRun
<1> DEFINE f == CHOOSE f : IsNormalRun(path, f)
<1>7. IsNormalRun(path, f)
  BY <1>6
<1>8. Normal(path) = f[Len(path)]
  BY DEF Normal, IsNormalRun
<1> QED BY <1>7, <1>8

\* path::lexically_normal is idempotent.
LEMMA NormalIsNormal ==
  ASSUME NEW path \in Parts
  PROVE  Normal(path) \in Parts /\ Normal(Normal(path)) = Normal(path)
<1>1. PICK f : IsNormalRun(path, f) /\ Normal(path) = f[Len(path)]
  BY NormalRunExists
<1> DEFINE S == {n \in Nat : n <= Len(path) => f[n] \in Parts /\ InNormalForm(f[n])}
<1>0. Len(path) \in Nat
  BY DEF Parts
<1>2. 0 \in S
  <2>1. f[0] = <<>>
    BY <1>0, <1>1 DEF IsNormalRun
  <2>2. <<>> \in Parts /\ InNormalForm(<<>>)
    BY DEF Parts, InNormalForm
  <2> QED BY <2>1, <2>2
<1>3. ASSUME NEW n \in Nat, n \in S PROVE n + 1 \in S
  <2> SUFFICES ASSUME n + 1 <= Len(path)
               PROVE  f[n + 1] \in Parts /\ InNormalForm(f[n + 1])
    OBVIOUS
  <2>1. f[n + 1] = NormalStep(f[n], path[n + 1])
    BY <1>1 DEF IsNormalRun, Parts
  <2>2. f[n] \in Parts /\ InNormalForm(f[n]) /\ path[n + 1] \in Part
    BY <1>3 DEF Parts
  <2> QED BY <2>1, <2>2, NormalStepKeepsForm
<1>4. \A n \in Nat : n \in S
  <2> HIDE DEF S
  <2> QED BY <1>2, <1>3, NatSetInduction
<1> DEFINE s == Normal(path)
<1>5. s \in Parts /\ InNormalForm(s)
  BY <1>1, <1>4 DEF Parts
<1> HIDE DEF s, S
<1>6. PICK r : IsNormalRun(s, r) /\ Normal(s) = r[Len(s)]
  BY <1>5, NormalRunExists
<1> DEFINE T == {n \in Nat : n <= Len(s) => r[n] = SubSeq(s, 1, n)}
<1>7. 0 \in T
  BY <1>5, <1>6 DEF IsNormalRun, Parts
<1>8. ASSUME NEW n \in Nat, n \in T PROVE n + 1 \in T
  <2> SUFFICES ASSUME n + 1 <= Len(s) PROVE r[n + 1] = SubSeq(s, 1, n + 1)
    OBVIOUS
  <2> DEFINE d == SubSeq(s, 1, n)
  <2>0. Len(s) \in Nat /\ n <= Len(s)
    BY <1>5 DEF Parts
  <2>1. r[n + 1] = NormalStep(d, s[n + 1])
    <3>1. r[n] = d
      BY <1>8, <2>0
    <3>2. r[n + 1] = NormalStep(r[n], s[n + 1])
      <4> HIDE DEF d, T
      <4> QED BY <1>6, <2>0 DEF IsNormalRun
    <3> QED BY <3>1, <3>2
  <2>2. /\ d \in Parts /\ Len(d) = n
        /\ \A k \in 1 .. n : d[k] = s[k]
        /\ n = 0 => d = <<>>
        /\ n # 0 => d # <<>> /\ Last(d) = s[n]
    BY <1>5 DEF Parts, Last
  <2>3. s[n + 1] # "." /\ (s[n + 1] = ".." => n = 0 \/ s[n] = "..")
    <3>1. n + 1 \in DOMAIN s /\ (n + 1) - 1 = n
      BY <1>5 DEF Parts
    <3>2. s[n + 1] # "." /\ (s[n + 1] = ".." => n + 1 = 1 \/ s[(n + 1) - 1] = "..")
      BY <1>5, <3>1 DEF InNormalForm
    <3>3. n + 1 = 1 => n = 0
      OBVIOUS
    <3> HIDE DEF d, T
    <3> QED BY <3>1, <3>2, <3>3
  <2>4. NormalStep(d, s[n + 1]) = Append(d, s[n + 1])
    BY <2>2, <2>3 DEF NormalStep
  <2>5. Append(d, s[n + 1]) = SubSeq(s, 1, n + 1)
    BY <1>5, SubSeqRecursiveSecond DEF Parts
  <2> QED BY <2>1, <2>4, <2>5
<1>9. \A n \in Nat : n \in T
  <2> HIDE DEF T
  <2> QED BY <1>7, <1>8, NatSetInduction
<1>10. SubSeq(s, 1, Len(s)) = s /\ Len(s) \in Nat
  BY <1>5, SubSeqFull DEF Parts
<1>11. Normal(s) = s
  BY <1>6, <1>9, <1>10
<1> QED BY <1>5, <1>11 DEF s

\* What a search gives.
NormalOrNone(found) == found = NotFound \/ Normal(found) = found

LEMMA FirstFoundNormal ==
  ASSUME NEW found, DOMAIN found \subseteq Nat, \A k \in DOMAIN found : NormalOrNone(found[k])
  PROVE  NormalOrNone(FirstFound(found))
BY FirstFoundIsOne DEF NormalOrNone

LEMMA CheckExistsNormal ==
  ASSUME NEW path \in Parts
  PROVE  NormalOrNone(CheckExists(path))
BY NormalIsNormal DEF CheckExists, NormalOrNone

LEMMA OneOrTwoParts ==
  ASSUME NEW part \in Part, NEW more \in Part
  PROVE  <<part>> \in Parts /\ <<part, more>> \in Parts
<1>1. ASSUME NEW S, NEW x \in S, NEW y \in S PROVE <<x>> \in Seq(S) /\ <<x, y>> \in Seq(S)
  OBVIOUS
<1> QED BY <1>1 DEF Parts

LEMMA PartsJoin ==
  ASSUME NEW s \in Parts, NEW t \in Parts
  PROVE  s \o t \in Parts
BY ConcatProperties DEF Parts

LEMMA SearchWithExtNormal ==
  ASSUME NEW dir \in Parts, NEW name \in Parts
  PROVE  NormalOrNone(SearchModuleWithExtInDir(dir, name))
<1> DEFINE one == CheckExists(Join(dir, name))
           two == IF dir # <<>> /\ Last(dir) = "node_modules" THEN NotFound
                  ELSE CheckExists(Join(dir \o <<"node_modules">>, name))
<1>1. Join(dir, name) \in Parts /\ Join(dir \o <<"node_modules">>, name) \in Parts
  <2>1. <<"node_modules">> \in Parts
    <3>1. "node_modules" \in Part
      BY DEF Part
    <3> QED BY <3>1, OneOrTwoParts
  <2>2. dir \o <<"node_modules">> \in Parts
    BY <2>1, PartsJoin
  <2> QED BY <2>2, PartsJoin DEF Join
<1>2. NormalOrNone(one) /\ NormalOrNone(two)
  BY <1>1, CheckExistsNormal DEF NormalOrNone
<1>3. SearchModuleWithExtInDir(dir, name) = FirstFound(<<one, two>>)
  BY DEF SearchModuleWithExtInDir
<1> HIDE DEF one, two
<1>4. DOMAIN <<one, two>> \subseteq Nat /\ \A k \in DOMAIN <<one, two>> : NormalOrNone(<<one, two>>[k])
  BY <1>2
<1> QED BY <1>3, <1>4, FirstFoundNormal

\* A request, before or after normalize.
Request == [parts : Parts, ext : Parts]

LEMMA SearchInDirNormal ==
  ASSUME NEW dir \in Parts, NEW req \in Request
  PROVE  NormalOrNone(SearchModuleInDir(dir, req))
<1> DEFINE found == [i \in DOMAIN Endings(req) |->
                        SearchModuleWithExtInDir(dir, req.parts \o Endings(req)[i])]
<1>1. Endings(req) \in Seq(Parts)
  <2>1. /\ req.ext \in Parts
        /\ req.ext \o <<".js">> \in Parts
        /\ req.ext \o <<".mjs">> \in Parts
        /\ req.ext \o <<".cjs">> \in Parts
        /\ req.ext \o <<"package", ".json">> \in Parts
        /\ req.ext \o <<"index", ".js">> \in Parts
    <3>1. /\ <<".js">> \in Parts /\ <<".mjs">> \in Parts /\ <<".cjs">> \in Parts
          /\ <<"package", ".json">> \in Parts /\ <<"index", ".js">> \in Parts
      <4>1. /\ ".js" \in Part /\ ".mjs" \in Part /\ ".cjs" \in Part
            /\ "package" \in Part /\ ".json" \in Part /\ "index" \in Part
        BY DEF Part
      <4> QED BY <4>1, OneOrTwoParts
    <3>2. req.ext \in Parts
      BY DEF Request
    <3> QED BY <3>1, <3>2, PartsJoin
  <2> HIDE DEF Parts
  <2> QED BY <2>1 DEF Endings
<1>2. \A i \in DOMAIN Endings(req) : i \in Nat /\ req.parts \o Endings(req)[i] \in Parts
  BY <1>1 DEF Request, Parts
<1>3. DOMAIN found \subseteq Nat /\ \A i \in DOMAIN found : NormalOrNone(found[i])
  BY <1>2, SearchWithExtNormal
<1>4. SearchModuleInDir(dir, req) = FirstFound(found)
  BY DEF SearchModuleInDir
<1> HIDE DEF found
<1> QED BY <1>3, <1>4, FirstFoundNormal

LEMMA SearchAboveNormal ==
  ASSUME NEW dir \in Parts, NEW req \in Request
  PROVE  NormalOrNone(SearchAbove(dir, req))
<1> DEFINE found == [k \in 2 .. Len(dir) |->
                        IF dir[k] = "node_modules" THEN NotFound
                        ELSE SearchModuleInDir(SubSeq(dir, 1, k), req)]
<1>1. ASSUME NEW k \in 2 .. Len(dir) PROVE SubSeq(dir, 1, k) \in Parts
  BY DEF Parts
<1>2. DOMAIN found \subseteq Nat /\ \A i \in DOMAIN found : NormalOrNone(found[i])
  <2>1. Len(dir) \in Nat
    BY DEF Parts
  <2>2. \A k \in 2 .. Len(dir) : k \in Nat /\ NormalOrNone(SearchModuleInDir(SubSeq(dir, 1, k), req))
    BY <1>1, <2>1, SearchInDirNormal
  <2>3. NormalOrNone(NotFound)
    BY DEF NormalOrNone
  <2> QED BY <2>2, <2>3
<1>3. SearchAbove(dir, req) = FirstFound(found) \/ SearchAbove(dir, req) = NotFound
  BY DEF SearchAbove
<1> HIDE DEF found
<1> QED BY <1>2, <1>3, FirstFoundNormal DEF NormalOrNone

\* Search finds files under their normal paths.
LEMMA SearchIsNormal ==
  ASSUME NEW dir \in Parts, NEW req \in Request
  PROVE  NormalOrNone(Search(dir, req))
<1> DEFINE one == SearchModuleInDir(dir, req)
           two == SearchAbove(dir, req)
           three == SearchModuleInDir(LibPath, req)
           four == SearchPlugins(req)
           found == <<one, two, three, four>>
<1>1. NormalOrNone(four)
  <2> DEFINE plugins == [i \in DOMAIN PluginDirs |-> SearchModuleInDir(PluginDirs[i], req)]
  <2>1. \A i \in DOMAIN PluginDirs : i \in Nat /\ PluginDirs[i] \in Parts
    BY SearchConstants, StringsAreParts
  <2>2. DOMAIN plugins \subseteq Nat /\ \A i \in DOMAIN plugins : NormalOrNone(plugins[i])
    BY <2>1, SearchInDirNormal
  <2>3. four = FirstFound(plugins)
    BY DEF SearchPlugins
  <2> HIDE DEF plugins, four
  <2> QED BY <2>2, <2>3, FirstFoundNormal
<1>2. NormalOrNone(one) /\ NormalOrNone(two) /\ NormalOrNone(three)
  BY SearchInDirNormal, SearchAboveNormal, SearchConstants, StringsAreParts
<1>3. Search(dir, req) = FirstFound(found)
  BY DEF Search
<1> HIDE DEF one, two, three, four
<1>4. DOMAIN found \subseteq Nat /\ \A k \in DOMAIN found : NormalOrNone(found[k])
  BY <1>1, <1>2
<1> HIDE DEF found
<1> QED BY <1>3, <1>4, FirstFoundNormal

\* What is found in the directory itself wins.
LEMMA SearchPrefersDir ==
  ASSUME NEW dir, NEW req, SearchModuleInDir(dir, req) # NotFound
  PROVE  Search(dir, req) = SearchModuleInDir(dir, req)
<1> DEFINE found == <<SearchModuleInDir(dir, req), SearchAbove(dir, req),
                      SearchModuleInDir(LibPath, req), SearchPlugins(req)>>
<1>1. /\ DOMAIN found \subseteq Nat \ {0} /\ 1 \in DOMAIN found
      /\ found[1] = SearchModuleInDir(dir, req)
  OBVIOUS
<1>2. Search(dir, req) = FirstFound(found)
  BY DEF Search
<1> HIDE DEF found
<1> QED BY <1>1, <1>2, FirstFoundIsFirst

\* So an absolute path is the only one of its file.
LEMMA FilesAreNormal ==
  ASSUME NEW f \in Files
  PROVE  Normal(f) = f
<1>1. PICK dir \in Dirs, n \in Keys : f = Search(dir, n) /\ f # NotFound
  BY DEF Files, Located
<1>2. dir \in Parts
  BY CjsConstants, StringsAreParts
<1>3. n \in Request
  <2>1. PICK k \in Names : n = Normalized(k)
    BY DEF Keys
  <2>2. k \in Request /\ k.parts # <<>>
    BY CjsConstants, StringsAreParts DEF Request
  <2>3. Tail(k.parts) \in Parts
    BY <2>2 DEF Request, Parts
  <2> QED BY <2>1, <2>2, <2>3 DEF Normalized, Request
<1> QED BY <1>1, <1>2, <1>3, SearchIsNormal DEF NormalOrNone

----------------------------------------------------------------------------
LEMMA ObjsTyped ==
  ASSUME NEW o \in Objs
  PROVE  /\ o \in Nat /\ o >= 1 /\ o \in Requirers /\ o \in Cached
         /\ o # Root /\ o # Absent /\ o # Undefined
<1>1. MaxObjs \in Nat
  BY CjsConstants
<1>2. o \in Nat /\ o >= 1
  BY <1>1 DEF Objs
<1>3. o # Root /\ o # Absent /\ o # Undefined
  BY CjsConstants
<1> QED BY <1>2, <1>3 DEF Requirers, Cached

LEMMA FindTyped ==
  ASSUME NEW c \in Requirers, NEW n \in Keys, c # Root => file[c] \in Files
  PROVE  Find(c, n) \in Files \union {NotFound}
<1> DEFINE d == IF c = Root THEN <<>> ELSE DirOf(file[c])
<1>1. d \in Dirs
  BY CjsConstants
<1>2. Find(c, n) = Located[d][n]
  BY DEF Find
<1> HIDE DEF d
<1>3. Located[d][n] \in Files \/ Located[d][n] = NotFound
  BY <1>1 DEF Files
<1> QED BY <1>2, <1>3

\* The slot that addModule takes is free or new.
LEMMA SidIsFree ==
  ASSUME slots \in Seq(Objs \union {Undefined})
  PROVE  /\ Sid \in 1 .. Len(slots) + 1
         /\ Sid \in DOMAIN slots => slots[Sid] = Undefined
<1> DEFINE T == {i \in DOMAIN slots : slots[i] = Undefined}
<1>1. DOMAIN slots = 1 .. Len(slots) /\ Len(slots) \in Nat
  OBVIOUS
<1>2. CASE T = {}
  BY <1>1, <1>2 DEF Sid
<1>3. CASE T # {}
  <2>2. T \subseteq Nat
    BY <1>1
  <2>3. \E i \in T : \A y \in T : i <= y
    BY <1>3, <2>2, LeastNumber
  <2>5. PICK m \in T : \A y \in T : m <= y
    BY <2>3
  <2>6. \A k \in 1 .. m - 1 : slots[k] # Undefined
    <3>1. TAKE k \in 1 .. m - 1
    <3>2. k \in DOMAIN slots /\ k < m
      BY <1>1, <2>2
    <3> QED BY <2>5, <3>2
  <2>7. \E i \in DOMAIN slots :
          slots[i] = Undefined /\ \A k \in 1 .. i - 1 : slots[k] # Undefined
    BY <2>6
  <2>8. Sid \in DOMAIN slots /\ slots[Sid] = Undefined
    <3>1. Sid = CHOOSE i \in DOMAIN slots :
                  slots[i] = Undefined /\ \A k \in 1 .. i - 1 : slots[k] # Undefined
      BY <2>7 DEF Sid
    <3> QED BY <2>7, <3>1
  <2> QED BY <1>1, <2>8
<1> QED BY <1>2, <1>3

LEMMA SlotSet ==
  ASSUME slots \in Seq(Objs \union {Undefined}),
         NEW sid \in 1 .. Len(slots) + 1, NEW v \in Objs \union {Undefined}
  PROVE  LET t == WithSlot(sid, v) IN
         /\ t \in Seq(Objs \union {Undefined}) /\ sid \in DOMAIN t /\ t[sid] = v
         /\ DOMAIN slots \subseteq DOMAIN t
         /\ \A i \in DOMAIN t : i # sid => i \in DOMAIN slots /\ t[i] = slots[i]
<1> DEFINE S == Objs \union {Undefined}
           t == WithSlot(sid, v)
<1>1. slots \in Seq(S) /\ v \in S /\ DOMAIN slots = 1 .. Len(slots) /\ Len(slots) \in Nat
  OBVIOUS
<1> HIDE DEF S
<1>2. CASE sid \in DOMAIN slots
  <2>1. t = [slots EXCEPT ![sid] = v]
    BY <1>2 DEF WithSlot
  <2> HIDE DEF t
  <2>2. /\ t \in Seq(S) /\ Len(t) = Len(slots)
        /\ \A i \in 1 .. Len(slots) : t[i] = IF i = sid THEN v ELSE slots[i]
    BY <1>1, <1>2, <2>1, ExceptSeq
  <2>3. DOMAIN t = DOMAIN slots
    BY <2>1
  <2> QED BY <1>1, <1>2, <2>2, <2>3 DEF t, S
<1>3. CASE sid \notin DOMAIN slots
  <2>1. t = Append(slots, v)
    BY <1>3 DEF WithSlot
  <2>2. sid = Len(slots) + 1
    BY <1>1, <1>3
  <2> HIDE DEF t
  <2>3. /\ t \in Seq(S) /\ Len(t) = Len(slots) + 1
        /\ t[Len(slots) + 1] = v /\ \A i \in 1 .. Len(slots) : t[i] = slots[i]
    BY <1>1, <2>1, AppendProperties
  <2>4. DOMAIN t = 1 .. Len(slots) + 1
    BY <2>3
  <2> QED BY <1>1, <2>2, <2>3, <2>4 DEF t, S
<1> QED BY <1>2, <1>3

\* The innermost executing body, and the ones that called it.
LEMMA StackTop ==
  ASSUME NEW S, stack \in Seq(S), stack # <<>>
  PROVE  /\ Len(stack) \in DOMAIN stack /\ Top = stack[Len(stack)] /\ Top \in S
         /\ Front(stack) \in Seq(S) /\ DOMAIN Front(stack) = DOMAIN stack \ {Len(stack)}
         /\ \A i \in DOMAIN Front(stack) : Front(stack)[i] = stack[i]
<1>1. Len(stack) \in Nat /\ Len(stack) >= 1 /\ DOMAIN stack = 1 .. Len(stack)
  BY EmptySeq
<1>2. Top = stack[Len(stack)] /\ Front(stack) = SubSeq(stack, 1, Len(stack) - 1)
  BY DEF Top, Last, Front
<1>3. /\ SubSeq(stack, 1, Len(stack) - 1) \in Seq(S)
      /\ Len(SubSeq(stack, 1, Len(stack) - 1)) = Len(stack) - 1
      /\ \A i \in 1 .. Len(stack) - 1 : SubSeq(stack, 1, Len(stack) - 1)[i] = stack[i]
  BY <1>1
<1>4. DOMAIN Front(stack) = 1 .. Len(stack) - 1 /\ Front(stack) \in Seq(S)
  BY <1>1, <1>2, <1>3
<1>5. 1 .. Len(stack) - 1 = (1 .. Len(stack)) \ {Len(stack)}
  BY <1>1
<1> QED BY <1>1, <1>2, <1>3, <1>4, <1>5

----------------------------------------------------------------------------
LEMMA InitInv == Init => IndInv
<1> SUFFICES ASSUME Init PROVE IndInv
  OBVIOUS
<1>1. TypeOK
  <2>1. /\ moduleCache \in [Files -> Cached] /\ localModuleCache \in [Requirers -> [Keys -> Cached]]
        /\ file \in [Objs -> Files \union {Absent}] /\ flag \in [Objs -> BOOLEAN]
        /\ body \in [Objs -> {"none", "running", "done", "threw", "unread"}]
    BY DEF Init, Cached
  <2>2. made \in 0 .. MaxObjs /\ reloads \in 0 .. MaxReloads
    BY CjsConstants DEF Init
  <2>3. keys \in Seq(Files) /\ slots \in Seq(Objs \union {Undefined})
        /\ stack \in Seq([obj : Objs, sid : Nat, caller : Requirers, name : Keys])
    BY DEF Init
  <2> QED BY <2>1, <2>2, <2>3 DEF TypeOK
<1>2. \A o \in Objs : o \in Nat /\ o > 0 /\ ~ (o <= made) /\ o \in Requirers /\ o # Absent
  BY ObjsTyped DEF Init
<1>3. MadeInOrder
  BY <1>2 DEF Init, MadeInOrder
<1>4. CacheNamesFiles /\ LocalNamesFiles /\ BeforeReloads
  BY <1>2 DEF Init, CacheNamesFiles, LocalNamesFiles, BeforeReloads
<1>5. DOMAIN slots = {} /\ DOMAIN stack = {}
  BY DEF Init
<1>6. SlotsApart /\ StackInSlots
  BY <1>5 DEF SlotsApart, StackInSlots
<1> QED BY <1>1, <1>3, <1>4, <1>6 DEF IndInv

\* A require function that runs belongs to a module object that is made.
LEMMA RequirerIsMade ==
  ASSUME IndInv, NEW c \in Requirers, NEW n \in Keys, May(c, n)
  PROVE  /\ c # Root => c \in Objs /\ c <= made /\ file[c] \in Files
         /\ Find(c, n) # NotFound => Find(c, n) \in Files
<1>1. ASSUME c # Root
      PROVE  c \in Objs /\ c <= made /\ file[c] \in Files
  <2>1. c \in Objs /\ body[c] # "none"
    BY <1>1 DEF May
  <2>2. c \in Nat /\ made \in Nat
    BY <2>1, CjsConstants DEF Objs, IndInv, TypeOK
  <2> QED BY <2>1, <2>2 DEF IndInv, MadeInOrder
<1>2. Find(c, n) \in Files \union {NotFound}
  BY <1>1, FindTyped
<1> QED BY <1>1, <1>2

LEMMA ModuleMade ==
  ASSUME IndInv, NEW c \in Requirers, NEW n \in Keys, NEW state \in {"running", "unread"},
         NewModule(c, n, state), UNCHANGED <<flag, reloads>>
  PROVE  /\ made + 1 \in Objs /\ made' = made + 1
         /\ moduleCache' \in [Files -> Cached] /\ keys' \in Seq(Files)
         /\ localModuleCache' \in [Requirers -> [Keys -> Cached]]
         /\ file' \in [Objs -> Files \union {Absent}]
         /\ body' \in [Objs -> {"none", "running", "done", "threw", "unread"}]
         /\ slots' \in Seq(Objs \union {Undefined})
         /\ \A o \in Objs : body'[o] = IF o = made + 1 THEN state ELSE body[o]
         /\ Sid \in Nat /\ Sid \in DOMAIN slots' /\ slots'[Sid] = made + 1
         /\ \A i \in DOMAIN slots :
              slots[i] # Undefined => i \in DOMAIN slots' /\ slots'[i] = slots[i]
         /\ MadeInOrder' /\ CacheNamesFiles' /\ LocalNamesFiles' /\ BeforeReloads' /\ SlotsApart'
<1> DEFINE m == made + 1
           f == Find(c, n)
<1>1. /\ May(c, n) /\ f # NotFound /\ (moduleCache[f] = Absent \/ MustReload(c, n))
      /\ made < MaxObjs /\ made' = m
      /\ file' = [file EXCEPT ![m] = f] /\ body' = [body EXCEPT ![m] = state]
      /\ localModuleCache' = [localModuleCache EXCEPT ![c][n] = m]
      /\ moduleCache' = [moduleCache EXCEPT ![f] = m]
      /\ keys' = (IF moduleCache[f] = Absent THEN Append(keys, f) ELSE keys)
      /\ slots' = WithSlot(Sid, m)
  BY DEF NewModule
<1>2. /\ moduleCache \in [Files -> Cached] /\ keys \in Seq(Files)
      /\ localModuleCache \in [Requirers -> [Keys -> Cached]] /\ made \in Nat
      /\ file \in [Objs -> Files \union {Absent}]
      /\ body \in [Objs -> {"none", "running", "done", "threw", "unread"}]
      /\ flag \in [Objs -> BOOLEAN] /\ slots \in Seq(Objs \union {Undefined})
  BY CjsConstants DEF IndInv, TypeOK
<1>3. f \in Files /\ (c # Root => c \in Objs /\ c <= made)
  BY <1>1, RequirerIsMade
<1>4. m \in Objs /\ m \in Cached /\ m \in Requirers /\ m # Root /\ ~ (m <= made)
      /\ \A o \in Objs : o \in Nat /\ o # Undefined /\ o # Absent /\ (o <= m <=> o <= made \/ o = m)
                         /\ (o > m => o > made /\ o # m) /\ (o <= made \/ o > made)
  <2>1. m \in Objs
    <3>1. MaxObjs \in Nat
      BY CjsConstants
    <3> QED BY <1>1, <1>2, <3>1 DEF Objs
  <2>2. \A o \in Objs : (o <= m <=> o <= made \/ o = m) /\ (o > m => o > made /\ o # m)
                          /\ (o <= made \/ o > made)
    BY <1>2, ObjsTyped
  <2>3. ~ (m <= made)
    BY <1>2
  <2> QED BY <2>1, <2>2, <2>3, ObjsTyped
<1>5. c # m
  BY <1>3, <1>4
<1>6. /\ \A o \in Objs : file'[o] = IF o = m THEN f ELSE file[o]
      /\ \A o \in Objs : body'[o] = IF o = m THEN state ELSE body[o]
      /\ \A x \in Requirers, k \in Keys :
           localModuleCache'[x][k] = IF x = c /\ k = n THEN m ELSE localModuleCache[x][k]
      /\ \A g \in Files : moduleCache'[g] = IF g = f THEN m ELSE moduleCache[g]
  BY <1>1, <1>2, <1>3
<1>7. /\ moduleCache' \in [Files -> Cached] /\ keys' \in Seq(Files)
      /\ localModuleCache' \in [Requirers -> [Keys -> Cached]]
      /\ file' \in [Objs -> Files \union {Absent}]
      /\ body' \in [Objs -> {"none", "running", "done", "threw", "unread"}]
  <2>1. moduleCache' \in [Files -> Cached] /\ file' \in [Objs -> Files \union {Absent}]
        /\ body' \in [Objs -> {"none", "running", "done", "threw", "unread"}]
    BY <1>1, <1>2, <1>3, <1>4
  <2>2. localModuleCache' \in [Requirers -> [Keys -> Cached]]
    BY <1>1, <1>2, <1>4
  <2>3. keys' \in Seq(Files)
    BY <1>1, <1>2, <1>3, AppendProperties
  <2> QED BY <2>1, <2>2, <2>3
<1>8. /\ slots' \in Seq(Objs \union {Undefined}) /\ Sid \in Nat
      /\ Sid \in DOMAIN slots' /\ slots'[Sid] = m
      /\ \A i \in DOMAIN slots' : i # Sid => i \in DOMAIN slots /\ slots'[i] = slots[i]
      /\ \A i \in DOMAIN slots :
           slots[i] # Undefined => i \in DOMAIN slots' /\ slots'[i] = slots[i]
  <2>1. Sid \in 1 .. Len(slots) + 1 /\ (Sid \in DOMAIN slots => slots[Sid] = Undefined)
        /\ Sid \in Nat
    BY <1>2, SidIsFree
  <2> HIDE DEF m
  <2>2. /\ slots' \in Seq(Objs \union {Undefined}) /\ Sid \in DOMAIN slots' /\ slots'[Sid] = m
        /\ DOMAIN slots \subseteq DOMAIN slots'
        /\ \A i \in DOMAIN slots' : i # Sid => i \in DOMAIN slots /\ slots'[i] = slots[i]
    BY <1>1, <1>2, <1>4, <2>1, SlotSet
  <2> QED BY <2>1, <2>2
<1>9. \A x \in Requirers, k \in Keys : x # m => Find(x, k)' = Find(x, k)
  BY <1>6 DEF Find, Requirers
<1> HIDE DEF m, f
<1>10. MadeInOrder'
  <2>1. \A k \in Keys, o \in Objs : o # m /\ o > made => localModuleCache'[o][k] \notin Objs
    <3>1. ASSUME NEW k \in Keys, NEW o \in Objs, o # m, o > made
          PROVE  localModuleCache'[o][k] \notin Objs
      <4>1. o # c /\ o \in Requirers
        BY <1>2, <1>3, <3>1, ObjsTyped
      <4>2. localModuleCache[o][k] \notin Objs
        BY <3>1 DEF IndInv, MadeInOrder
      <4> QED BY <1>6, <4>1, <4>2
    <3> QED BY <3>1
  <2> QED BY <1>1, <1>3, <1>4, <1>6, <2>1 DEF IndInv, MadeInOrder
<1>11. CacheNamesFiles'
  <2>1. \A o \in Objs : o <= made => file[o] \in Files
    BY DEF IndInv, MadeInOrder
  <2> QED BY <1>1, <1>2, <1>3, <1>4, <1>6, <2>1 DEF IndInv, CacheNamesFiles
<1>12. LocalNamesFiles'
  <2> SUFFICES ASSUME NEW x \in Requirers, NEW k \in Keys, localModuleCache'[x][k] \in Objs
               PROVE  /\ localModuleCache'[x][k] <= m
                      /\ file'[localModuleCache'[x][k]] = Find(x, k)'
    BY <1>1 DEF LocalNamesFiles
  <2>1. CASE x = c /\ k = n
    BY <1>3, <1>4, <1>5, <1>6, <1>9, <2>1 DEF f
  <2>2. CASE ~ (x = c /\ k = n)
    <3>1. localModuleCache'[x][k] = localModuleCache[x][k]
      BY <1>6, <2>2
    <3>2. x # m
      BY <1>2, <1>4, <3>1 DEF IndInv, MadeInOrder, m
    <3>3. localModuleCache[x][k] <= made /\ file[localModuleCache[x][k]] = Find(x, k)
      BY <3>1 DEF IndInv, LocalNamesFiles
    <3> QED BY <1>4, <1>6, <1>9, <3>1, <3>2, <3>3
  <2> QED BY <2>1, <2>2
<1>13. BeforeReloads'
  <2> SUFFICES ASSUME reloads = 0 PROVE BeforeReloads'
    BY DEF BeforeReloads
  <2>1. /\ \A o \in Objs : ~ flag[o]
        /\ \A o, p \in Objs : o <= made /\ p <= made /\ file[o] = file[p] => o = p
    BY DEF IndInv, BeforeReloads
  <2>2. moduleCache[f] = Absent
    BY <1>1, <2>1 DEF MustReload
  <2>3. \A o \in Objs : o <= made => file[o] # f
    BY <2>2 DEF IndInv, CacheNamesFiles
  <2>4. \A o, p \in Objs : o <= m /\ p <= m /\ file'[o] = file'[p] => o = p
    BY <1>4, <1>6, <2>1, <2>3
  <2>5. ASSUME NEW x \in Requirers, NEW k \in Keys, localModuleCache'[x][k] \in Objs
        PROVE  moduleCache'[Find(x, k)'] \in {localModuleCache'[x][k], Undefined}
    <3>1. CASE x = c /\ k = n
      BY <1>3, <1>5, <1>6, <1>9, <3>1 DEF f
    <3>2. CASE ~ (x = c /\ k = n)
      <4>1. localModuleCache'[x][k] = localModuleCache[x][k]
        BY <1>6, <3>2
      <4>2. x # m
        BY <1>2, <1>4, <4>1, <2>5 DEF IndInv, MadeInOrder, m
      <4>3. /\ localModuleCache[x][k] <= made
            /\ file[localModuleCache[x][k]] = Find(x, k)
            /\ moduleCache[Find(x, k)] \in {localModuleCache[x][k], Undefined}
        BY <2>5, <4>1 DEF IndInv, LocalNamesFiles, BeforeReloads
      <4>4. Find(x, k) \in Files /\ Find(x, k) # f
        BY <2>3, <2>5, <4>1, <4>3 DEF IndInv, MadeInOrder
      <4> QED BY <1>6, <1>9, <4>1, <4>2, <4>3, <4>4
    <3> QED BY <3>1, <3>2
  <2> QED BY <1>1, <2>1, <2>4, <2>5 DEF BeforeReloads
<1>14. SlotsApart'
  <2>1. \A i \in DOMAIN slots' : slots'[i] # Undefined => slots'[i] \in Objs
    BY <1>8
  <2>2. \A i \in DOMAIN slots : slots[i] # Undefined => slots[i] # m /\ slots[i] \in Objs /\ slots[i] <= made
    BY <1>2, <1>4 DEF IndInv, SlotsApart
  <2>3. ASSUME NEW i \in DOMAIN slots', slots'[i] # Undefined
        PROVE  slots'[i] <= m /\ body'[slots'[i]] \in {"running", "unread"}
    <3>1. CASE i = Sid
      BY <1>4, <1>6, <1>8, <3>1
    <3>2. CASE i # Sid
      BY <1>4, <1>6, <1>8, <2>2, <2>3, <3>2 DEF IndInv, SlotsApart
    <3> QED BY <3>1, <3>2
  <2>4. \A i, k \in DOMAIN slots' : slots'[i] = slots'[k] /\ slots'[i] # Undefined => i = k
    BY <1>4, <1>8, <2>2 DEF IndInv, SlotsApart
  <2> QED BY <1>1, <2>3, <2>4 DEF SlotsApart
<1> QED BY <1>1, <1>4, <1>6, <1>7, <1>8, <1>10, <1>11, <1>12, <1>13, <1>14 DEF m

----------------------------------------------------------------------------
Frame == [obj : Objs, sid : Nat, caller : Requirers, name : Keys]

LEMMA StackTyped ==
  ASSUME IndInv
  PROVE  /\ stack \in Seq(Frame)
         /\ \A i \in DOMAIN stack :
              /\ stack[i].obj \in Objs /\ stack[i].obj # Undefined
              /\ stack[i].obj <= made /\ stack[i].obj # made + 1
<1>1. stack \in Seq(Frame)
  BY DEF IndInv, TypeOK, Frame
<1>2. ASSUME NEW i \in DOMAIN stack
      PROVE  /\ stack[i].obj \in Objs /\ stack[i].obj # Undefined
             /\ stack[i].obj <= made /\ stack[i].obj # made + 1
  <2>1. stack[i] \in Frame
    BY <1>1
  <2>2. stack[i].obj \in Objs
    BY <2>1 DEF Frame
  <2>3. stack[i].obj # Undefined
    BY <2>2, ObjsTyped
  <2>4. stack[i].obj <= made
    BY <2>3 DEF IndInv, StackInSlots, SlotsApart
  <2>5. made \in Nat
    BY CjsConstants DEF IndInv, TypeOK
  <2> QED BY <2>2, <2>3, <2>4, <2>5, ObjsTyped
<1> QED BY <1>1, <1>2

LEMMA RequireCachedInv ==
  ASSUME IndInv, NEW c \in Requirers, NEW n \in Keys, RequireCached(c, n)
  PROVE  IndInv'
<1> DEFINE f == Find(c, n)
<1>1. /\ May(c, n) /\ f # NotFound
      /\ localModuleCache' = [localModuleCache EXCEPT ![c][n] = moduleCache[f]]
      /\ UNCHANGED <<moduleCache, keys, made, file, body, flag, slots, stack, reloads>>
  BY DEF RequireCached
<1>2. f \in Files /\ (c # Root => c \in Objs /\ c <= made)
  BY <1>1, RequirerIsMade
<1>3. TypeOK /\ moduleCache[f] \in Cached /\ made \in Nat
      /\ localModuleCache \in [Requirers -> [Keys -> Cached]]
  BY <1>2, CjsConstants DEF IndInv, TypeOK
<1>4. localModuleCache' \in [Requirers -> [Keys -> Cached]]
  BY <1>1, <1>3
<1>5. \A x \in Requirers, k \in Keys :
        localModuleCache'[x][k] = IF x = c /\ k = n THEN moduleCache[f] ELSE localModuleCache[x][k]
  BY <1>1, <1>3
<1>6. TypeOK'
  BY <1>1, <1>3, <1>4 DEF TypeOK
<1>7. MadeInOrder'
  <2>1. ASSUME NEW o \in Objs, o > made
        PROVE  o \in Requirers /\ o # c
    BY <1>2, <1>3, <2>1, ObjsTyped
  <2> QED BY <1>1, <1>5, <2>1 DEF IndInv, MadeInOrder
<1>8. \A x, k : Find(x, k)' = Find(x, k)
  BY <1>1 DEF Find
<1>9. CacheNamesFiles' /\ SlotsApart' /\ StackInSlots'
  BY <1>1 DEF IndInv, CacheNamesFiles, SlotsApart, StackInSlots
<1>10. LocalNamesFiles'
  <2> SUFFICES ASSUME NEW x \in Requirers, NEW k \in Keys, localModuleCache'[x][k] \in Objs
               PROVE  /\ localModuleCache'[x][k] <= made
                      /\ file[localModuleCache'[x][k]] = Find(x, k)
    BY <1>1, <1>8 DEF LocalNamesFiles
  <2>1. CASE x = c /\ k = n
    BY <1>2, <1>5, <2>1 DEF IndInv, CacheNamesFiles
  <2>2. CASE ~ (x = c /\ k = n)
    BY <1>5, <2>2 DEF IndInv, LocalNamesFiles
  <2> QED BY <2>1, <2>2
<1>11. BeforeReloads'
  <2> SUFFICES ASSUME reloads = 0 PROVE BeforeReloads'
    BY <1>1 DEF BeforeReloads
  <2>1. ASSUME NEW x \in Requirers, NEW k \in Keys, localModuleCache'[x][k] \in Objs
        PROVE  moduleCache[Find(x, k)] \in {localModuleCache'[x][k], Undefined}
    <3>1. CASE x = c /\ k = n
      BY <1>5, <3>1
    <3>2. CASE ~ (x = c /\ k = n)
      BY <1>5, <2>1, <3>2 DEF IndInv, BeforeReloads
    <3> QED BY <3>1, <3>2
  <2> QED BY <1>1, <1>8, <2>1 DEF IndInv, BeforeReloads
<1> QED BY <1>6, <1>7, <1>9, <1>10, <1>11 DEF IndInv

LEMMA RequireStartInv ==
  ASSUME IndInv, NEW c \in Requirers, NEW n \in Keys, RequireStart(c, n)
  PROVE  IndInv'
<1> DEFINE m == made + 1
           top == [obj |-> m, sid |-> Sid, caller |-> c, name |-> n]
<1>1. /\ NewModule(c, n, "running") /\ stack' = Append(stack, top) /\ UNCHANGED <<flag, reloads>>
  BY DEF RequireStart
<1>2. /\ m \in Objs /\ made' = m
      /\ moduleCache' \in [Files -> Cached] /\ keys' \in Seq(Files)
      /\ localModuleCache' \in [Requirers -> [Keys -> Cached]]
      /\ file' \in [Objs -> Files \union {Absent}]
      /\ body' \in [Objs -> {"none", "running", "done", "threw", "unread"}]
      /\ slots' \in Seq(Objs \union {Undefined})
      /\ \A o \in Objs : body'[o] = IF o = m THEN "running" ELSE body[o]
      /\ Sid \in Nat /\ Sid \in DOMAIN slots' /\ slots'[Sid] = m
      /\ \A i \in DOMAIN slots :
           slots[i] # Undefined => i \in DOMAIN slots' /\ slots'[i] = slots[i]
      /\ MadeInOrder' /\ CacheNamesFiles' /\ LocalNamesFiles' /\ BeforeReloads' /\ SlotsApart'
  BY <1>1, ModuleMade
<1>3. stack \in Seq(Frame) /\ top \in Frame
  BY <1>2 DEF IndInv, TypeOK, Frame
<1>4. \A i \in DOMAIN stack : stack[i].obj \in Objs /\ stack[i].obj # m
  BY StackTyped
<1>5. top.obj = m /\ top.sid = Sid
  OBVIOUS
<1> HIDE DEF m, top
<1>6. /\ stack' \in Seq(Frame) /\ DOMAIN stack' = 1 .. Len(stack) + 1 /\ Len(stack) \in Nat
      /\ DOMAIN stack = 1 .. Len(stack) /\ stack'[Len(stack) + 1] = top
      /\ \A i \in DOMAIN stack : stack'[i] = stack[i]
  BY <1>1, <1>3
<1>7. \A i \in DOMAIN stack' : i = Len(stack) + 1 \/ i \in DOMAIN stack
  BY <1>6
<1>8. TypeOK'
  <2>1. flag' \in [Objs -> BOOLEAN] /\ reloads' \in 0 .. MaxReloads
    BY <1>1 DEF IndInv, TypeOK
  <2>2. made' \in 0 .. MaxObjs
    BY <1>2, CjsConstants DEF Objs
  <2> QED BY <1>2, <1>6, <2>1, <2>2 DEF TypeOK, Frame
<1>9. StackInSlots'
  <2>1. ASSUME NEW i \in DOMAIN stack'
        PROVE  /\ stack'[i].sid \in DOMAIN slots'
               /\ slots'[stack'[i].sid] = stack'[i].obj
               /\ body'[stack'[i].obj] = "running"
    <3>1. CASE i = Len(stack) + 1
      BY <1>2, <1>5, <1>6, <3>1
    <3>2. CASE i \in DOMAIN stack
      <4>1. /\ stack[i].sid \in DOMAIN slots /\ slots[stack[i].sid] = stack[i].obj
            /\ body[stack[i].obj] = "running"
        BY <3>2 DEF IndInv, StackInSlots
      <4>2. stack[i].obj # Undefined
        BY <1>4, <3>2, ObjsTyped
      <4> QED BY <1>2, <1>4, <1>6, <3>2, <4>1, <4>2
    <3> QED BY <1>7, <3>1, <3>2
  <2>2. \A i, k \in DOMAIN stack' : stack'[i].obj = stack'[k].obj => i = k
    BY <1>4, <1>5, <1>6, <1>7 DEF IndInv, StackInSlots
  <2> QED BY <2>1, <2>2 DEF StackInSlots
<1> QED BY <1>2, <1>8, <1>9 DEF IndInv

LEMMA RequireUnreadableInv ==
  ASSUME IndInv, NEW c \in Requirers, NEW n \in Keys, RequireUnreadable(c, n)
  PROVE  IndInv'
<1> DEFINE m == made + 1
<1>1. NewModule(c, n, "unread") /\ UNCHANGED <<flag, stack, reloads>>
  BY DEF RequireUnreadable
<1>2. /\ m \in Objs /\ made' = m
      /\ moduleCache' \in [Files -> Cached] /\ keys' \in Seq(Files)
      /\ localModuleCache' \in [Requirers -> [Keys -> Cached]]
      /\ file' \in [Objs -> Files \union {Absent}]
      /\ body' \in [Objs -> {"none", "running", "done", "threw", "unread"}]
      /\ slots' \in Seq(Objs \union {Undefined})
      /\ \A o \in Objs : body'[o] = IF o = m THEN "unread" ELSE body[o]
      /\ \A i \in DOMAIN slots :
           slots[i] # Undefined => i \in DOMAIN slots' /\ slots'[i] = slots[i]
      /\ MadeInOrder' /\ CacheNamesFiles' /\ LocalNamesFiles' /\ BeforeReloads' /\ SlotsApart'
  BY <1>1, ModuleMade
<1>3. stack \in Seq(Frame)
  BY DEF IndInv, TypeOK, Frame
<1>4. \A i \in DOMAIN stack : stack[i].obj \in Objs /\ stack[i].obj # m
  BY StackTyped
<1> HIDE DEF m
<1>5. TypeOK'
  <2>1. flag' \in [Objs -> BOOLEAN] /\ reloads' \in 0 .. MaxReloads
    BY <1>1 DEF IndInv, TypeOK
  <2>2. made' \in 0 .. MaxObjs
    BY <1>2, CjsConstants DEF Objs
  <2> QED BY <1>1, <1>2, <1>3, <2>1, <2>2 DEF TypeOK, Frame
<1>6. StackInSlots'
  <2>1. ASSUME NEW i \in DOMAIN stack
        PROVE  /\ stack[i].sid \in DOMAIN slots'
               /\ slots'[stack[i].sid] = stack[i].obj
               /\ body'[stack[i].obj] = "running"
    <3>1. /\ stack[i].sid \in DOMAIN slots /\ slots[stack[i].sid] = stack[i].obj
          /\ body[stack[i].obj] = "running"
      BY DEF IndInv, StackInSlots
    <3>2. stack[i].obj # Undefined
      BY <1>4, ObjsTyped
    <3> QED BY <1>2, <1>4, <3>1, <3>2
  <2> QED BY <1>1, <2>1 DEF IndInv, StackInSlots
<1> QED BY <1>2, <1>5, <1>6 DEF IndInv

\* A body ends, in either way: its slot is freed, the other ones stay.
LEMMA LeaveInv ==
  ASSUME IndInv, stack # <<>>, Leave,
         NEW state \in {"done", "threw"}, body' = [body EXCEPT ![Top.obj] = state],
         UNCHANGED <<made, file>>
  PROVE  /\ Top \in Frame /\ Top.obj \in Objs /\ Top.obj <= made
         /\ body' \in [Objs -> {"none", "running", "done", "threw", "unread"}]
         /\ slots' \in Seq(Objs \union {Undefined}) /\ stack' \in Seq(Frame)
         /\ \A o \in Objs : (body'[o] # "none") = (body[o] # "none")
         /\ SlotsApart' /\ StackInSlots'
<1> DEFINE sid == Top.sid
           o == Top.obj
<1>1. /\ stack \in Seq(Frame) /\ slots \in Seq(Objs \union {Undefined})
      /\ body \in [Objs -> {"none", "running", "done", "threw", "unread"}]
  BY StackTyped DEF IndInv, TypeOK
<1>2. /\ Len(stack) \in DOMAIN stack /\ Top = stack[Len(stack)] /\ Top \in Frame
      /\ stack' \in Seq(Frame) /\ DOMAIN stack' = DOMAIN stack \ {Len(stack)}
      /\ \A i \in DOMAIN stack' : stack'[i] = stack[i]
  BY <1>1, StackTop DEF Leave
<1>3. /\ sid \in DOMAIN slots /\ slots[sid] = o /\ body[o] = "running"
      /\ o \in Objs /\ o # Undefined /\ o <= made
  BY <1>2, StackTyped DEF IndInv, StackInSlots
<1>4. /\ slots' \in Seq(Objs \union {Undefined}) /\ slots'[sid] = Undefined
      /\ DOMAIN slots \subseteq DOMAIN slots'
      /\ \A i \in DOMAIN slots' : i # sid => i \in DOMAIN slots /\ slots'[i] = slots[i]
  <2>1. sid \in 1 .. Len(slots) + 1
    BY <1>1, <1>3
  <2>2. slots' = WithSlot(sid, Undefined)
    BY DEF Leave
  <2> HIDE DEF sid
  <2> QED BY <1>1, <2>1, <2>2, SlotSet
<1>5. /\ body' \in [Objs -> {"none", "running", "done", "threw", "unread"}]
      /\ \A p \in Objs : body'[p] = IF p = o THEN state ELSE body[p]
  BY <1>1, <1>3
<1> HIDE DEF sid, o
<1>6. SlotsApart'
  <2>1. \A i \in DOMAIN slots : slots[i] # Undefined => slots[i] \in Objs
    BY <1>1
  <2>2. \A i \in DOMAIN slots : i # sid /\ slots[i] # Undefined => slots[i] # o
    BY <1>3 DEF IndInv, SlotsApart
  <2>3. \A i \in DOMAIN slots' : slots'[i] # Undefined =>
          slots'[i] <= made /\ body'[slots'[i]] \in {"running", "unread"}
    BY <1>4, <1>5, <2>1, <2>2 DEF IndInv, SlotsApart
  <2>4. \A i, k \in DOMAIN slots' : slots'[i] = slots'[k] /\ slots'[i] # Undefined => i = k
    BY <1>4 DEF IndInv, SlotsApart
  <2> QED BY <2>3, <2>4 DEF SlotsApart
<1>7. StackInSlots'
  <2>1. ASSUME NEW i \in DOMAIN stack'
        PROVE  /\ stack'[i].sid \in DOMAIN slots'
               /\ slots'[stack'[i].sid] = stack'[i].obj
               /\ body'[stack'[i].obj] = "running"
    <3>1. i \in DOMAIN stack /\ i # Len(stack) /\ stack'[i] = stack[i]
      BY <1>2
    <3>2. /\ stack[i].sid \in DOMAIN slots /\ slots[stack[i].sid] = stack[i].obj
          /\ body[stack[i].obj] = "running" /\ stack[i].obj # o /\ stack[i].obj \in Objs
      BY <1>2, <3>1, StackTyped DEF IndInv, StackInSlots, o
    <3>3. stack[i].sid # sid /\ stack[i].sid \in DOMAIN slots'
      BY <1>3, <1>4, <3>2
    <3> QED BY <1>4, <1>5, <3>1, <3>2, <3>3
  <2>2. \A i, k \in DOMAIN stack' : stack'[i].obj = stack'[k].obj => i = k
    BY <1>2 DEF IndInv, StackInSlots
  <2> QED BY <2>1, <2>2 DEF StackInSlots
<1>8. \A p \in Objs : (body'[p] # "none") = (body[p] # "none")
  BY <1>3, <1>5
<1> QED BY <1>2, <1>3, <1>4, <1>5, <1>6, <1>7, <1>8 DEF o

LEMMA FinishInv == IndInv /\ Finish => IndInv'
<1> SUFFICES ASSUME IndInv, Finish PROVE IndInv'
  OBVIOUS
<1>1. /\ stack # <<>> /\ Leave /\ body' = [body EXCEPT ![Top.obj] = "done"]
      /\ UNCHANGED <<moduleCache, keys, localModuleCache, made, file, flag, reloads>>
  BY DEF Finish
<1>2. /\ body' \in [Objs -> {"none", "running", "done", "threw", "unread"}]
      /\ slots' \in Seq(Objs \union {Undefined}) /\ stack' \in Seq(Frame)
      /\ \A o \in Objs : (body'[o] # "none") = (body[o] # "none")
      /\ SlotsApart' /\ StackInSlots'
  BY <1>1, LeaveInv
<1>3. TypeOK'
  BY <1>1, <1>2 DEF IndInv, TypeOK, Frame
<1>4. MadeInOrder'
  BY <1>1, <1>2 DEF IndInv, MadeInOrder
<1>5. \A x, k : Find(x, k)' = Find(x, k)
  BY <1>1 DEF Find
<1>6. CacheNamesFiles' /\ LocalNamesFiles' /\ BeforeReloads'
  BY <1>1, <1>5 DEF IndInv, CacheNamesFiles, LocalNamesFiles, BeforeReloads
<1> QED BY <1>2, <1>3, <1>4, <1>6 DEF IndInv

LEMMA ThrowInv == IndInv /\ Throw => IndInv'
<1> SUFFICES ASSUME IndInv, Throw PROVE IndInv'
  OBVIOUS
<1> DEFINE c == Top.caller
           n == Top.name
           f == file[Top.obj]
<1>1. /\ stack # <<>> /\ Leave /\ body' = [body EXCEPT ![Top.obj] = "threw"]
      /\ localModuleCache' = [localModuleCache EXCEPT ![c][n] = Undefined]
      /\ moduleCache' = [moduleCache EXCEPT ![f] = Undefined]
      /\ UNCHANGED <<keys, made, file, flag, reloads>>
  BY DEF Throw
<1>2. /\ Top \in Frame /\ Top.obj \in Objs /\ Top.obj <= made
      /\ body' \in [Objs -> {"none", "running", "done", "threw", "unread"}]
      /\ slots' \in Seq(Objs \union {Undefined}) /\ stack' \in Seq(Frame)
      /\ \A o \in Objs : (body'[o] # "none") = (body[o] # "none")
      /\ SlotsApart' /\ StackInSlots'
  BY <1>1, LeaveInv
<1>3. c \in Requirers /\ n \in Keys /\ f \in Files
  BY <1>2 DEF Frame, IndInv, MadeInOrder
<1>4. /\ moduleCache \in [Files -> Cached] /\ localModuleCache \in [Requirers -> [Keys -> Cached]]
      /\ Undefined \in Cached /\ Undefined # Absent /\ Undefined \notin Objs
  BY CjsConstants DEF IndInv, TypeOK, Cached
<1> HIDE DEF c, n, f
<1>5. /\ moduleCache' \in [Files -> Cached] /\ localModuleCache' \in [Requirers -> [Keys -> Cached]]
      /\ \A g \in Files : moduleCache'[g] = IF g = f THEN Undefined ELSE moduleCache[g]
      /\ \A x \in Requirers, k \in Keys :
           localModuleCache'[x][k] = IF x = c /\ k = n THEN Undefined ELSE localModuleCache[x][k]
  BY <1>1, <1>3, <1>4
<1>6. TypeOK'
  BY <1>1, <1>2, <1>5 DEF IndInv, TypeOK, Frame
<1>7. MadeInOrder'
  <2>1. ASSUME NEW o \in Objs, o > made, NEW k \in Keys
        PROVE  localModuleCache'[o][k] \notin Objs
    <3>1. o \in Requirers /\ localModuleCache[o][k] \notin Objs
      BY <2>1, ObjsTyped DEF IndInv, MadeInOrder
    <3> QED BY <1>4, <1>5, <3>1
  <2> QED BY <1>1, <1>2, <2>1 DEF IndInv, MadeInOrder
<1>8. \A x, k : Find(x, k)' = Find(x, k)
  BY <1>1 DEF Find
<1>9. CacheNamesFiles'
  <2>1. \A o \in Objs : o <= made => file[o] \in Files
    BY DEF IndInv, MadeInOrder
  <2> QED BY <1>1, <1>4, <1>5, <2>1 DEF IndInv, CacheNamesFiles
<1>10. LocalNamesFiles'
  BY <1>1, <1>4, <1>5, <1>8 DEF IndInv, LocalNamesFiles
<1>11. BeforeReloads'
  <2> SUFFICES ASSUME reloads = 0 PROVE BeforeReloads'
    BY <1>1 DEF BeforeReloads
  <2>1. ASSUME NEW x \in Requirers, NEW k \in Keys, localModuleCache'[x][k] \in Objs
        PROVE  moduleCache'[Find(x, k)] \in {localModuleCache'[x][k], Undefined}
    <3>1. localModuleCache'[x][k] = localModuleCache[x][k]
      BY <1>4, <1>5, <2>1
    <3>2. moduleCache[Find(x, k)] \in {localModuleCache[x][k], Undefined} /\ Find(x, k) \in Files
      BY <2>1, <3>1 DEF IndInv, BeforeReloads, LocalNamesFiles, MadeInOrder
    <3> QED BY <1>5, <3>1, <3>2
  <2> QED BY <1>1, <1>8, <2>1 DEF IndInv, BeforeReloads
<1> QED BY <1>2, <1>6, <1>7, <1>9, <1>10, <1>11 DEF IndInv

\* Only flags change when a reload is asked for.
LEMMA ReloadInv ==
  ASSUME IndInv, reloads < MaxReloads, reloads' = reloads + 1, flag' \in [Objs -> BOOLEAN],
         UNCHANGED <<moduleCache, keys, localModuleCache, made, file, body, slots, stack>>
  PROVE  IndInv'
<1>1. reloads \in Nat /\ reloads' # 0 /\ reloads' \in 0 .. MaxReloads
  BY CjsConstants DEF IndInv, TypeOK
<1>2. TypeOK'
  BY <1>1 DEF IndInv, TypeOK
<1>3. MadeInOrder' /\ CacheNamesFiles' /\ SlotsApart' /\ StackInSlots'
  BY DEF IndInv, MadeInOrder, CacheNamesFiles, SlotsApart, StackInSlots
<1>4. LocalNamesFiles'
  BY DEF IndInv, LocalNamesFiles, Find
<1>5. BeforeReloads'
  BY <1>1 DEF BeforeReloads
<1> QED BY <1>2, <1>3, <1>4, <1>5 DEF IndInv

LEMMA NextInv == IndInv /\ [Next]_vars => IndInv'
<1> SUFFICES ASSUME IndInv, [Next]_vars PROVE IndInv'
  OBVIOUS
<1>1. flag \in [Objs -> BOOLEAN]
  BY DEF IndInv, TypeOK
<1>2. ASSUME NEW c \in Requirers, NEW n \in Keys,
             RequireCached(c, n) \/ RequireStart(c, n) \/ RequireUnreadable(c, n)
      PROVE  IndInv'
  BY <1>2, RequireCachedInv, RequireStartInv, RequireUnreadableInv
<1>3. CASE Finish \/ Throw
  BY <1>3, FinishInv, ThrowInv
<1>4. ASSUME NEW f \in Files, ForceReload(f)
      PROVE  IndInv'
  <2>1. flag' \in [Objs -> BOOLEAN]
    BY <1>1, <1>4 DEF ForceReload
  <2> QED BY <1>4, <2>1, ReloadInv DEF ForceReload
<1>5. CASE ForceReloadAll
  <2>1. flag' \in [Objs -> BOOLEAN]
    BY <1>1, <1>5 DEF ForceReloadAll
  <2> QED BY <1>5, <2>1, ReloadInv DEF ForceReloadAll
<1>6. CASE UNCHANGED vars
  BY <1>6 DEF vars, IndInv, TypeOK, MadeInOrder, CacheNamesFiles, LocalNamesFiles, BeforeReloads,
              SlotsApart, StackInSlots, Find
<1> QED BY <1>2, <1>3, <1>4, <1>5, <1>6 DEF Next

----------------------------------------------------------------------------
\* The inductive invariant holds in every state.
THEOREM Invariant == Spec => []IndInv
BY InitInv, NextInv, PTL DEF Spec

\* Caches, slots and bodies hold what they are declared to.
THEOREM TypeCorrect == Spec => []TypeOK
<1>1. IndInv => TypeOK
  BY DEF IndInv
<1> QED BY <1>1, Invariant, PTL

(***************************************************************************)
(* Whatever is required inside whatever, whatever throws or cannot be      *)
(* read, and however slots are freed and taken again, the sid of an        *)
(* executing body leads to its own module object.                          *)
(***************************************************************************)
THEOREM SidsNameModules == Spec => []SidNamesModule
<1>1. ASSUME IndInv PROVE SidNamesModule
  BY <1>1 DEF IndInv, StackInSlots, SlotsApart, SidNamesModule
<1> QED BY <1>1, Invariant, PTL

(***************************************************************************)
(* Every name in a local cache stands for the file it means in the         *)
(* directory of its module, and before forceReload is used for the object  *)
(* that moduleCache has for that file.                                     *)
(***************************************************************************)
THEOREM LocalCachesAgree == Spec => []LocalAgrees
<1>1. ASSUME IndInv PROVE LocalAgrees
  BY <1>1 DEF IndInv, LocalNamesFiles, BeforeReloads, LocalAgrees
<1> QED BY <1>1, Invariant, PTL

(***************************************************************************)
(* Before forceReload is used no path is executed twice.                   *)
(***************************************************************************)
THEOREM PathsExecutedOnce ==
  Spec => [](reloads = 0 => \A o, p \in 1 .. made : file[o] = file[p] => o = p)
<1>1. ASSUME IndInv, reloads = 0 PROVE \A o, p \in 1 .. made : file[o] = file[p] => o = p
  <2>1. \A o \in 1 .. made : o \in Objs /\ o <= made
    BY <1>1, CjsConstants DEF IndInv, TypeOK, Objs
  <2> QED BY <1>1, <2>1 DEF IndInv, BeforeReloads
<1> QED BY <1>1, Invariant, PTL

(***************************************************************************)
(* A file is executed twice only under two keys of which one is relative   *)
(* to the working directory: Search finds it under one normal path, and    *)
(* two absolute ones that mean the same file are the same path.            *)
(***************************************************************************)
THEOREM OneKeyPerAbsolutePath == Spec => []ExecutedOnce
<1>1. ASSUME IndInv PROVE ExecutedOnce
  <2> SUFFICES ASSUME reloads = 0, NEW o \in 1 .. made, NEW p \in 1 .. made, o # p,
                      Full(file[o]) = Full(file[p])
               PROVE  file[o] # file[p] /\ (~ Rooted(file[o]) \/ ~ Rooted(file[p]))
    BY DEF ExecutedOnce
  <2>1. o \in Objs /\ o <= made /\ p \in Objs /\ p <= made
    BY <1>1, CjsConstants DEF IndInv, TypeOK, Objs
  <2>2. file[o] # file[p]
    BY <1>1, <2>1 DEF IndInv, BeforeReloads
  <2>3. Normal(file[o]) = file[o] /\ Normal(file[p]) = file[p]
    BY <1>1, <2>1, FilesAreNormal DEF IndInv, MadeInOrder
  <2>4. ASSUME Rooted(file[o]), Rooted(file[p]) PROVE FALSE
    BY <2>2, <2>3, <2>4 DEF Full, FromCwd
  <2> QED BY <2>2, <2>4
<1> QED BY <1>1, Invariant, PTL

(***************************************************************************)
(* A module that requires what lies in its directory, or in node_modules   *)
(* beside it, is never given another plugin's copy from a cache.           *)
(***************************************************************************)
THEOREM CopiesAreOwn == Spec => []OwnCopy
<1>1. ASSUME IndInv PROVE OwnCopy
  <2> SUFFICES ASSUME NEW c \in Objs, NEW n \in Keys, localModuleCache[c][n] \in Objs,
                      SearchModuleInDir(DirOf(file[c]), n) # NotFound
               PROVE  file[localModuleCache[c][n]] = SearchModuleInDir(DirOf(file[c]), n)
    BY DEF OwnCopy
  <2>1. c \in Requirers /\ c # Root
    BY ObjsTyped
  <2>2. file[localModuleCache[c][n]] = Find(c, n)
    BY <1>1, <2>1 DEF IndInv, LocalNamesFiles
  <2>3. file[c] \in Files
    <3>1. c \in Nat /\ made \in Nat
      BY <1>1, ObjsTyped, CjsConstants DEF IndInv, TypeOK
    <3>2. ~ (c > made)
      BY <1>1 DEF IndInv, MadeInOrder
    <3> QED BY <1>1, <3>1, <3>2 DEF IndInv, MadeInOrder
  <2>4. Find(c, n) = Search(DirOf(file[c]), n)
    BY <2>1, <2>3, CjsConstants DEF Find, Located
  <2> QED BY <2>2, <2>4, SearchPrefersDir
<1> QED BY <1>1, Invariant, PTL

(***************************************************************************)
(* A file whose body threw gets no new module object, unless an earlier    *)
(* one of its objects has been flagged by forceReload.                     *)
(***************************************************************************)
THEOREM FailuresStay == Spec => FailureIsFinal
<1> DEFINE Final == \A f \in Files :
             LET objs == {o \in Objs : file[o] = f} IN
               (\E o \in objs : body[o] = "threw") /\ (\A o \in objs : ~ flag[o])
                 => {o \in Objs : file'[o] = f} = objs
<1>1. IndInv /\ [Next]_vars => [Final]_vars
  <2> SUFFICES ASSUME IndInv, Next PROVE Final
    OBVIOUS
  <2>1. CASE file' = file
    BY <2>1
  <2>2. ASSUME NEW c \in Requirers, NEW n \in Keys, NEW state \in {"running", "unread"},
               NewModule(c, n, state)
        PROVE  Final
    <3> SUFFICES ASSUME NEW f \in Files,
                        \E o \in Objs : file[o] = f /\ body[o] = "threw",
                        \A o \in Objs : file[o] = f => ~ flag[o]
                 PROVE  {o \in Objs : file'[o] = f} = {o \in Objs : file[o] = f}
      OBVIOUS
    <3>1. moduleCache[f] # Absent
      <4>1. PICK o \in Objs : file[o] = f /\ body[o] = "threw"
        OBVIOUS
      <4>2. o <= made
        <5>1. o \in Nat /\ made \in Nat
          BY ObjsTyped, CjsConstants DEF IndInv, TypeOK
        <5>2. ~ (o > made)
          BY <4>1 DEF IndInv, MadeInOrder
        <5> QED BY <5>1, <5>2
      <4> QED BY <4>1, <4>2 DEF IndInv, CacheNamesFiles
    <3>2. Find(c, n) # f
      <4>1. ASSUME MustReload(c, n), Find(c, n) = f PROVE FALSE
        BY <4>1 DEF MustReload, IndInv, LocalNamesFiles
      <4> QED BY <2>2, <3>1, <4>1 DEF NewModule
    <3>3. file' = [file EXCEPT ![made + 1] = Find(c, n)]
      BY <2>2 DEF NewModule
    <3>4. file[made + 1] # f
      <4>1. made + 1 \in Objs /\ made + 1 > made
        <5>1. made < MaxObjs
          BY <2>2 DEF NewModule
        <5>2. made \in Nat
          BY DEF IndInv, TypeOK
        <5>3. MaxObjs \in Nat
          BY CjsConstants
        <5> QED BY ONLY <5>1, <5>2, <5>3 DEF Objs
      <4> QED BY <4>1, CjsConstants DEF IndInv, MadeInOrder
    <3> QED BY <3>2, <3>3, <3>4 DEF IndInv, TypeOK
  <2> QED BY <2>1, <2>2 DEF Next, RequireCached, RequireStart, RequireUnreadable, Finish, Throw,
                            ForceReload, ForceReloadAll
<1> QED BY <1>1, Invariant, PTL DEF Spec, FailureIsFinal
=============================================================================
