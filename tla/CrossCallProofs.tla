--------------------------- MODULE CrossCallProofs ---------------------------
(***************************************************************************)
(* Proofs about CrossCall: what each side of a call gets from the other,   *)
(* for any signatures, number of parameters and depth of nesting.          *)
(***************************************************************************)
EXTENDS CrossCall, TLAPS, FiniteSetTheorems, SequenceTheorems

ExternalFrames ==
    [kind : {"external"}, sig : Signatures, args : Seq(AllValues),
     phase : {"push", "native", "collect", "done"}, hidden : {0, 1},
     storage : Seq(AllValues), params : Seq([cell : Nat, value : AllValues]),
     refIndices : Seq(Nat), result : Seq(AllValues), view : Seq(AllValues), gave : AllValues,
     swallowed : BOOLEAN]

InternalFrames ==
    [kind : {"internal"}, sig : Signatures, args : Seq(AllValues),
     phase : {"args", "script", "refs", "return", "done"}, memory : Seq(AllValues),
     next : Nat, result : Seq(AllValues), slot : Seq(AllValues)]

\* The number of parameters pushed so far, and where parameter i is.
Pushed(f) == Len(f.params) - f.hidden
Cell(f, i) == f.params[f.hidden + i].cell

\* A parameter in a register is what the script passed; any other has a cell
\* of its own behind the hidden return value, and reads as the script's value
\* or what the native function stored last.
ParametersApart(f) ==
    /\ \A i \in 1 .. Pushed(f) :
         /\ f.sig.params[i] \in InRegister => Cell(f, i) = 0 /\ f.params[f.hidden + i].value = f.view[i]
         /\ f.sig.params[i] \notin InRegister =>
              Cell(f, i) \in f.hidden + 1 .. Len(f.storage) /\ f.storage[Cell(f, i)] = f.view[i]
         /\ f.view[i] # Bad
    /\ \A i, k \in 1 .. Pushed(f) : Cell(f, i) = Cell(f, k) /\ Cell(f, i) # 0 => i = k

\* refStorageIndices has the cells of the reference parameters pushed, in order.
IndicesNoted(f) ==
    /\ Len(f.refIndices) = Ordinal(f.sig, Pushed(f))
    /\ \A i \in Refs(f.sig) : i <= Pushed(f) => f.refIndices[Ordinal(f.sig, i)] = Cell(f, i)

ExternalOK(f) ==
    /\ f \in ExternalFrames
    /\ Len(f.args) = Len(f.sig.params) /\ Len(f.view) = Len(f.sig.params)
    /\ Pushed(f) \in 0 .. Len(f.sig.params)
    /\ f.hidden = 1 => f.params[1].cell = 1 /\ Len(f.storage) >= 1
    /\ ParametersApart(f)
    /\ IndicesNoted(f)
    /\ f.swallowed => "func" \in ToSet(f.sig.params)
    /\ f.phase = "push" => f.view = f.args
    /\ f.phase \in {"native", "collect"} => Pushed(f) = Len(f.sig.params)
    /\ f.phase = "collect" => f.result = <<f.gave>>
    /\ f.phase = "done" /\ f.result # <<Bad>> =>
         /\ f.result[1] = f.gave
         /\ Len(f.result) = 1 + RefCount(f.sig)
         /\ \A i \in Refs(f.sig) : f.result[1 + Ordinal(f.sig, i)] = f.view[i]

KeepsOrTakes(f) ==
    \A i \in DOMAIN f.args :
        \/ f.memory[i] = f.args[i]
        \/ /\ i \in Refs(f.sig)
           /\ f.result # <<>>
           /\ f.memory[i] = Tag("js", Ordinal(f.sig, i))

InternalOK(f) ==
    /\ f \in InternalFrames
    /\ Len(f.args) = Len(f.sig.params) /\ Len(f.memory) = Len(f.args)
    /\ KeepsOrTakes(f)
    /\ \A m \in DOMAIN f.result : f.result[m] \in {Tag("js", m - 1), Bad}
    /\ f.next \in 1 .. RefCount(f.sig) + 1
    /\ f.phase \in {"args", "script"} => f.next = 1 /\ f.result = <<>>
    /\ f.phase = "refs" => Len(f.result) = 1 + RefCount(f.sig) /\ f.next <= RefCount(f.sig)
    /\ f.phase = "return" => Len(f.result) >= 1
    /\ f.phase # "done" => f.slot = <<>>
    /\ f.phase = "done" => Len(f.slot) = IF f.sig.ret = "void" THEN 0 ELSE 1

FrameOK(f) == ExternalOK(f) \/ InternalOK(f)

\* Scripts run in f, so it may call native functions and see exceptions.
ScriptSide(f) ==
    \/ f.kind = "internal" /\ f.phase \in {"script", "refs", "return"}
    \/ f.kind = "external" /\ f.phase = "push"

\* A call of a native function has the script that made it below, and an
\* exception is on its way to such a script.
Nested ==
    /\ \A d \in DOMAIN stack : stack[d].kind = "external" => d > 1 /\ ScriptSide(stack[d - 1])
    /\ pending => stack # <<>> /\ (ScriptSide(Top) \/ Top.phase = "done")

\* The inductive invariant.
IndInv ==
    /\ stack \in Seq(ExternalFrames \union InternalFrames)
    /\ Len(stack) <= MaxDepth
    /\ pending \in BOOLEAN
    /\ \A d \in DOMAIN stack : FrameOK(stack[d])
    /\ Nested

----------------------------------------------------------------------------
\* The reference parameters of a signature, counted.
LEMMA RefsFinite ==
  ASSUME NEW s \in Signatures
  PROVE  /\ s.params \in Seq(Kinds) /\ Len(s.params) \in 0 .. MaxFuncArgs
         /\ DOMAIN s.params = 1 .. Len(s.params)
         /\ Refs(s) \subseteq 1 .. Len(s.params)
         /\ IsFiniteSet(Refs(s)) /\ RefCount(s) \in Nat
         /\ s.ret \in {"void", "value", "hidden"}
<1> USE CrossCallConstants
<1>1. s.params \in Seq(Kinds) /\ s.ret \in {"void", "value", "hidden"} /\ Len(s.params) <= MaxFuncArgs
  OBVIOUS
<1>2. Len(s.params) \in 0 .. MaxFuncArgs /\ DOMAIN s.params = 1 .. Len(s.params)
  BY <1>1
<1>3. Refs(s) \subseteq 1 .. Len(s.params)
  BY <1>2 DEF Refs
<1>4. IsFiniteSet(Refs(s))
  <2> DEFINE I == 1 .. Len(s.params)
  <2>1. IsFiniteSet(I)
    BY <1>2, FS_Interval
  <2> HIDE DEF I
  <2>2. Refs(s) \subseteq I
    BY <1>3 DEF I
  <2> QED BY <2>1, <2>2, FS_Subset
<1>5. RefCount(s) \in Nat
  BY <1>4, FS_CardinalityType DEF RefCount
<1> QED BY <1>1, <1>2, <1>3, <1>4, <1>5

LEMMA OrdinalBounds ==
  ASSUME NEW s \in Signatures, NEW i \in Nat, NEW k \in Nat, i <= k
  PROVE  /\ Ordinal(s, i) \in Nat /\ Ordinal(s, k) \in Nat
         /\ Ordinal(s, i) <= Ordinal(s, k)
         /\ Ordinal(s, k) <= RefCount(s)
<1> DEFINE A == {j \in Refs(s) : j <= i}
           B == {j \in Refs(s) : j <= k}
<1>1. IsFiniteSet(B) /\ Cardinality(B) <= Cardinality(Refs(s)) /\ Cardinality(B) \in Nat
  <2>1. B \subseteq Refs(s)
    OBVIOUS
  <2> HIDE DEF B
  <2> QED BY <2>1, RefsFinite, FS_Subset, FS_CardinalityType
<1>2. Cardinality(A) <= Cardinality(B) /\ Cardinality(A) \in Nat
  <2>1. \A j \in Refs(s) : j \in Nat
    BY RefsFinite
  <2>2. A \subseteq B
    BY <2>1
  <2> HIDE DEF A, B
  <2> QED BY <1>1, <2>2, FS_Subset, FS_CardinalityType
<1> QED BY <1>1, <1>2 DEF Ordinal, RefCount

LEMMA OrdinalEnds ==
  ASSUME NEW s \in Signatures
  PROVE  Ordinal(s, 0) = 0 /\ Ordinal(s, Len(s.params)) = RefCount(s)
<1>1. {j \in Refs(s) : j <= 0} = {}
  BY RefsFinite
<1>2. {j \in Refs(s) : j <= Len(s.params)} = Refs(s)
  BY RefsFinite
<1> QED BY <1>1, <1>2, FS_EmptySet DEF Ordinal, RefCount

LEMMA OrdinalStep ==
  ASSUME NEW s \in Signatures, NEW n \in Nat
  PROVE  Ordinal(s, n + 1) = IF n + 1 \in Refs(s) THEN Ordinal(s, n) + 1 ELSE Ordinal(s, n)
<1> DEFINE A == {j \in Refs(s) : j <= n}
           B == {j \in Refs(s) : j <= n + 1}
<1>1. \A j \in Refs(s) : j \in Nat
  BY RefsFinite
<1>2. CASE n + 1 \in Refs(s)
  <2>1. B = A \union {n + 1} /\ n + 1 \notin A
    BY <1>1, <1>2
  <2>2. IsFiniteSet(A)
    <3>1. A \subseteq Refs(s)
      OBVIOUS
    <3> HIDE DEF A
    <3> QED BY <3>1, RefsFinite, FS_Subset
  <2> HIDE DEF A, B
  <2>3. Cardinality(B) = Cardinality(A) + 1
    BY <2>1, <2>2, FS_AddElement
  <2> QED BY <1>2, <2>3 DEF Ordinal, A, B
<1>3. CASE n + 1 \notin Refs(s)
  <2>1. A = B
    BY <1>1, <1>3
  <2> QED BY <1>3, <2>1 DEF Ordinal
<1> QED BY <1>2, <1>3

\* Distinct reference parameters have distinct ordinals, from 1.
LEMMA OrdinalApart ==
  ASSUME NEW s \in Signatures, NEW i \in Refs(s)
  PROVE  /\ i \in Nat /\ i >= 1 /\ Ordinal(s, i) \in 1 .. RefCount(s)
         /\ \A k \in Refs(s) : Ordinal(s, i) = Ordinal(s, k) => i = k
<1>1. \A k \in Refs(s) : k \in Nat /\ k >= 1
  BY RefsFinite
<1>2. ASSUME NEW k \in Refs(s), NEW j \in Nat, j < k
      PROVE  Ordinal(s, j) < Ordinal(s, k) /\ Ordinal(s, j) \in Nat /\ Ordinal(s, k) \in Nat
  <2>1. k - 1 \in Nat /\ k \in Nat /\ (k - 1) + 1 = k /\ j <= k - 1
    BY <1>1, <1>2
  <2>2. Ordinal(s, k) = Ordinal(s, k - 1) + 1
    BY <2>1, OrdinalStep
  <2>3. Ordinal(s, j) <= Ordinal(s, k - 1) /\ Ordinal(s, j) \in Nat /\ Ordinal(s, k - 1) \in Nat
    BY <2>1, OrdinalBounds
  <2> QED BY <2>2, <2>3
<1>3. Ordinal(s, i) \in 1 .. RefCount(s)
  <2>1. Ordinal(s, 0) < Ordinal(s, i)
    BY <1>1, <1>2
  <2>2. Ordinal(s, i) \in Nat /\ Ordinal(s, i) <= RefCount(s)
    BY <1>1, OrdinalBounds
  <2> QED BY <2>1, <2>2, OrdinalEnds, RefsFinite
<1>4. ASSUME NEW k \in Refs(s), Ordinal(s, i) = Ordinal(s, k)
      PROVE  i = k
  BY <1>1, <1>2, <1>4
<1> QED BY <1>1, <1>3, <1>4

\* Every ordinal up to the number of reference parameters is one's.
LEMMA OrdinalOnto ==
  ASSUME NEW s \in Signatures, NEW k \in 1 .. RefCount(s)
  PROVE  \E i \in Refs(s) : Ordinal(s, i) = k
<1> DEFINE T == {i \in Nat : Ordinal(s, i) >= k}
           R == OpToRel(<, Nat)
<1>1. Len(s.params) \in T /\ T \subseteq Nat /\ RefCount(s) \in Nat /\ k \in Nat
  BY RefsFinite, OrdinalEnds
<1>2. \E m \in T : \A y \in T : ~ (<<y, m>> \in R)
  <2>1. IsWellFoundedOn(R, Nat)
    BY NatLessThanWellFounded
  <2> HIDE DEF T, R
  <2> QED BY <1>1, <2>1, WFMin
<1>3. \A x, y \in Nat : x < y => <<x, y>> \in R
  BY DEF OpToRel
<1> HIDE DEF R
<1>4. PICK m \in T : \A y \in T : ~ (y < m)
  BY <1>1, <1>2, <1>3
<1>5. m # 0
  BY <1>1, OrdinalEnds
<1>6. m - 1 \in Nat /\ (m - 1) + 1 = m /\ m - 1 < m
  BY <1>5
<1>7. m - 1 \notin T
  BY <1>4, <1>6
<1>8. Ordinal(s, m - 1) < k /\ Ordinal(s, m) >= k
      /\ Ordinal(s, m - 1) \in Nat /\ Ordinal(s, m) \in Nat
  BY <1>1, <1>6, <1>7, OrdinalBounds
<1>9. Ordinal(s, m) = IF m \in Refs(s) THEN Ordinal(s, m - 1) + 1 ELSE Ordinal(s, m - 1)
  BY <1>6, OrdinalStep
<1>10. m \in Refs(s) /\ Ordinal(s, m) = k
  BY <1>1, <1>8, <1>9
<1> QED BY <1>10

----------------------------------------------------------------------------
\* The top frame is replaced, pushed and popped; those below stay.
LEMMA Replaced ==
  ASSUME NEW S, NEW s \in Seq(S), s # <<>>, NEW f \in S
  PROVE  LET t == Append(SubSeq(s, 1, Len(s) - 1), f) IN
         /\ t \in Seq(S) /\ Len(t) = Len(s) /\ t # <<>> /\ t[Len(t)] = f
         /\ \A d \in DOMAIN t : d \in DOMAIN s /\ (d < Len(t) => t[d] = s[d])
<1>1. Len(s) \in Nat /\ Len(s) >= 1 /\ DOMAIN s = 1 .. Len(s)
  BY EmptySeq
<1> DEFINE b == SubSeq(s, 1, Len(s) - 1)
<1>2. b \in Seq(S) /\ Len(b) = Len(s) - 1 /\ \A d \in 1 .. Len(s) - 1 : b[d] = s[d]
  BY <1>1
<1> HIDE DEF b
<1> DEFINE t == Append(b, f)
<1>3. /\ t \in Seq(S) /\ Len(t) = Len(b) + 1 /\ DOMAIN t = 1 .. Len(b) + 1
      /\ t[Len(b) + 1] = f /\ \A d \in 1 .. Len(b) : t[d] = b[d]
  BY <1>2, AppendProperties
<1> HIDE DEF t
<1>4. Len(t) = Len(s) /\ DOMAIN t = 1 .. Len(s) /\ t # <<>> /\ t[Len(t)] = f
  BY <1>1, <1>2, <1>3
<1>5. \A d \in DOMAIN t : d \in DOMAIN s /\ (d < Len(t) => t[d] = s[d])
  BY <1>1, <1>2, <1>3, <1>4
<1> QED BY <1>3, <1>4, <1>5 DEF t, b

LEMMA Pushed1 ==
  ASSUME NEW S, NEW s \in Seq(S), NEW f \in S
  PROVE  LET t == Append(s, f) IN
         /\ t \in Seq(S) /\ Len(t) = Len(s) + 1 /\ t # <<>> /\ t[Len(t)] = f
         /\ DOMAIN t = 1 .. Len(s) + 1
         /\ \A d \in DOMAIN t : d < Len(t) => d \in DOMAIN s /\ t[d] = s[d]
OBVIOUS

LEMMA Popped ==
  ASSUME NEW S, NEW s \in Seq(S), s # <<>>
  PROVE  LET t == SubSeq(s, 1, Len(s) - 1) IN
         /\ t \in Seq(S) /\ Len(t) = Len(s) - 1 /\ Len(s) \in Nat /\ Len(s) >= 1
         /\ DOMAIN t = 1 .. Len(s) - 1
         /\ \A d \in DOMAIN t : d \in DOMAIN s /\ d < Len(s) /\ t[d] = s[d]
<1>1. Len(s) \in Nat /\ Len(s) >= 1 /\ DOMAIN s = 1 .. Len(s)
  BY EmptySeq
<1> QED BY <1>1

----------------------------------------------------------------------------
\* ExternalCall, one step of its frame at a time.
NewExternal(s, args) ==
    [kind |-> "external", sig |-> s, args |-> args, phase |-> "push",
     hidden |-> Len(BeginExternalCall(s)), storage |-> BeginExternalCall(s),
     params |-> IF s.ret = "hidden" THEN <<[cell |-> 1, value |-> None]>> ELSE <<>>,
     refIndices |-> <<>>, result |-> <<>>, swallowed |-> FALSE, view |-> args, gave |-> None]

LEMMA ExternalBegins ==
  ASSUME NEW s \in Signatures, NEW args \in Seq(AllValues), Len(args) = Len(s.params)
  PROVE  ExternalOK(NewExternal(s, args)) /\ ScriptSide(NewExternal(s, args))
<1> DEFINE g == NewExternal(s, args)
<1>1. /\ g.kind = "external" /\ g.sig = s /\ g.args = args /\ g.phase = "push"
      /\ g.refIndices = <<>> /\ g.result = <<>> /\ g.view = args /\ g.gave = None
      /\ g.swallowed = FALSE
  BY DEF NewExternal
<1>2. /\ g.hidden = IF s.ret = "hidden" THEN 1 ELSE 0
      /\ g.storage = IF s.ret = "hidden" THEN <<Fallback>> ELSE <<>>
      /\ g.params = IF s.ret = "hidden" THEN <<[cell |-> 1, value |-> None]>> ELSE <<>>
  BY DEF NewExternal, BeginExternalCall
<1>3. None \in AllValues /\ Fallback \in AllValues
  BY DEF AllValues
<1>4. g \in ExternalFrames
  <2>1. g.params \in Seq([cell : Nat, value : AllValues])
    <3>1. [cell |-> 1, value |-> None] \in [cell : Nat, value : AllValues]
      BY <1>3
    <3>2. <<[cell |-> 1, value |-> None]>> \in Seq([cell : Nat, value : AllValues])
      BY <3>1
    <3>3. <<>> \in Seq([cell : Nat, value : AllValues])
      OBVIOUS
    <3> QED BY <1>2, <3>2, <3>3
  <2>2. g.storage \in Seq(AllValues) /\ g.hidden \in {0, 1}
    BY <1>2, <1>3
  <2>3. g.refIndices \in Seq(Nat) /\ g.result \in Seq(AllValues)
    BY <1>1
  <2> QED BY <1>1, <1>3, <2>1, <2>2, <2>3 DEF NewExternal, ExternalFrames
<1> HIDE DEF g
<1>5. Pushed(g) = 0 /\ (g.hidden = 1 => g.params[1].cell = 1 /\ Len(g.storage) >= 1)
  BY <1>2 DEF Pushed
<1>6. ParametersApart(g)
  BY <1>5 DEF ParametersApart
<1>7. IndicesNoted(g)
  BY <1>1, <1>5, OrdinalEnds, RefsFinite DEF IndicesNoted
<1> QED BY <1>1, <1>4, <1>5, <1>6, <1>7, RefsFinite DEF ExternalOK, ScriptSide, g

\* FindInternal may drop an exception, which changes nothing else.
LEMMA ExceptionDropped ==
  ASSUME NEW f, ExternalOK(f), f.phase = "push", pending \in BOOLEAN,
         NEW i \in 1 .. Len(f.sig.params)
  PROVE  LET g == FindInternalDrops(f, f.sig.params[i]) IN
         /\ ExternalOK(g) /\ g.phase = "push" /\ Pushed(g) = Pushed(f)
         /\ g.sig = f.sig /\ g.args = f.args /\ g.kind = f.kind
<1> DEFINE kind == f.sig.params[i]
           g == FindInternalDrops(f, kind)
<1>1. f \in ExternalFrames /\ f.sig \in Signatures
  BY DEF ExternalOK, ExternalFrames
<1>2. /\ g.kind = f.kind /\ g.sig = f.sig /\ g.args = f.args /\ g.phase = f.phase
      /\ g.hidden = f.hidden /\ g.storage = f.storage /\ g.params = f.params
      /\ g.refIndices = f.refIndices /\ g.result = f.result /\ g.view = f.view
  BY <1>1 DEF FindInternalDrops, ExternalFrames
<1>3. g \in ExternalFrames
  BY <1>1 DEF FindInternalDrops, ExternalFrames
<1>4. g.swallowed => "func" \in ToSet(g.sig.params)
  <2>1. i \in DOMAIN f.sig.params
    BY <1>1, RefsFinite
  <2>2. kind = "func" => "func" \in ToSet(f.sig.params)
    BY <2>1 DEF ToSet
  <2>3. g.swallowed => f.swallowed \/ kind = "func"
    BY <1>1 DEF FindInternalDrops, ExternalFrames
  <2> QED BY <1>2, <2>2, <2>3 DEF ExternalOK
<1> HIDE DEF g
<1>5. ParametersApart(g) /\ IndicesNoted(g) /\ Pushed(g) = Pushed(f)
  BY <1>2 DEF ExternalOK, ParametersApart, IndicesNoted, Pushed, Cell
<1> QED BY <1>2, <1>3, <1>4, <1>5 DEF ExternalOK, g

\* One more parameter is pushed.
PushedFrame(f, kind, item) ==
    IF kind = "ref" THEN PushObjectAsRefParam(NotedIndex(f), item)
                    ELSE PushObjectAsParam(f, kind, item)

LEMMA ParamPushed ==
  ASSUME NEW f, ExternalOK(f), f.phase = "push",
         NEW i, i = Pushed(f) + 1, i <= Len(f.sig.params), f.args[i] # Bad
  PROVE  LET g == PushedFrame(f, f.sig.params[i], f.args[i])
         IN  ExternalOK(g) /\ ScriptSide(g)
<1> DEFINE kind == f.sig.params[i]
           item == f.args[i]
           n == Pushed(f)
           cell == IF kind \in InRegister THEN 0 ELSE Len(f.storage) + 1
           p == [cell |-> cell, value |-> IF kind \in InRegister THEN item ELSE None]
           g == PushedFrame(f, kind, item)
<1>1. f \in ExternalFrames
  BY DEF ExternalOK
<1>2. /\ f.sig \in Signatures /\ f.args \in Seq(AllValues) /\ f.storage \in Seq(AllValues)
      /\ f.params \in Seq([cell : Nat, value : AllValues]) /\ f.refIndices \in Seq(Nat)
      /\ f.hidden \in {0, 1} /\ f.kind = "external" /\ f.view = f.args
  BY <1>1 DEF ExternalFrames, ExternalOK
<1>3. n \in Nat /\ Len(f.params) = f.hidden + n /\ i \in 1 .. Len(f.sig.params)
  <2>1. n \in 0 .. Len(f.sig.params) /\ Len(f.sig.params) \in Nat
    BY <1>2, RefsFinite DEF ExternalOK
  <2>2. Len(f.params) \in Nat
    BY <1>2
  <2>3. Len(f.params) = f.hidden + n
    BY <1>2, <2>2 DEF Pushed
  <2> QED BY <2>1, <2>3
<1>4. kind \in Kinds /\ item \in AllValues /\ None \in AllValues /\ Len(f.args) = Len(f.sig.params)
  BY <1>2, <1>3, RefsFinite DEF ExternalOK, AllValues
<1>5. /\ g.kind = f.kind /\ g.sig = f.sig /\ g.args = f.args /\ g.phase = f.phase
      /\ g.hidden = f.hidden /\ g.result = f.result /\ g.view = f.view /\ g.gave = f.gave
      /\ g.swallowed = f.swallowed
      /\ g.params = Append(f.params, p)
      /\ g.storage = IF kind \in InRegister THEN f.storage ELSE Append(f.storage, item)
      /\ g.refIndices = IF kind = "ref" THEN Append(f.refIndices, Len(f.storage) + 1)
                                        ELSE f.refIndices
  BY <1>1, <1>4 DEF PushedFrame, PushObjectAsRefParam, PushObjectAsParam, NotedIndex,
                    ExternalFrames, Kinds, InRegister
<1>6. g \in ExternalFrames
  <2>1. p \in [cell : Nat, value : AllValues]
    BY <1>2, <1>4
  <2>2. g.params \in Seq([cell : Nat, value : AllValues])
    BY <1>2, <1>5, <2>1
  <2>3. g.storage \in Seq(AllValues) /\ g.refIndices \in Seq(Nat)
    BY <1>2, <1>4, <1>5
  <2>4. g = [f EXCEPT !.params = g.params, !.storage = g.storage, !.refIndices = g.refIndices]
    BY <1>1, <1>4 DEF PushedFrame, PushObjectAsRefParam, PushObjectAsParam, NotedIndex,
                      ExternalFrames, Kinds
  <2> HIDE DEF g
  <2> QED BY <1>1, <2>2, <2>3, <2>4 DEF ExternalFrames
<1> HIDE DEF g
<1>7. /\ Len(g.params) = f.hidden + n + 1 /\ g.params[g.hidden + i] = p
      /\ \A k \in 1 .. n : g.params[g.hidden + k] = f.params[f.hidden + k]
      /\ \A k \in 1 .. Len(f.params) : g.params[k] = f.params[k]
  <2> DEFINE R == [cell : Nat, value : AllValues]
  <2>1. p \in R
    BY <1>2, <1>4
  <2>2. g.params = Append(f.params, p) /\ f.params \in Seq(R) /\ g.hidden = f.hidden
    BY <1>2, <1>5
  <2>3. f.hidden \in Nat /\ i = n + 1 /\ n \in Nat /\ Len(f.params) = f.hidden + n
    BY <1>2, <1>3
  <2> HIDE DEF p, R, n
  <2>4. /\ Len(g.params) = Len(f.params) + 1 /\ g.params[Len(f.params) + 1] = p
        /\ \A k \in 1 .. Len(f.params) : g.params[k] = f.params[k]
    BY <2>1, <2>2, AppendProperties
  <2>5. \A k \in 1 .. n : f.hidden + k \in 1 .. Len(f.params)
    BY <2>3
  <2>6. f.hidden + i = Len(f.params) + 1 /\ Len(f.params) + 1 = f.hidden + n + 1
    BY <2>3
  <2>7. g.params[g.hidden + i] = p /\ Len(g.params) = f.hidden + n + 1
    BY <2>2, <2>4, <2>6
  <2>8. \A k \in 1 .. n : g.params[g.hidden + k] = f.params[f.hidden + k]
    BY <2>2, <2>4, <2>5
  <2> QED BY <2>4, <2>7, <2>8
<1>8. /\ Len(f.storage) \in Nat /\ Len(g.storage) >= Len(f.storage)
      /\ \A c \in 1 .. Len(f.storage) : g.storage[c] = f.storage[c]
      /\ kind \notin InRegister => Len(g.storage) = Len(f.storage) + 1
                           /\ g.storage[Len(f.storage) + 1] = item
  BY <1>2, <1>5
<1>9. Pushed(g) = n + 1 /\ Cell(g, i) = cell /\ \A k \in 1 .. n : Cell(g, k) = Cell(f, k)
  <2>1. Pushed(g) = n + 1
    BY <1>2, <1>3, <1>5, <1>7 DEF Pushed
  <2>2. Cell(g, i) = cell
    BY <1>7 DEF Cell
  <2>3. \A k \in 1 .. n : Cell(g, k) = Cell(f, k)
    BY <1>7 DEF Cell
  <2> QED BY <2>1, <2>2, <2>3
<1>10. ParametersApart(g)
  <2>1. ParametersApart(f)
    BY DEF ExternalOK
  <2>2. \A k \in 1 .. n : Cell(f, k) = 0 \/ Cell(f, k) \in 1 .. Len(f.storage)
    <3>1. ASSUME NEW k \in 1 .. n, f.sig.params[k] \notin InRegister
          PROVE  Cell(f, k) \in f.hidden + 1 .. Len(f.storage)
      BY <2>1, <3>1 DEF ParametersApart
    <3>2. ASSUME NEW k \in 1 .. n, f.sig.params[k] \in InRegister
          PROVE  Cell(f, k) = 0
      BY <2>1, <3>2 DEF ParametersApart
    <3>3. \A c : c \in f.hidden + 1 .. Len(f.storage) => c \in 1 .. Len(f.storage)
      BY <1>2
    <3> HIDE DEF n
    <3> QED BY <3>1, <3>2, <3>3
  <2>3. ASSUME NEW k \in 1 .. Pushed(g)
        PROVE  /\ g.sig.params[k] \in InRegister =>
                    Cell(g, k) = 0 /\ g.params[g.hidden + k].value = g.view[k]
               /\ g.sig.params[k] \notin InRegister =>
                    /\ Cell(g, k) \in g.hidden + 1 .. Len(g.storage)
                    /\ g.storage[Cell(g, k)] = g.view[k]
               /\ g.view[k] # Bad
    <3>1. CASE k = i
      <4>1. kind \notin InRegister => Len(f.storage) >= f.hidden
        BY <1>2, <1>8 DEF ExternalOK
      <4>2. g.view[k] = item /\ item # Bad /\ g.sig.params[k] = kind
        BY <1>2, <1>5, <3>1
      <4>3. kind \in InRegister => Cell(g, k) = 0 /\ g.params[g.hidden + k].value = item
        BY <1>7, <1>9, <3>1
      <4>4. ASSUME kind \notin InRegister
            PROVE  Cell(g, k) \in g.hidden + 1 .. Len(g.storage) /\ g.storage[Cell(g, k)] = item
        BY <1>2, <1>5, <1>8, <1>9, <3>1, <4>1, <4>4
      <4> QED BY <4>2, <4>3, <4>4
    <3>2. CASE k # i
      <4>1. k \in 1 .. n
        BY <1>3, <1>9, <3>2
      <4>2. /\ f.sig.params[k] \in InRegister =>
                    Cell(f, k) = 0 /\ f.params[f.hidden + k].value = f.view[k]
            /\ f.sig.params[k] \notin InRegister =>
                    /\ Cell(f, k) \in f.hidden + 1 .. Len(f.storage)
                    /\ f.storage[Cell(f, k)] = f.view[k]
            /\ f.view[k] # Bad
        BY <2>1, <4>1 DEF ParametersApart
      <4>3. Cell(g, k) = Cell(f, k) /\ g.params[g.hidden + k] = f.params[f.hidden + k]
        BY <1>7, <1>9, <4>1
      <4>4. ASSUME Cell(f, k) \in f.hidden + 1 .. Len(f.storage)
            PROVE  /\ Cell(f, k) \in g.hidden + 1 .. Len(g.storage)
                   /\ g.storage[Cell(f, k)] = f.storage[Cell(f, k)]
        BY <1>2, <1>5, <1>6, <1>8, <4>4 DEF ExternalFrames
      <4> QED BY <1>5, <4>2, <4>3, <4>4
    <3> QED BY <3>1, <3>2
  <2>4. ASSUME NEW k \in 1 .. Pushed(g), NEW m \in 1 .. Pushed(g),
               Cell(g, k) = Cell(g, m), Cell(g, k) # 0
        PROVE  k = m
    <3>1. \A x, y \in 1 .. n : Cell(f, x) = Cell(f, y) /\ Cell(f, x) # 0 => x = y
      BY <2>1 DEF ParametersApart
    <3>2. \A x \in 1 .. n : Cell(f, x) # Len(f.storage) + 1
      BY <2>2, <1>8
    <3>3. (k \in 1 .. n \/ k = i) /\ (m \in 1 .. n \/ m = i)
      BY <1>3, <1>9
    <3> QED BY <1>9, <2>4, <3>1, <3>2, <3>3
  <2> QED BY <2>3, <2>4 DEF ParametersApart
<1>11. IndicesNoted(g)
  <2>1. /\ Len(f.refIndices) = Ordinal(f.sig, n)
        /\ \A k \in Refs(f.sig) : k <= n => f.refIndices[Ordinal(f.sig, k)] = Cell(f, k)
    BY DEF ExternalOK, IndicesNoted
  <2>2. i \in Refs(f.sig) <=> kind = "ref"
    BY <1>2, <1>3, RefsFinite DEF Refs
  <2>3. Ordinal(f.sig, i) = IF kind = "ref" THEN Ordinal(f.sig, n) + 1 ELSE Ordinal(f.sig, n)
    BY <1>2, <1>3, <2>2, OrdinalStep
  <2>4. Ordinal(f.sig, n) \in Nat
    BY <1>2, <1>3, OrdinalBounds
  <2>5. Len(g.refIndices) = Ordinal(g.sig, Pushed(g))
    BY <1>2, <1>5, <1>9, <2>1, <2>3, <2>4
  <2>6. ASSUME NEW k \in Refs(f.sig), k <= n
        PROVE  g.refIndices[Ordinal(f.sig, k)] = Cell(g, k)
    <3>1. k \in 1 .. n
      BY <1>2, <1>3, <2>6, RefsFinite
    <3>2. Ordinal(f.sig, k) \in 1 .. Ordinal(f.sig, n)
      BY <1>2, <1>3, <2>6, <3>1, OrdinalApart, OrdinalBounds
    <3>3. g.refIndices[Ordinal(f.sig, k)] = f.refIndices[Ordinal(f.sig, k)]
      BY <1>2, <1>5, <2>1, <2>4, <3>2
    <3> QED BY <1>9, <2>1, <2>6, <3>1, <3>3
  <2>7. ASSUME kind = "ref"
        PROVE  g.refIndices[Ordinal(f.sig, i)] = Cell(g, i)
    BY <1>2, <1>5, <1>9, <2>1, <2>3, <2>4, <2>7 DEF InRegister
  <2>8. \A k \in Refs(f.sig) : k <= n + 1 => k <= n \/ k = i
    BY <1>2, <1>3, RefsFinite
  <2> QED BY <1>5, <1>9, <2>2, <2>5, <2>6, <2>7, <2>8 DEF IndicesNoted
<1>12. Pushed(g) \in 0 .. Len(g.sig.params)
  BY <1>3, <1>5, <1>9
<1>13. g.hidden = 1 => g.params[1].cell = 1 /\ Len(g.storage) >= 1
  BY <1>2, <1>3, <1>5, <1>7, <1>8 DEF ExternalOK
<1>14. Len(g.args) = Len(g.sig.params) /\ Len(g.view) = Len(g.sig.params) /\ g.view = g.args
  BY <1>5, <1>2 DEF ExternalOK
<1> QED BY <1>2, <1>5, <1>6, <1>10, <1>11, <1>12, <1>13, <1>14 DEF ExternalOK, ScriptSide, g

\* An early return after an exception, and the call of the function.
LEMMA ExternalThrows ==
  ASSUME NEW f, ExternalOK(f)
  PROVE  LET g == [f EXCEPT !.phase = "done", !.result = <<Bad>>]
         IN  ExternalOK(g) /\ g.kind = "external" /\ g.phase = "done"
<1> DEFINE g == [f EXCEPT !.phase = "done", !.result = <<Bad>>]
<1>1. f \in ExternalFrames
  BY DEF ExternalOK
<1>2. /\ g.kind = "external" /\ g.sig = f.sig /\ g.args = f.args /\ g.phase = "done"
      /\ g.hidden = f.hidden /\ g.storage = f.storage /\ g.params = f.params
      /\ g.refIndices = f.refIndices /\ g.result = <<Bad>> /\ g.view = f.view
      /\ g.swallowed = f.swallowed
  BY <1>1 DEF ExternalFrames
<1>3. g \in ExternalFrames
  <2>1. <<Bad>> \in Seq(AllValues)
    BY DEF AllValues, JsValues
  <2> QED BY <1>1, <2>1 DEF ExternalFrames
<1> HIDE DEF g
<1>4. ParametersApart(g) /\ IndicesNoted(g) /\ Pushed(g) = Pushed(f)
  BY <1>2 DEF ExternalOK, ParametersApart, IndicesNoted, Pushed, Cell
<1> QED BY <1>2, <1>3, <1>4 DEF ExternalOK, g

LEMMA FunctionCalled ==
  ASSUME NEW f, ExternalOK(f), Len(f.params) = f.hidden + Len(f.sig.params)
  PROVE  LET g == [f EXCEPT !.phase = "native"]
         IN  ExternalOK(g) /\ g.kind = "external" /\ g.phase = "native"
<1> DEFINE g == [f EXCEPT !.phase = "native"]
<1>1. f \in ExternalFrames
  BY DEF ExternalOK
<1>2. /\ g.kind = "external" /\ g.sig = f.sig /\ g.args = f.args /\ g.phase = "native"
      /\ g.hidden = f.hidden /\ g.storage = f.storage /\ g.params = f.params
      /\ g.refIndices = f.refIndices /\ g.result = f.result /\ g.view = f.view
      /\ g.swallowed = f.swallowed
  BY <1>1 DEF ExternalFrames
<1>3. g \in ExternalFrames
  BY <1>1 DEF ExternalFrames
<1> HIDE DEF g
<1>4. ParametersApart(g) /\ IndicesNoted(g) /\ Pushed(g) = Pushed(f)
  BY <1>2 DEF ExternalOK, ParametersApart, IndicesNoted, Pushed, Cell
<1>5. Pushed(f) = Len(f.sig.params)
  BY <1>1, RefsFinite DEF ExternalFrames, Pushed
<1> QED BY <1>2, <1>3, <1>4, <1>5 DEF ExternalOK, g

\* Where the parameters of a running function are.
LEMMA ParametersFound ==
  ASSUME NEW f, ExternalOK(f), f.phase \in {"native", "collect"}
  PROVE  /\ Len(f.sig.params) \in Nat /\ Len(f.storage) \in Nat /\ f.hidden \in Nat
         /\ DOMAIN f.storage = 1 .. Len(f.storage) /\ DOMAIN f.view = 1 .. Len(f.sig.params)
         /\ Len(f.params) = f.hidden + Len(f.sig.params)
         /\ \A i \in 1 .. Len(f.sig.params) :
              \/ f.sig.params[i] \in InRegister /\ Cell(f, i) = 0
              \/ f.sig.params[i] \notin InRegister /\ Cell(f, i) \in f.hidden + 1 .. Len(f.storage)
<1>1. /\ f.sig \in Signatures /\ f.storage \in Seq(AllValues) /\ f.hidden \in {0, 1}
      /\ f.view \in Seq(AllValues) /\ f.params \in Seq([cell : Nat, value : AllValues])
  BY DEF ExternalOK, ExternalFrames
<1>2. Pushed(f) = Len(f.sig.params) /\ ParametersApart(f) /\ Len(f.view) = Len(f.sig.params)
  BY DEF ExternalOK
<1>3. Len(f.sig.params) \in Nat /\ Len(f.storage) \in Nat
  BY <1>1, RefsFinite
<1>4. Len(f.params) = f.hidden + Len(f.sig.params)
  BY <1>1, <1>2, <1>3 DEF Pushed
<1>5. ASSUME NEW i \in 1 .. Len(f.sig.params)
      PROVE  \/ f.sig.params[i] \in InRegister /\ Cell(f, i) = 0
             \/ f.sig.params[i] \notin InRegister /\ Cell(f, i) \in f.hidden + 1 .. Len(f.storage)
  BY <1>2, <1>5 DEF ParametersApart
<1> QED BY <1>1, <1>2, <1>3, <1>4, <1>5

\* The function stores to one of its parameters: the cells are distinct.
LEMMA FunctionStores ==
  ASSUME NEW f, ExternalOK(f), f.phase = "native",
         NEW i, i \in Refs(f.sig), NEW v \in AllValues, v # Bad
  PROVE  LET g == [f EXCEPT !.storage[f.params[f.hidden + i].cell] = v, !.view[i] = v]
         IN  ExternalOK(g) /\ g.kind = "external" /\ g.phase = "native"
<1> DEFINE g == [f EXCEPT !.storage[f.params[f.hidden + i].cell] = v, !.view[i] = v]
<1>1. f \in ExternalFrames /\ f.sig \in Signatures /\ f.storage \in Seq(AllValues)
      /\ f.view \in Seq(AllValues) /\ f.kind = "external"
  BY DEF ExternalOK, ExternalFrames
<1>2. /\ g.kind = "external" /\ g.sig = f.sig /\ g.args = f.args /\ g.phase = "native"
      /\ g.hidden = f.hidden /\ g.params = f.params
      /\ g.refIndices = f.refIndices /\ g.result = f.result /\ g.swallowed = f.swallowed
      /\ g.storage = [f.storage EXCEPT ![Cell(f, i)] = v] /\ g.view = [f.view EXCEPT ![i] = v]
  BY <1>1 DEF ExternalFrames, Cell
<1>3. i \in 1 .. Len(f.sig.params) /\ f.sig.params[i] \notin InRegister
  BY <1>1, RefsFinite DEF Refs, InRegister
<1>4. Cell(f, i) \in f.hidden + 1 .. Len(f.storage) /\ Cell(f, i) \in 1 .. Len(f.storage)
  BY <1>3, ParametersFound
<1>5. /\ g.storage \in Seq(AllValues) /\ Len(g.storage) = Len(f.storage)
      /\ \A c \in 1 .. Len(f.storage) : g.storage[c] = IF c = Cell(f, i) THEN v ELSE f.storage[c]
  <2>1. g.storage = [f.storage EXCEPT ![Cell(f, i)] = v]
    BY <1>2
  <2> HIDE DEF g
  <2> QED BY <1>1, <1>4, <2>1, ExceptSeq
<1>6. /\ g.view \in Seq(AllValues) /\ Len(g.view) = Len(f.view)
      /\ \A k \in 1 .. Len(f.sig.params) : g.view[k] = IF k = i THEN v ELSE f.view[k]
  BY <1>1, <1>2, <1>3 DEF ExternalOK
<1>7. g \in ExternalFrames
  <2>1. g = [f EXCEPT !.storage = g.storage, !.view = g.view]
    BY <1>1 DEF ExternalFrames
  <2> HIDE DEF g
  <2> QED BY <1>1, <1>5, <1>6, <2>1 DEF ExternalFrames
<1> HIDE DEF g
<1>8. \A k : Cell(g, k) = Cell(f, k) /\ Pushed(g) = Pushed(f)
  BY <1>2 DEF Cell, Pushed
<1>9. IndicesNoted(g)
  BY <1>2, <1>8 DEF ExternalOK, IndicesNoted
<1>10. ParametersApart(f) /\ Pushed(f) = Len(f.sig.params)
  BY DEF ExternalOK
<1>11. ParametersApart(g)
  <2>1. ASSUME NEW k \in 1 .. Pushed(g)
        PROVE  /\ g.sig.params[k] \in InRegister =>
                    Cell(g, k) = 0 /\ g.params[g.hidden + k].value = g.view[k]
               /\ g.sig.params[k] \notin InRegister =>
                    /\ Cell(g, k) \in g.hidden + 1 .. Len(g.storage)
                    /\ g.storage[Cell(g, k)] = g.view[k]
               /\ g.view[k] # Bad
    <3>1. k \in 1 .. Pushed(f) /\ k \in 1 .. Len(f.sig.params)
      BY <1>8, <1>10
    <3>2. /\ f.sig.params[k] \in InRegister =>
                  Cell(f, k) = 0 /\ f.params[f.hidden + k].value = f.view[k]
          /\ f.sig.params[k] \notin InRegister =>
                  /\ Cell(f, k) \in f.hidden + 1 .. Len(f.storage)
                  /\ f.storage[Cell(f, k)] = f.view[k]
          /\ f.view[k] # Bad
      BY <1>10, <3>1 DEF ParametersApart
    <3>3. CASE k = i
      BY <1>2, <1>3, <1>4, <1>5, <1>6, <1>8, <3>1, <3>3
    <3>4. CASE k # i
      <4>1. g.view[k] = f.view[k]
        BY <1>6, <3>1, <3>4
      <4>2. ASSUME f.sig.params[k] \notin InRegister
            PROVE  g.storage[Cell(f, k)] = f.storage[Cell(f, k)]
        <5>1. Cell(f, k) # Cell(f, i)
          <6>1. Cell(f, i) # 0 /\ i \in 1 .. Pushed(f)
            BY <1>3, <1>4, <1>10
          <6> QED BY <1>10, <3>1, <3>4, <6>1 DEF ParametersApart
        <5>2. Cell(f, k) \in 1 .. Len(f.storage)
          BY <3>1, <4>2, ParametersFound
        <5> QED BY <1>5, <5>1, <5>2
      <4> QED BY <1>2, <1>5, <1>8, <3>2, <4>1, <4>2
    <3> QED BY <3>3, <3>4
  <2>2. \A k, m \in 1 .. Pushed(g) : Cell(g, k) = Cell(g, m) /\ Cell(g, k) # 0 => k = m
    BY <1>8, <1>10 DEF ParametersApart
  <2> QED BY <2>1, <2>2 DEF ParametersApart
<1>12. g.hidden = 1 => g.params[1].cell = 1 /\ Len(g.storage) >= 1
  BY <1>2, <1>5 DEF ExternalOK
<1> QED BY <1>2, <1>5, <1>6, <1>7, <1>8, <1>9, <1>10, <1>11, <1>12 DEF ExternalOK, g

\* The function returns: a hidden return value goes to the first cell.
LEMMA FunctionReturns ==
  ASSUME NEW f, ExternalOK(f), f.phase = "native", NEW v \in AllValues
  PROVE  LET g == [f EXCEPT !.phase = "collect", !.gave = v,
                     !.storage = IF f.hidden = 1 THEN [@ EXCEPT ![f.params[1].cell] = v] ELSE @,
                     !.result = <<v>>]
         IN  ExternalOK(g) /\ g.kind = "external" /\ g.phase = "collect"
<1> DEFINE store == IF f.hidden = 1 THEN [f.storage EXCEPT ![f.params[1].cell] = v] ELSE f.storage
           g == [f EXCEPT !.phase = "collect", !.gave = v,
                   !.storage = IF f.hidden = 1 THEN [@ EXCEPT ![f.params[1].cell] = v] ELSE @,
                   !.result = <<v>>]
<1>1. f \in ExternalFrames /\ f.sig \in Signatures /\ f.storage \in Seq(AllValues)
      /\ f.view \in Seq(AllValues) /\ f.kind = "external" /\ f.hidden \in {0, 1}
  BY DEF ExternalOK, ExternalFrames
<1>2. /\ g.kind = "external" /\ g.sig = f.sig /\ g.args = f.args /\ g.phase = "collect"
      /\ g.hidden = f.hidden /\ g.params = f.params /\ g.refIndices = f.refIndices
      /\ g.result = <<v>> /\ g.gave = v /\ g.view = f.view /\ g.storage = store
      /\ g.swallowed = f.swallowed
  BY <1>1 DEF ExternalFrames
<1>3. f.hidden = 1 => f.params[1].cell = 1 /\ Len(f.storage) >= 1
  BY DEF ExternalOK
<1>4. /\ store \in Seq(AllValues) /\ Len(store) = Len(f.storage)
      /\ \A c \in 1 .. Len(f.storage) : c > f.hidden => store[c] = f.storage[c]
  <2>1. CASE f.hidden = 1
    <3>1. 1 \in 1 .. Len(f.storage) /\ store = [f.storage EXCEPT ![1] = v]
      BY <1>1, <1>3, <2>1
    <3> HIDE DEF store
    <3>2. /\ store \in Seq(AllValues) /\ Len(store) = Len(f.storage)
          /\ \A c \in 1 .. Len(f.storage) : store[c] = IF c = 1 THEN v ELSE f.storage[c]
      BY <1>1, <3>1, ExceptSeq
    <3> QED BY <2>1, <3>2
  <2>2. CASE f.hidden # 1
    BY <1>1, <2>2
  <2> QED BY <2>1, <2>2
<1>5. g \in ExternalFrames
  <2>1. g = [f EXCEPT !.phase = "collect", !.gave = v, !.storage = store, !.result = <<v>>]
    BY <1>1 DEF ExternalFrames
  <2>2. <<v>> \in Seq(AllValues)
    OBVIOUS
  <2> HIDE DEF g, store
  <2> QED BY <1>1, <1>4, <2>1, <2>2 DEF ExternalFrames
<1> HIDE DEF g, store
<1>6. \A k : Cell(g, k) = Cell(f, k) /\ Pushed(g) = Pushed(f)
  BY <1>2 DEF Cell, Pushed
<1>7. IndicesNoted(g)
  BY <1>2, <1>6 DEF ExternalOK, IndicesNoted
<1>8. ParametersApart(f) /\ Pushed(f) = Len(f.sig.params)
  BY DEF ExternalOK
<1>9. ParametersApart(g)
  <2>1. ASSUME NEW k \in 1 .. Pushed(g)
        PROVE  /\ g.sig.params[k] \in InRegister =>
                    Cell(g, k) = 0 /\ g.params[g.hidden + k].value = g.view[k]
               /\ g.sig.params[k] \notin InRegister =>
                    /\ Cell(g, k) \in g.hidden + 1 .. Len(g.storage)
                    /\ g.storage[Cell(g, k)] = g.view[k]
               /\ g.view[k] # Bad
    <3>1. k \in 1 .. Pushed(f)
      BY <1>6
    <3>2. /\ f.sig.params[k] \in InRegister =>
                  Cell(f, k) = 0 /\ f.params[f.hidden + k].value = f.view[k]
          /\ f.sig.params[k] \notin InRegister =>
                  /\ Cell(f, k) \in f.hidden + 1 .. Len(f.storage)
                  /\ f.storage[Cell(f, k)] = f.view[k]
          /\ f.view[k] # Bad
      BY <1>8, <3>1 DEF ParametersApart
    <3>3. ASSUME Cell(f, k) \in f.hidden + 1 .. Len(f.storage)
          PROVE  store[Cell(f, k)] = f.storage[Cell(f, k)]
      <4>1. Cell(f, k) \in 1 .. Len(f.storage) /\ Cell(f, k) > f.hidden
        BY <1>1, <3>3
      <4> QED BY <1>4, <4>1
    <3> QED BY <1>2, <1>4, <1>6, <3>2, <3>3
  <2>2. \A k, m \in 1 .. Pushed(g) : Cell(g, k) = Cell(g, m) /\ Cell(g, k) # 0 => k = m
    BY <1>6, <1>8 DEF ParametersApart
  <2> QED BY <2>1, <2>2 DEF ParametersApart
<1>10. g.hidden = 1 => g.params[1].cell = 1 /\ Len(g.storage) >= 1
  BY <1>2, <1>3, <1>4
<1> QED BY <1>2, <1>5, <1>6, <1>7, <1>8, <1>9, <1>10 DEF ExternalOK, g

\* The reference parameters are collected at their indices: in their order.
LEMMA RefsCollected ==
  ASSUME NEW f, ExternalOK(f), f.phase = "collect"
  PROVE  LET refs == [j \in 1 .. RefCount(f.sig) |-> StorageValueToObject(f, j)]
             g == [f EXCEPT !.phase = "done", !.result = @ \o refs]
         IN  ExternalOK(g) /\ g.kind = "external" /\ g.phase = "done"
<1> DEFINE refs == [j \in 1 .. RefCount(f.sig) |-> StorageValueToObject(f, j)]
           g == [f EXCEPT !.phase = "done", !.result = @ \o refs]
<1>1. f \in ExternalFrames /\ f.sig \in Signatures /\ f.storage \in Seq(AllValues)
      /\ f.view \in Seq(AllValues) /\ f.kind = "external" /\ f.gave \in AllValues
      /\ f.result = <<f.gave>>
  BY DEF ExternalOK, ExternalFrames
<1>2. RefCount(f.sig) \in Nat
  BY <1>1, RefsFinite
<1>3. ASSUME NEW i \in Refs(f.sig)
      PROVE  /\ Ordinal(f.sig, i) \in 1 .. RefCount(f.sig)
             /\ refs[Ordinal(f.sig, i)] = f.view[i] /\ f.view[i] \in AllValues
  <2>1. Ordinal(f.sig, i) \in 1 .. RefCount(f.sig)
    BY <1>1, OrdinalApart
  <2>2. i \in 1 .. Len(f.sig.params) /\ f.sig.params[i] \notin InRegister
    BY <1>1, RefsFinite DEF Refs, InRegister
  <2>3. Pushed(f) = Len(f.sig.params) /\ i <= Pushed(f) /\ i \in 1 .. Pushed(f)
    BY <1>1, <2>2, RefsFinite DEF ExternalOK
  <2>4. f.refIndices[Ordinal(f.sig, i)] = Cell(f, i)
    BY <2>3 DEF ExternalOK, IndicesNoted
  <2>5. f.storage[Cell(f, i)] = f.view[i]
    BY <2>2, <2>3 DEF ExternalOK, ParametersApart
  <2>6. refs[Ordinal(f.sig, i)] = f.view[i]
    BY <2>1, <2>4, <2>5 DEF StorageValueToObject
  <2>7. f.view[i] \in AllValues
    BY <1>1, <2>2 DEF ExternalOK
  <2> QED BY <2>1, <2>6, <2>7
<1>4. refs \in Seq(AllValues) /\ Len(refs) = RefCount(f.sig)
  <2>1. \A j \in 1 .. RefCount(f.sig) : refs[j] \in AllValues
    <3> HIDE DEF refs
    <3>1. TAKE j \in 1 .. RefCount(f.sig)
    <3>2. PICK i \in Refs(f.sig) : Ordinal(f.sig, i) = j
      BY <1>1, OrdinalOnto
    <3> QED BY <1>3, <3>2
  <2>2. refs \in [1 .. RefCount(f.sig) -> AllValues]
    BY <2>1
  <2> HIDE DEF refs
  <2> QED BY <1>2, <2>2
<1>5. /\ g.kind = "external" /\ g.sig = f.sig /\ g.args = f.args /\ g.phase = "done"
      /\ g.hidden = f.hidden /\ g.params = f.params /\ g.refIndices = f.refIndices
      /\ g.gave = f.gave /\ g.view = f.view /\ g.storage = f.storage
      /\ g.swallowed = f.swallowed
      /\ g.result = <<f.gave>> \o refs
  BY <1>1 DEF ExternalFrames
<1>6. g = [f EXCEPT !.phase = "done", !.result = g.result]
  BY <1>1 DEF ExternalFrames
<1> HIDE DEF g, refs
<1>7. /\ g.result \in Seq(AllValues) /\ Len(g.result) = 1 + RefCount(f.sig)
      /\ g.result[1] = f.gave
      /\ \A j \in 1 .. RefCount(f.sig) : g.result[1 + j] = refs[j]
  <2>1. <<f.gave>> \in Seq(AllValues) /\ Len(<<f.gave>>) = 1
    BY <1>1
  <2>2. /\ <<f.gave>> \o refs \in Seq(AllValues)
        /\ Len(<<f.gave>> \o refs) = 1 + RefCount(f.sig)
        /\ \A d \in 1 .. 1 + RefCount(f.sig) :
             (<<f.gave>> \o refs)[d] = IF d <= 1 THEN <<f.gave>>[d] ELSE refs[d - 1]
    BY <1>4, <2>1, ConcatProperties
  <2>3. g.result[1] = f.gave
    BY <1>2, <1>5, <2>2
  <2>4. ASSUME NEW j \in 1 .. RefCount(f.sig)
        PROVE  g.result[1 + j] = refs[j]
    <3>1. 1 + j \in 1 .. 1 + RefCount(f.sig) /\ ~ (1 + j <= 1) /\ (1 + j) - 1 = j
      BY <1>2
    <3> QED BY <1>5, <2>2, <3>1
  <2> QED BY <1>5, <2>2, <2>3, <2>4
<1>8. g \in ExternalFrames
  BY <1>1, <1>6, <1>7 DEF ExternalFrames
<1>9. ParametersApart(g) /\ IndicesNoted(g) /\ Pushed(g) = Pushed(f)
  <2>1. ParametersApart(f) /\ IndicesNoted(f)
    BY DEF ExternalOK
  <2>2. Pushed(g) = Pushed(f) /\ \A k : Cell(g, k) = Cell(f, k)
    BY <1>5 DEF Pushed, Cell
  <2>3. ParametersApart(g)
    BY <1>5, <2>1, <2>2 DEF ParametersApart
  <2> QED BY <1>5, <2>1, <2>2, <2>3 DEF IndicesNoted
<1>10. \A i \in Refs(g.sig) : g.result[1 + Ordinal(g.sig, i)] = g.view[i]
  BY <1>3, <1>5, <1>7
<1> QED BY <1>5, <1>7, <1>8, <1>9, <1>10 DEF ExternalOK, g, refs

----------------------------------------------------------------------------
\* InternalCall, one step of its frame at a time.
NewInternal(s, args) ==
    [kind |-> "internal", sig |-> s, args |-> args, phase |-> "args",
     memory |-> args, next |-> 1, result |-> <<>>, slot |-> <<>>]

LEMMA InternalBegins ==
  ASSUME NEW s \in Signatures, NEW args \in Seq(AllValues), Len(args) = Len(s.params)
  PROVE  InternalOK(NewInternal(s, args)) /\ NewInternal(s, args).phase = "args"
<1> DEFINE g == NewInternal(s, args)
<1>1. /\ g.kind = "internal" /\ g.sig = s /\ g.args = args /\ g.phase = "args"
      /\ g.memory = args /\ g.next = 1 /\ g.result = <<>> /\ g.slot = <<>>
  BY DEF NewInternal
<1>2. g \in InternalFrames
  BY DEF NewInternal, InternalFrames
<1> HIDE DEF g
<1>3. KeepsOrTakes(g)
  BY <1>1 DEF KeepsOrTakes
<1>4. RefCount(s) \in Nat
  BY RefsFinite
<1> QED BY <1>1, <1>2, <1>3, <1>4 DEF InternalOK, g

\* The frame fields an internal call may change, typed.
LEMMA InternalTyped ==
  ASSUME NEW f, InternalOK(f)
  PROVE  /\ f \in InternalFrames /\ f.kind = "internal" /\ f.sig \in Signatures
         /\ f.args \in Seq(AllValues) /\ f.memory \in Seq(AllValues) /\ f.next \in Nat
         /\ f.result \in Seq(AllValues) /\ f.slot \in Seq(AllValues)
         /\ RefCount(f.sig) \in Nat /\ f.sig.ret \in {"void", "value", "hidden"}
<1>1. f \in InternalFrames
  BY DEF InternalOK
<1>2. f.sig \in Signatures
  BY <1>1 DEF InternalFrames
<1> QED BY <1>1, <1>2, RefsFinite DEF InternalFrames

\* Every exit before the last fills the return slot with the fallback.
LEMMA FallsBack ==
  ASSUME NEW f, InternalOK(f), f.phase # "done"
  PROVE  LET g == SetFallbackReturn(f)
         IN  InternalOK(g) /\ g.kind = "internal" /\ g.phase = "done"
<1> DEFINE slot == IF f.sig.ret = "void" THEN <<>> ELSE <<Fallback>>
           g == SetFallbackReturn(f)
<1>1. f \in InternalFrames /\ f.slot = <<>>
  BY DEF InternalOK
<1>2. slot \in Seq(AllValues) /\ Len(slot) = IF f.sig.ret = "void" THEN 0 ELSE 1
  <2>1. Fallback \in AllValues
    BY DEF AllValues
  <2>2. <<Fallback>> \in Seq(AllValues) /\ Len(<<Fallback>>) = 1
    BY <2>1
  <2>3. <<>> \in Seq(AllValues) /\ Len(<<>>) = 0
    OBVIOUS
  <2> QED BY <2>2, <2>3
<1>3. g = [f EXCEPT !.phase = "done", !.slot = slot]
  BY <1>1 DEF SetFallbackReturn, InternalFrames
<1>4. /\ g.kind = "internal" /\ g.sig = f.sig /\ g.args = f.args /\ g.phase = "done"
      /\ g.memory = f.memory /\ g.next = f.next /\ g.result = f.result /\ g.slot = slot
  BY <1>1, <1>3 DEF InternalFrames
<1> HIDE DEF g, slot
<1>5. g \in InternalFrames
  BY <1>1, <1>2, <1>3 DEF InternalFrames
<1>6. KeepsOrTakes(g)
  BY <1>4 DEF InternalOK, KeepsOrTakes
<1> QED BY <1>2, <1>4, <1>5, <1>6 DEF InternalOK, g

\* The arguments became objects; the function runs.
LEMMA ScriptStarts ==
  ASSUME NEW f, InternalOK(f), f.phase = "args"
  PROVE  LET g == [f EXCEPT !.phase = "script"] IN InternalOK(g) /\ ScriptSide(g)
<1> DEFINE g == [f EXCEPT !.phase = "script"]
<1>1. f \in InternalFrames
  BY DEF InternalOK
<1>2. /\ g.kind = "internal" /\ g.sig = f.sig /\ g.args = f.args /\ g.phase = "script"
      /\ g.memory = f.memory /\ g.next = f.next /\ g.result = f.result /\ g.slot = f.slot
  BY <1>1 DEF InternalFrames
<1>3. g \in InternalFrames
  BY <1>1 DEF InternalFrames
<1> HIDE DEF g
<1>4. KeepsOrTakes(g)
  BY <1>2 DEF InternalOK, KeepsOrTakes
<1> QED BY <1>2, <1>3, <1>4 DEF InternalOK, ScriptSide, g

\* The function returned, an array of the right length if there are references.
LEMMA ResultTaken ==
  ASSUME NEW f, InternalOK(f), f.phase = "script",
         NEW result \in Seq(AllValues), NEW phase \in {"return", "refs"},
         \A m \in DOMAIN result : result[m] \in {Tag("js", m - 1), Bad},
         phase = "return" => Len(result) >= 1,
         phase = "refs" => Len(result) = 1 + RefCount(f.sig) /\ RefCount(f.sig) # 0
  PROVE  LET g == [f EXCEPT !.phase = phase, !.result = result]
         IN  InternalOK(g) /\ ScriptSide(g)
<1> DEFINE g == [f EXCEPT !.phase = phase, !.result = result]
<1>1. f \in InternalFrames /\ f.result = <<>> /\ f.next = 1 /\ f.slot = <<>> /\ KeepsOrTakes(f)
      /\ RefCount(f.sig) \in Nat
  BY InternalTyped DEF InternalOK
<1>2. /\ g.kind = "internal" /\ g.sig = f.sig /\ g.args = f.args /\ g.phase = phase
      /\ g.memory = f.memory /\ g.next = f.next /\ g.result = result /\ g.slot = f.slot
  BY <1>1 DEF InternalFrames
<1>3. g \in InternalFrames
  BY <1>1 DEF InternalFrames
<1> HIDE DEF g
<1>4. KeepsOrTakes(g)
  BY <1>1, <1>2 DEF KeepsOrTakes
<1> QED BY <1>1, <1>2, <1>3, <1>4 DEF InternalOK, ScriptSide, g

\* The k-th element after the return value goes to the k-th reference
\* parameter, unless it does not convert.
RefParamSet(f, stray) ==
    LET i == CHOOSE j \in Refs(f.sig) : Ordinal(f.sig, j) = f.next
        k == f.next
    IN  [SetRefParam(f, i, IF stray THEN Bad ELSE f.result[1 + k])
           EXCEPT !.next = k + 1, !.phase = IF k = RefCount(f.sig) THEN "return" ELSE "refs"]

LEMMA RefTaken ==
  ASSUME NEW f, InternalOK(f), f.phase = "refs", NEW stray \in BOOLEAN
  PROVE  InternalOK(RefParamSet(f, stray)) /\ ScriptSide(RefParamSet(f, stray))
<1> DEFINE k == f.next
           i == CHOOSE j \in Refs(f.sig) : Ordinal(f.sig, j) = k
           v == IF stray THEN Bad ELSE f.result[1 + k]
           memory == IF v = Bad THEN f.memory ELSE [f.memory EXCEPT ![i] = v]
           phase == IF k = RefCount(f.sig) THEN "return" ELSE "refs"
           g == RefParamSet(f, stray)
<1>1. /\ f \in InternalFrames /\ f.kind = "internal" /\ f.sig \in Signatures
      /\ f.args \in Seq(AllValues) /\ f.memory \in Seq(AllValues)
      /\ f.result \in Seq(AllValues) /\ RefCount(f.sig) \in Nat
  BY InternalTyped
<1>2. /\ k \in 1 .. RefCount(f.sig) /\ k \in Nat
      /\ Len(f.result) = 1 + RefCount(f.sig) /\ f.slot = <<>>
      /\ Len(f.args) = Len(f.sig.params) /\ Len(f.memory) = Len(f.args) /\ KeepsOrTakes(f)
  BY <1>1 DEF InternalOK
<1>3. i \in Refs(f.sig) /\ Ordinal(f.sig, i) = k
  <2>1. \E j \in Refs(f.sig) : Ordinal(f.sig, j) = k
    BY <1>1, <1>2, OrdinalOnto
  <2> HIDE DEF k
  <2> QED BY <2>1
<1> HIDE DEF i
<1>4. i \in 1 .. Len(f.memory)
  BY <1>1, <1>2, <1>3, RefsFinite
<1>5. v \in {Tag("js", k), Bad} /\ v \in AllValues
  <2>1. 1 + k \in DOMAIN f.result /\ (1 + k) - 1 = k
    BY <1>1, <1>2
  <2>2. f.result[1 + k] \in {Tag("js", k), Bad}
    BY <2>1 DEF InternalOK
  <2>3. f.result[1 + k] \in AllValues
    BY <1>1, <2>1
  <2> QED BY <2>2, <2>3 DEF AllValues, JsValues
<1>6. /\ memory \in Seq(AllValues) /\ Len(memory) = Len(f.memory)
      /\ \A m \in 1 .. Len(f.memory) :
           memory[m] = f.memory[m] \/ (m = i /\ memory[m] = Tag("js", k))
  <2>1. CASE v = Bad
    <3>1. memory = f.memory
      BY <2>1
    <3> HIDE DEF memory, v
    <3> QED BY <1>1, <3>1
  <2>2. CASE v # Bad
    <3>1. memory = [f.memory EXCEPT ![i] = v] /\ v = Tag("js", k)
      BY <1>5, <2>2
    <3> HIDE DEF memory, v
    <3>2. /\ memory \in Seq(AllValues) /\ Len(memory) = Len(f.memory)
          /\ \A m \in 1 .. Len(f.memory) : memory[m] = IF m = i THEN v ELSE f.memory[m]
      BY <1>1, <1>4, <1>5, <3>1, ExceptSeq
    <3>3. \A m \in 1 .. Len(f.memory) : memory[m] = f.memory[m] \/ (m = i /\ memory[m] = v)
      BY <3>2
    <3> QED BY <3>1, <3>2, <3>3
  <2> QED BY <2>1, <2>2
<1>7. g = [f EXCEPT !.memory = memory, !.next = k + 1, !.phase = phase]
  BY <1>1 DEF RefParamSet, SetRefParam, InternalFrames, i
<1> HIDE DEF g, memory, v
<1>8. /\ g.kind = "internal" /\ g.sig = f.sig /\ g.args = f.args /\ g.phase = phase
      /\ g.memory = memory /\ g.next = k + 1 /\ g.result = f.result /\ g.slot = f.slot
  BY <1>1, <1>7 DEF InternalFrames
<1>9. g \in InternalFrames
  <2>1. k + 1 \in Nat /\ phase \in {"return", "refs"}
    BY <1>2
  <2> HIDE DEF k, phase
  <2> QED BY <1>1, <1>6, <1>7, <2>1 DEF InternalFrames
<1>10. KeepsOrTakes(g)
  <2>1. DOMAIN f.args = 1 .. Len(f.memory) /\ f.result # <<>>
    BY <1>1, <1>2
  <2>2. ASSUME NEW m \in DOMAIN f.args
        PROVE  \/ memory[m] = f.args[m]
               \/ m \in Refs(f.sig) /\ f.result # <<>> /\ memory[m] = Tag("js", Ordinal(f.sig, m))
    <3>1. CASE memory[m] = f.memory[m]
      BY <1>2, <3>1 DEF KeepsOrTakes
    <3>2. CASE m = i /\ memory[m] = Tag("js", k)
      BY <1>3, <2>1, <3>2
    <3> QED BY <1>6, <2>1, <3>1, <3>2
  <2> QED BY <1>8, <2>2 DEF KeepsOrTakes
<1>11. \A m \in DOMAIN g.result : g.result[m] \in {Tag("js", m - 1), Bad}
  BY <1>8 DEF InternalOK
<1>12. g.next \in 1 .. RefCount(g.sig) + 1 /\ (g.phase = "refs" => g.next <= RefCount(g.sig))
       /\ g.phase \in {"return", "refs"}
  BY <1>1, <1>2, <1>8
<1> QED BY <1>1, <1>2, <1>6, <1>8, <1>9, <1>10, <1>11, <1>12 DEF InternalOK, ScriptSide, g

\* The return value is the last thing the native caller gets.
LEMMA ResultGiven ==
  ASSUME NEW f, InternalOK(f), f.phase = "return"
  PROVE  LET g == SetReturn(f)
         IN  InternalOK(g) /\ g.kind = "internal" /\ g.phase = "done"
<1> DEFINE slot == IF f.sig.ret = "void" THEN <<>> ELSE <<f.result[1]>>
           g == SetReturn(f)
<1>1. f \in InternalFrames /\ f.slot = <<>> /\ f.result \in Seq(AllValues) /\ Len(f.result) >= 1
  BY DEF InternalOK, InternalFrames
<1>2. slot \in Seq(AllValues) /\ Len(slot) = IF f.sig.ret = "void" THEN 0 ELSE 1
  <2>1. f.result[1] \in AllValues
    BY <1>1
  <2>2. <<f.result[1]>> \in Seq(AllValues) /\ Len(<<f.result[1]>>) = 1
    BY <2>1
  <2>3. <<>> \in Seq(AllValues) /\ Len(<<>>) = 0
    OBVIOUS
  <2> QED BY <2>2, <2>3
<1>3. g = [f EXCEPT !.phase = "done", !.slot = slot]
  BY <1>1 DEF SetReturn, InternalFrames
<1>4. /\ g.kind = "internal" /\ g.sig = f.sig /\ g.args = f.args /\ g.phase = "done"
      /\ g.memory = f.memory /\ g.next = f.next /\ g.result = f.result /\ g.slot = slot
  BY <1>1, <1>3 DEF InternalFrames
<1> HIDE DEF g, slot
<1>5. g \in InternalFrames
  BY <1>1, <1>2, <1>3 DEF InternalFrames
<1>6. KeepsOrTakes(g)
  BY <1>4 DEF InternalOK, KeepsOrTakes
<1> QED BY <1>2, <1>4, <1>5, <1>6 DEF InternalOK, g

----------------------------------------------------------------------------
\* The whole stack: the top frame changes, a call begins, a call ends.
LEMMA StackTyped ==
  ASSUME IndInv, stack # <<>>
  PROVE  /\ Len(stack) \in Nat /\ Len(stack) >= 1 /\ DOMAIN stack = 1 .. Len(stack)
         /\ FrameOK(Top) /\ Top.kind \in {"external", "internal"}
         /\ Top.kind = "external" => ExternalOK(Top)
         /\ Top.kind = "internal" => InternalOK(Top)
         /\ Top.kind = "external" => Len(stack) > 1 /\ ScriptSide(stack[Len(stack) - 1])
<1>1. Len(stack) \in Nat /\ Len(stack) >= 1 /\ DOMAIN stack = 1 .. Len(stack)
  BY EmptySeq DEF IndInv
<1>2. FrameOK(Top)
  BY <1>1 DEF IndInv, Top
<1>3. Top.kind = "external" => Len(stack) > 1 /\ ScriptSide(stack[Len(stack) - 1])
  BY <1>1 DEF IndInv, Nested, Top
<1>4. ExternalOK(Top) => Top.kind = "external"
  BY DEF ExternalOK, ExternalFrames
<1>5. InternalOK(Top) => Top.kind = "internal"
  BY DEF InternalOK, InternalFrames
<1> QED BY <1>1, <1>2, <1>3, <1>4, <1>5 DEF FrameOK

LEMMA TopChanges ==
  ASSUME IndInv, stack # <<>>, NEW g, FrameOK(g), g.kind = Top.kind, Update(g),
         pending' \in BOOLEAN, pending' => ScriptSide(g) \/ g.phase = "done"
  PROVE  IndInv'
<1> DEFINE F == ExternalFrames \union InternalFrames
<1>1. stack \in Seq(F) /\ g \in F
  BY DEF IndInv, FrameOK, ExternalOK, InternalOK
<1>2. stack' = Append(SubSeq(stack, 1, Len(stack) - 1), g)
  BY DEF Update, Below
<1> HIDE DEF F
<1>3. /\ stack' \in Seq(F) /\ Len(stack') = Len(stack) /\ stack' # <<>> /\ stack'[Len(stack')] = g
      /\ \A d \in DOMAIN stack' : d \in DOMAIN stack /\ (d < Len(stack') => stack'[d] = stack[d])
  BY <1>1, <1>2, Replaced
<1>4. Len(stack) \in Nat /\ DOMAIN stack = 1 .. Len(stack) /\ DOMAIN stack' = 1 .. Len(stack)
  BY <1>1, <1>3
<1>5. \A d \in DOMAIN stack' : d = Len(stack) \/ d < Len(stack)
  BY <1>4
<1>6. \A d \in DOMAIN stack' : FrameOK(stack'[d])
  BY <1>3, <1>5 DEF IndInv
<1>7. ASSUME NEW d \in DOMAIN stack', stack'[d].kind = "external"
      PROVE  d > 1 /\ ScriptSide(stack'[d - 1])
  <2>1. d \in DOMAIN stack /\ stack[d].kind = "external"
    BY <1>3, <1>5, <1>7 DEF Top
  <2>2. d > 1 /\ ScriptSide(stack[d - 1])
    BY <2>1 DEF IndInv, Nested
  <2>3. d - 1 \in DOMAIN stack' /\ d - 1 < Len(stack')
    BY <1>3, <1>4, <2>2
  <2> QED BY <1>3, <2>2, <2>3
<1>8. Nested'
  BY <1>3, <1>7 DEF Nested, Top
<1> QED BY <1>3, <1>6, <1>8 DEF IndInv, F

LEMMA CallBegins ==
  ASSUME IndInv, Len(stack) < MaxDepth, NEW g, FrameOK(g), stack' = Append(stack, g),
         g.kind = "external" => stack # <<>> /\ ScriptSide(Top), pending' = FALSE
  PROVE  IndInv'
<1> DEFINE F == ExternalFrames \union InternalFrames
<1>1. stack \in Seq(F) /\ g \in F
  BY DEF IndInv, FrameOK, ExternalOK, InternalOK
<1> HIDE DEF F
<1>2. /\ stack' \in Seq(F) /\ Len(stack') = Len(stack) + 1 /\ stack'[Len(stack')] = g
      /\ DOMAIN stack' = 1 .. Len(stack) + 1
      /\ \A d \in DOMAIN stack' : d < Len(stack') => d \in DOMAIN stack /\ stack'[d] = stack[d]
  BY <1>1, Pushed1
<1>3. Len(stack) \in Nat /\ DOMAIN stack = 1 .. Len(stack) /\ (stack # <<>> => Len(stack) >= 1)
  BY <1>1
<1>4. \A d \in DOMAIN stack' : d = Len(stack') \/ d < Len(stack')
  BY <1>2, <1>3
<1>5. \A d \in DOMAIN stack' : FrameOK(stack'[d])
  BY <1>2, <1>4 DEF IndInv
<1>6. ASSUME NEW d \in DOMAIN stack', stack'[d].kind = "external"
      PROVE  d > 1 /\ ScriptSide(stack'[d - 1])
  <2>1. CASE d = Len(stack')
    <3>1. stack # <<>> /\ ScriptSide(Top) /\ d - 1 = Len(stack)
      BY <1>2, <1>3, <1>6, <2>1
    <3>2. d - 1 \in DOMAIN stack' /\ d - 1 < Len(stack') /\ d > 1
      BY <1>2, <1>3, <2>1, <3>1
    <3> QED BY <1>2, <3>1, <3>2 DEF Top
  <2>2. CASE d < Len(stack')
    <3>1. d \in DOMAIN stack /\ d > 1 /\ ScriptSide(stack[d - 1])
      BY <1>2, <1>6, <2>2 DEF IndInv, Nested
    <3>2. d - 1 \in DOMAIN stack' /\ d - 1 < Len(stack')
      BY <1>2, <1>3, <3>1
    <3> QED BY <1>2, <3>1, <3>2
  <2> QED BY <1>4, <2>1, <2>2
<1>7. Nested'
  BY <1>6 DEF Nested
<1>8. Len(stack') <= MaxDepth
  BY <1>2, <1>3, CrossCallConstants
<1> QED BY <1>2, <1>5, <1>7, <1>8 DEF IndInv, F

LEMMA CallEnds ==
  ASSUME IndInv, stack # <<>>, stack' = Below, pending' \in BOOLEAN,
         pending' => Top.kind = "external"
  PROVE  IndInv'
<1> DEFINE F == ExternalFrames \union InternalFrames
<1>1. stack \in Seq(F)
  BY DEF IndInv
<1> HIDE DEF F
<1>2. /\ stack' \in Seq(F) /\ Len(stack') = Len(stack) - 1 /\ Len(stack) \in Nat /\ Len(stack) >= 1
      /\ DOMAIN stack' = 1 .. Len(stack) - 1
      /\ \A d \in DOMAIN stack' : d \in DOMAIN stack /\ d < Len(stack) /\ stack'[d] = stack[d]
  BY <1>1, Popped DEF Below
<1>3. \A d \in DOMAIN stack' : FrameOK(stack'[d])
  BY <1>2 DEF IndInv
<1>4. ASSUME NEW d \in DOMAIN stack', stack'[d].kind = "external"
      PROVE  d > 1 /\ ScriptSide(stack'[d - 1])
  <2>1. d > 1 /\ ScriptSide(stack[d - 1])
    BY <1>2, <1>4 DEF IndInv, Nested
  <2>2. d - 1 \in DOMAIN stack'
    BY <1>2, <2>1
  <2> QED BY <1>2, <2>1, <2>2
<1>5. ASSUME pending'
      PROVE  stack' # <<>> /\ ScriptSide(stack'[Len(stack')])
  <2>1. Len(stack) > 1 /\ ScriptSide(stack[Len(stack) - 1])
    BY <1>5, StackTyped
  <2>2. Len(stack') \in DOMAIN stack' /\ Len(stack') >= 1
    BY <1>2, <2>1
  <2> QED BY <1>2, <2>1, <2>2
<1>6. Nested'
  BY <1>4, <1>5 DEF Nested, Top
<1>7. Len(stack') <= MaxDepth
  BY <1>2, CrossCallConstants DEF IndInv
<1> QED BY <1>2, <1>3, <1>6, <1>7 DEF IndInv, F

----------------------------------------------------------------------------
\* What scripts and native code pass.
LEMMA ScriptPasses ==
  ASSUME NEW n \in 0 .. MaxFuncArgs, NEW args \in ScriptArgs(n), Len(args) = n
  PROVE  args \in Seq(AllValues)
<1>1. PICK m \in {n, n + 1} : \E g \in [1 .. m -> {TRUE, FALSE}] :
          args = [i \in DOMAIN g |-> IF g[i] THEN Tag("js", i) ELSE Bad]
  BY DEF ScriptArgs, ScriptValues
<1>2. PICK g \in [1 .. m -> {TRUE, FALSE}] :
          args = [i \in DOMAIN g |-> IF g[i] THEN Tag("js", i) ELSE Bad]
  BY <1>1
<1>3. m \in Nat /\ DOMAIN args = 1 .. m
  BY <1>2, CrossCallConstants
<1>4. args = [i \in 1 .. m |-> IF g[i] THEN Tag("js", i) ELSE Bad]
  BY <1>2
<1>5. Len(args) = m /\ m = n
  BY <1>3, <1>4
<1>6. \A i \in 1 .. n : Tag("js", i) \in AllValues /\ Bad \in AllValues
  BY CrossCallConstants DEF AllValues, JsValues
<1>7. \A i \in 1 .. n : (IF g[i] THEN Tag("js", i) ELSE Bad) \in AllValues
  BY <1>6
<1>8. args \in [1 .. n -> AllValues]
  BY <1>4, <1>5, <1>7
<1> QED BY <1>3, <1>5, <1>8

LEMMA NativePasses ==
  ASSUME NEW n \in 0 .. MaxFuncArgs, NEW args \in NativeArgs(n)
  PROVE  args \in Seq(AllValues) /\ Len(args) = n
<1>1. PICK g \in [1 .. n -> {TRUE, FALSE}] :
          args = [i \in 1 .. n |-> IF g[i] THEN Tag("native", i) ELSE NoJs]
  BY DEF NativeArgs
<1>2. n \in Nat
  BY CrossCallConstants
<1>3. \A i \in 1 .. n : Tag("native", i) \in AllValues /\ NoJs \in AllValues
  BY CrossCallConstants DEF AllValues, NativeValues
<1>4. \A i \in 1 .. n : (IF g[i] THEN Tag("native", i) ELSE NoJs) \in AllValues
  BY <1>3
<1>5. args \in [1 .. n -> AllValues]
  BY <1>1, <1>4
<1> QED BY <1>2, <1>5

LEMMA ScriptGives ==
  ASSUME NEW n \in 0 .. MaxFuncArgs, NEW result \in ScriptResults(n + 1)
  PROVE  /\ Len(result) \in {n + 1, n + 2}
         /\ DOMAIN result = 1 .. Len(result)
         /\ \A m \in DOMAIN result : result[m] \in {Tag("js", m - 1), Bad}
         /\ Len(result) = n + 1 => result \in Seq(AllValues)
         /\ <<Head(result)>> \in Seq(AllValues)
         /\ Head(result) \in {Tag("js", 0), Bad}
<1>1. PICK m \in {n + 1, (n + 1) + 1} : \E g \in [1 .. m -> {TRUE, FALSE}] :
          result = [i \in DOMAIN g |-> IF g[i] THEN Tag("js", i - 1) ELSE Bad]
  BY DEF ScriptResults, ScriptValues
<1>2. PICK g \in [1 .. m -> {TRUE, FALSE}] :
          result = [i \in DOMAIN g |-> IF g[i] THEN Tag("js", i - 1) ELSE Bad]
  BY <1>1
<1>3. n \in Nat /\ m \in Nat /\ m >= 1 /\ m \in {n + 1, n + 2} /\ DOMAIN g = 1 .. m
  BY CrossCallConstants
<1>4. result = [i \in 1 .. m |-> IF g[i] THEN Tag("js", i - 1) ELSE Bad]
  BY <1>2, <1>3
<1>5. Len(result) = m /\ DOMAIN result = 1 .. m
  BY <1>3, <1>4
<1>6. \A i \in 1 .. m : result[i] \in {Tag("js", i - 1), Bad}
  BY <1>4
<1>7. Bad \in AllValues /\ \A i \in 0 .. MaxFuncArgs : Tag("js", i) \in AllValues
  BY DEF AllValues, JsValues
<1>8. ASSUME m = n + 1
      PROVE  result \in Seq(AllValues)
  <2>1. \A i \in 1 .. m : i - 1 \in 0 .. MaxFuncArgs
    BY <1>3, <1>8, CrossCallConstants
  <2>2. \A i \in 1 .. m : result[i] \in AllValues
    BY <1>6, <1>7, <2>1
  <2>3. result \in [1 .. m -> AllValues]
    BY <1>4, <1>5, <2>2
  <2> QED BY <1>3, <2>3
<1>9. Head(result) = result[1] /\ 1 \in 1 .. m /\ 1 - 1 = 0 /\ 0 \in 0 .. MaxFuncArgs
  BY <1>3, CrossCallConstants DEF Head
<1>10. Head(result) \in {Tag("js", 0), Bad}
  BY <1>6, <1>9
<1>11. Head(result) \in AllValues
  BY <1>7, <1>9, <1>10
<1>12. <<Head(result)>> \in Seq(AllValues)
  BY <1>11
<1> QED BY <1>3, <1>5, <1>6, <1>8, <1>10, <1>12

----------------------------------------------------------------------------
LEMMA InitInv == Init => IndInv
<1> SUFFICES ASSUME Init PROVE IndInv
  OBVIOUS
<1>1. stack = <<>> /\ pending = FALSE
  BY DEF Init
<1>2. stack \in Seq(ExternalFrames \union InternalFrames)
  BY <1>1
<1>3. Len(stack) <= MaxDepth /\ DOMAIN stack = {}
  BY <1>1, CrossCallConstants
<1>4. Nested
  BY <1>1, <1>3 DEF Nested
<1> QED BY <1>1, <1>2, <1>3, <1>4 DEF IndInv

\* Scripts run only where an exception may be, native code only elsewhere.
LEMMA WhoRuns ==
  ASSUME IndInv
  PROVE  /\ ScriptRuns => stack # <<>> /\ ScriptSide(Top)
         /\ NativeRuns => ~ pending
         /\ pending \in BOOLEAN
<1>1. ScriptRuns => stack # <<>> /\ ScriptSide(Top)
  BY DEF ScriptRuns, InternalTop, ExternalTop, ScriptSide
<1>2. NativeRuns => ~ pending
  BY DEF NativeRuns, ExternalTop, ScriptSide, IndInv, Nested
<1> QED BY <1>1, <1>2 DEF IndInv

LEMMA ExternalSteps ==
  ASSUME IndInv
  PROVE  /\ \A s \in Signatures : \A args \in ScriptArgs(Len(s.params)) :
              ExternalCall(s, args) => IndInv'
         /\ PushParam => IndInv'
         /\ MakeExternalCall => IndInv'
         /\ \A i \in 1 .. MaxFuncArgs, bad \in BOOLEAN :
              NativeStores(i, IF bad THEN NoJs ELSE Tag("native", i)) => IndInv'
         /\ \A v \in {Tag("native", 0), NoJs, None} : NativeReturns(v) => IndInv'
         /\ ReturnToScript => IndInv'
         /\ ExternalLeave => IndInv'
<1>0. pending \in BOOLEAN
  BY WhoRuns
<1>1. \A ph : ExternalTop(ph) => /\ stack # <<>> /\ ExternalOK(Top) /\ Top.kind = "external"
                                 /\ Top.phase = ph
  BY StackTyped DEF ExternalTop
<1>2. ASSUME stack # <<>>, ExternalOK(Top), Top.kind = "external", ThrowsToScript
      PROVE  IndInv'
  <2> DEFINE g == [Top EXCEPT !.phase = "done", !.result = <<Bad>>]
  <2>1. FrameOK(g) /\ g.kind = Top.kind /\ g.phase = "done"
    BY <1>2, ExternalThrows DEF FrameOK
  <2>2. Update(g) /\ pending' = TRUE
    BY <1>2 DEF ThrowsToScript
  <2> HIDE DEF g
  <2> QED BY <1>2, <2>1, <2>2, TopChanges
<1>3. ASSUME NEW s \in Signatures, NEW args \in ScriptArgs(Len(s.params)), ExternalCall(s, args)
      PROVE  IndInv'
  <2>1. ScriptRuns /\ ~ pending /\ Len(stack) < MaxDepth
    BY <1>3 DEF ExternalCall
  <2>2. stack # <<>> /\ ScriptSide(Top)
    BY <2>1, WhoRuns
  <2>3. CASE Len(args) # Len(s.params)
    <3>1. pending' = TRUE /\ stack' = stack
      BY <1>3, <2>3 DEF ExternalCall
    <3> QED BY <2>2, <3>1 DEF IndInv, Nested, Top
  <2>4. CASE Len(args) = Len(s.params)
    <3>1. args \in Seq(AllValues)
      BY <2>4, RefsFinite, ScriptPasses
    <3>2. stack' = Append(stack, NewExternal(s, args)) /\ pending' = pending
      BY <1>3, <2>4 DEF ExternalCall, NewExternal
    <3>3. FrameOK(NewExternal(s, args))
      BY <2>4, <3>1, ExternalBegins DEF FrameOK
    <3>4. pending' = FALSE
      BY <1>0, <2>1, <3>2
    <3> QED BY <2>1, <2>2, <3>2, <3>3, <3>4, CallBegins
  <2> QED BY <2>3, <2>4
<1>4. ASSUME PushParam
      PROVE  IndInv'
  <2> DEFINE i == Len(Top.params) - Top.hidden + 1
             kind == Top.sig.params[i]
             f == FindInternalDrops(Top, kind)
             g == PushedFrame(f, kind, Top.args[i])
  <2>1. stack # <<>> /\ ExternalOK(Top) /\ Top.kind = "external" /\ Top.phase = "push"
    BY <1>1, <1>4 DEF PushParam
  <2>2. i = Pushed(Top) + 1 /\ i <= Len(Top.sig.params)
    BY <1>4 DEF PushParam, Pushed
  <2>3. CASE Top.args[i] = Bad \/ (pending /\ kind # "func")
    <3>1. ThrowsToScript
      BY <1>4, <2>3 DEF PushParam
    <3> QED BY <1>2, <2>1, <3>1
  <2>4. CASE ~ (Top.args[i] = Bad \/ (pending /\ kind # "func"))
    <3>1. Update(g) /\ pending' = FALSE
      BY <1>4, <2>4 DEF PushParam, PushedFrame
    <3>2. i \in 1 .. Len(Top.sig.params)
      <4>1. Top.sig \in Signatures /\ Pushed(Top) \in 0 .. Len(Top.sig.params)
        BY <2>1 DEF ExternalOK, ExternalFrames
      <4> QED BY <2>2, <4>1, RefsFinite
    <3>3. /\ ExternalOK(f) /\ f.phase = "push" /\ Pushed(f) = Pushed(Top)
          /\ f.sig = Top.sig /\ f.args = Top.args /\ f.kind = Top.kind
      BY <1>0, <2>1, <3>2, ExceptionDropped
    <3> HIDE DEF f
    <3>4. ExternalOK(g) /\ ScriptSide(g)
      BY <2>2, <2>4, <3>3, ParamPushed
    <3> HIDE DEF g
    <3>5. FrameOK(g) /\ g.kind = Top.kind
      BY <2>1, <3>4 DEF FrameOK, ExternalOK, ExternalFrames
    <3> QED BY <2>1, <3>1, <3>4, <3>5, TopChanges
  <2> QED BY <2>3, <2>4
<1>5. ASSUME MakeExternalCall
      PROVE  IndInv'
  <2> DEFINE g == [Top EXCEPT !.phase = "native"]
  <2>1. stack # <<>> /\ ExternalOK(Top) /\ Top.kind = "external"
    BY <1>1, <1>5 DEF MakeExternalCall
  <2>2. ~ pending /\ Update(g) /\ pending' = pending
        /\ Len(Top.params) = Top.hidden + Len(Top.sig.params)
    BY <1>5 DEF MakeExternalCall
  <2>3. FrameOK(g) /\ g.kind = Top.kind
    BY <2>1, <2>2, FunctionCalled DEF FrameOK
  <2> HIDE DEF g
  <2> QED BY <1>0, <2>1, <2>2, <2>3, TopChanges
<1>6. ASSUME NEW i \in 1 .. MaxFuncArgs, NEW bad \in BOOLEAN,
             NativeStores(i, IF bad THEN NoJs ELSE Tag("native", i))
      PROVE  IndInv'
  <2> DEFINE v == IF bad THEN NoJs ELSE Tag("native", i)
             g == [Top EXCEPT !.storage[Top.params[Top.hidden + i].cell] = v, !.view[i] = v]
  <2>1. stack # <<>> /\ ExternalOK(Top) /\ Top.kind = "external" /\ Top.phase = "native"
    BY <1>1, <1>6 DEF NativeStores
  <2>2. v \in AllValues /\ v # Bad
    <3>1. i \in 0 .. MaxFuncArgs
      BY CrossCallConstants
    <3> QED BY <3>1, CrossCallConstants DEF AllValues, NativeValues
  <2>3. i \in Refs(Top.sig) /\ Update(g) /\ pending' = pending
    BY <1>6 DEF NativeStores
  <2>4. ~ pending
    BY <1>6, WhoRuns DEF NativeStores, NativeRuns
  <2> HIDE DEF v
  <2>5. FrameOK(g) /\ g.kind = Top.kind
    BY <2>1, <2>2, <2>3, FunctionStores DEF FrameOK
  <2> HIDE DEF g
  <2> QED BY <1>0, <2>1, <2>3, <2>4, <2>5, TopChanges
<1>7. ASSUME NEW v \in {Tag("native", 0), NoJs, None}, NativeReturns(v)
      PROVE  IndInv'
  <2> DEFINE g == [Top EXCEPT !.phase = "collect", !.gave = v,
                     !.storage = IF Top.hidden = 1 THEN [@ EXCEPT ![Top.params[1].cell] = v] ELSE @,
                     !.result = <<v>>]
  <2>1. stack # <<>> /\ ExternalOK(Top) /\ Top.kind = "external" /\ Top.phase = "native"
    BY <1>1, <1>7 DEF NativeReturns
  <2>2. CASE v = NoJs
    <3>1. ThrowsToScript
      BY <1>7, <2>2 DEF NativeReturns
    <3> QED BY <1>2, <2>1, <3>1
  <2>3. CASE v # NoJs
    <3>1. Update(g) /\ pending' = pending
      BY <1>7, <2>3 DEF NativeReturns
    <3>2. v \in AllValues
      BY CrossCallConstants DEF AllValues, NativeValues
    <3>3. FrameOK(g) /\ g.kind = Top.kind
      BY <2>1, <3>2, FunctionReturns DEF FrameOK
    <3>4. ~ pending
      BY <1>7, WhoRuns DEF NativeReturns, NativeRuns
    <3> HIDE DEF g
    <3> QED BY <1>0, <2>1, <3>1, <3>3, <3>4, TopChanges
  <2> QED BY <2>2, <2>3
<1>8. ASSUME ReturnToScript
      PROVE  IndInv'
  <2> DEFINE refs == [j \in 1 .. RefCount(Top.sig) |-> StorageValueToObject(Top, j)]
             g == [Top EXCEPT !.phase = "done", !.result = @ \o refs]
  <2>1. stack # <<>> /\ ExternalOK(Top) /\ Top.kind = "external" /\ Top.phase = "collect"
    BY <1>1, <1>8 DEF ReturnToScript
  <2>2. CASE NoJs \in ToSet(refs)
    <3>1. ThrowsToScript
      BY <1>8, <2>2 DEF ReturnToScript
    <3> QED BY <1>2, <2>1, <3>1
  <2>3. CASE NoJs \notin ToSet(refs)
    <3>1. Update(g) /\ pending' = pending
      BY <1>8, <2>3 DEF ReturnToScript
    <3>2. FrameOK(g) /\ g.kind = Top.kind /\ g.phase = "done"
      BY <2>1, RefsCollected DEF FrameOK
    <3> HIDE DEF g
    <3> QED BY <1>0, <2>1, <3>1, <3>2, TopChanges
  <2> QED BY <2>2, <2>3
<1>9. ASSUME ExternalLeave
      PROVE  IndInv'
  <2>1. stack # <<>> /\ Top.kind = "external" /\ stack' = Below
        /\ pending' \in {pending, pending \/ Held}
    BY <1>1, <1>9 DEF ExternalLeave
  <2>2. pending' \in BOOLEAN
    BY <1>0, <2>1
  <2> QED BY <2>1, <2>2, CallEnds
<1> QED BY <1>3, <1>4, <1>5, <1>6, <1>7, <1>8, <1>9

LEMMA InternalSteps ==
  ASSUME IndInv
  PROVE  /\ \A s \in Signatures : \A args \in NativeArgs(Len(s.params)) :
              InternalCall(s, args) => IndInv'
         /\ ParamsToObjects => IndInv'
         /\ ScriptCatches => IndInv'
         /\ ScriptThrows => IndInv'
         /\ \A n \in 0 .. MaxFuncArgs, array \in BOOLEAN :
              InternalTop("script") /\ n = RefCount(Top.sig) =>
                \A result \in ScriptResults(n + 1) : ScriptReturns(array, result) => IndInv'
         /\ NextRefParam => IndInv'
         /\ ReturnToNative => IndInv'
         /\ InternalLeave => IndInv'
<1>0. pending \in BOOLEAN
  BY WhoRuns
<1>1. \A ph : InternalTop(ph) => /\ stack # <<>> /\ InternalOK(Top) /\ Top.kind = "internal"
                                 /\ Top.phase = ph
  BY StackTyped DEF InternalTop
<1>2. ASSUME stack # <<>>, InternalOK(Top), Top.kind = "internal", Top.phase # "done",
             ReturnsFallback
      PROVE  IndInv'
  <2> DEFINE g == SetFallbackReturn(Top)
  <2>1. FrameOK(g) /\ g.kind = Top.kind /\ g.phase = "done"
    BY <1>2, FallsBack DEF FrameOK
  <2>2. Update(g) /\ pending' = TRUE
    BY <1>2 DEF ReturnsFallback
  <2> HIDE DEF g
  <2> QED BY <1>2, <2>1, <2>2, TopChanges
<1>3. ASSUME NEW s \in Signatures, NEW args \in NativeArgs(Len(s.params)), InternalCall(s, args)
      PROVE  IndInv'
  <2>1. /\ NativeRuns /\ Len(stack) < MaxDepth /\ pending' = pending
        /\ stack' = Append(stack, NewInternal(s, args))
    BY <1>3 DEF InternalCall, NewInternal
  <2>2. pending' = FALSE
    BY <2>1, WhoRuns
  <2>3. args \in Seq(AllValues) /\ Len(args) = Len(s.params)
    BY RefsFinite, NativePasses
  <2>4. FrameOK(NewInternal(s, args)) /\ NewInternal(s, args).kind = "internal"
    BY <2>3, InternalBegins DEF FrameOK, NewInternal
  <2> QED BY <2>1, <2>2, <2>4, CallBegins
<1>4. ASSUME ParamsToObjects
      PROVE  IndInv'
  <2> DEFINE g == [Top EXCEPT !.phase = "script"]
  <2>1. stack # <<>> /\ InternalOK(Top) /\ Top.kind = "internal" /\ Top.phase = "args"
    BY <1>1, <1>4 DEF ParamsToObjects
  <2>2. CASE NoJs \in ToSet(Top.args)
    <3>1. ReturnsFallback
      BY <1>4, <2>2 DEF ParamsToObjects
    <3> QED BY <1>2, <2>1, <3>1
  <2>3. CASE NoJs \notin ToSet(Top.args)
    <3>1. Update(g) /\ pending' = pending
      BY <1>4, <2>3 DEF ParamsToObjects
    <3>2. InternalOK(g) /\ ScriptSide(g)
      BY <2>1, ScriptStarts
    <3> HIDE DEF g
    <3>3. FrameOK(g) /\ g.kind = Top.kind
      BY <2>1, <3>2, InternalTyped DEF FrameOK
    <3> QED BY <1>0, <2>1, <3>1, <3>2, <3>3, TopChanges
  <2> QED BY <2>2, <2>3
<1>5. ScriptCatches => IndInv'
  BY DEF ScriptCatches, IndInv, Nested, Top
<1>6. ScriptThrows => IndInv'
  BY <1>1, <1>2 DEF ScriptThrows
<1>7. ASSUME NEW n \in 0 .. MaxFuncArgs, NEW array \in BOOLEAN, InternalTop("script"),
             n = RefCount(Top.sig), NEW result \in ScriptResults(n + 1),
             ScriptReturns(array, result)
      PROVE  IndInv'
  <2>1. stack # <<>> /\ InternalOK(Top) /\ Top.kind = "internal" /\ Top.phase = "script"
    BY <1>1, <1>7
  <2>2. ASSUME NEW phase \in {"return", "refs"}, NEW res \in Seq(AllValues),
               \A m \in DOMAIN res : res[m] \in {Tag("js", m - 1), Bad},
               phase = "return" => Len(res) >= 1,
               phase = "refs" => Len(res) = 1 + RefCount(Top.sig) /\ RefCount(Top.sig) # 0,
               Update([Top EXCEPT !.phase = phase, !.result = res]), pending' = pending
        PROVE  IndInv'
    <3> DEFINE g == [Top EXCEPT !.phase = phase, !.result = res]
    <3>1. InternalOK(g) /\ ScriptSide(g)
      BY <2>1, <2>2, ResultTaken
    <3>2. Update(g)
      BY <2>2
    <3> HIDE DEF g
    <3>3. FrameOK(g) /\ g.kind = Top.kind
      BY <2>1, <3>1, InternalTyped DEF FrameOK
    <3> QED BY <1>0, <2>1, <2>2, <3>1, <3>2, <3>3, TopChanges
  <2>3. CASE RefCount(Top.sig) = 0
    <3> DEFINE res == <<Head(result)>>
    <3>1. Update([Top EXCEPT !.phase = "return", !.result = res]) /\ pending' = pending
      BY <1>7, <2>3 DEF ScriptReturns
    <3>2. res \in Seq(AllValues) /\ Head(result) \in {Tag("js", 0), Bad}
      BY ScriptGives
    <3>3. Len(res) = 1 /\ \A m \in DOMAIN res : m = 1 /\ m - 1 = 0 /\ res[m] = Head(result)
      OBVIOUS
    <3> HIDE DEF res
    <3>4. \A m \in DOMAIN res : res[m] \in {Tag("js", m - 1), Bad}
      BY <3>2, <3>3
    <3>5. "return" \in {"return", "refs"} /\ Len(res) >= 1 /\ "return" # "refs"
      BY <3>3
    <3> HIDE <3>3
    <3> QED BY <2>2, <3>1, <3>2, <3>4, <3>5
  <2>4. CASE RefCount(Top.sig) # 0 /\ (~ array \/ Len(result) # 1 + RefCount(Top.sig))
    <3>1. ReturnsFallback
      BY <1>7, <2>4 DEF ScriptReturns
    <3> QED BY <1>2, <2>1, <3>1
  <2>5. CASE RefCount(Top.sig) # 0 /\ array /\ Len(result) = 1 + RefCount(Top.sig)
    <3>1. Update([Top EXCEPT !.phase = "refs", !.result = result]) /\ pending' = pending
      BY <1>7, <2>5 DEF ScriptReturns
    <3>2. result \in Seq(AllValues) /\ \A m \in DOMAIN result : result[m] \in {Tag("js", m - 1), Bad}
      BY <1>7, <2>5, ScriptGives, CrossCallConstants
    <3> QED BY <2>2, <2>5, <3>1, <3>2
  <2> QED BY <2>3, <2>4, <2>5
<1>8. ASSUME NextRefParam
      PROVE  IndInv'
  <2> DEFINE g == RefParamSet(Top, pending)
  <2>1. stack # <<>> /\ InternalOK(Top) /\ Top.kind = "internal" /\ Top.phase = "refs"
    BY <1>1, <1>8 DEF NextRefParam
  <2>2. Update(g) /\ pending' = FALSE
    BY <1>8 DEF NextRefParam, RefParamSet
  <2>3. InternalOK(g) /\ ScriptSide(g)
    BY <1>0, <2>1, RefTaken
  <2> HIDE DEF g
  <2>4. FrameOK(g) /\ g.kind = Top.kind
    BY <2>1, <2>3, InternalTyped DEF FrameOK
  <2> QED BY <2>1, <2>2, <2>3, <2>4, TopChanges
<1>9. ASSUME ReturnToNative
      PROVE  IndInv'
  <2> DEFINE g == SetReturn(Top)
  <2>1. stack # <<>> /\ InternalOK(Top) /\ Top.kind = "internal" /\ Top.phase = "return"
    BY <1>1, <1>9 DEF ReturnToNative
  <2>2. CASE ReturnsFallback
    BY <1>2, <2>1, <2>2
  <2>3. CASE ~ ReturnsFallback
    <3>1. Update(g) /\ pending' = pending
      BY <1>9, <2>3 DEF ReturnToNative
    <3>2. FrameOK(g) /\ g.kind = Top.kind /\ g.phase = "done"
      BY <2>1, ResultGiven DEF FrameOK
    <3> HIDE DEF g
    <3> QED BY <1>0, <2>1, <3>1, <3>2, TopChanges
  <2> QED BY <2>2, <2>3
<1>10. ASSUME InternalLeave
       PROVE  IndInv'
  <2>1. stack # <<>> /\ stack' = Below /\ pending' = FALSE
    BY <1>1, <1>10 DEF InternalLeave
  <2> QED BY <2>1, CallEnds
<1> QED BY <1>3, <1>4, <1>5, <1>6, <1>7, <1>8, <1>9, <1>10

LEMMA NextInv == IndInv /\ [Next]_vars => IndInv'
<1> SUFFICES ASSUME IndInv, [Next]_vars PROVE IndInv'
  OBVIOUS
<1>1. CASE Next
  <2>1. CASE Calls
    BY <2>1, ExternalSteps, InternalSteps DEF Calls
  <2>2. CASE ElementThrows \/ UNCHANGED vars
    BY <2>2 DEF ElementThrows, vars, IndInv, Nested, Top
  <2> QED BY <1>1, <2>1, <2>2 DEF Next
<1>2. CASE UNCHANGED vars
  BY <1>2 DEF vars, IndInv, Nested, Top
<1> QED BY <1>1, <1>2

----------------------------------------------------------------------------
\* The inductive invariant holds in every state.
THEOREM Invariant == Spec => []IndInv
BY InitInv, NextInv, PTL DEF Spec

AbortedOK == aborted \in BOOLEAN

LEMMA AbortedTyped == Spec => []AbortedOK
<1>1. Init => AbortedOK
  BY DEF Init, AbortedOK
<1>2. AbortedOK /\ [Next]_vars => AbortedOK'
  BY DEF AbortedOK, Next, ElementThrows, vars
<1> QED BY <1>1, <1>2, PTL DEF Spec

\* The calls in progress, by their place on the stack.
LEMMA FramesOK ==
  ASSUME IndInv, NEW f \in Frames
  PROVE  /\ f.kind = "external" => ExternalOK(f) /\ f \in ExternalFrames
         /\ f.kind = "internal" => InternalOK(f) /\ f \in InternalFrames
<1>1. FrameOK(f)
  BY DEF IndInv, Frames
<1>2. ExternalOK(f) => f.kind = "external" /\ f \in ExternalFrames
  BY DEF ExternalOK, ExternalFrames
<1>3. InternalOK(f) => f.kind = "internal" /\ f \in InternalFrames
  BY DEF InternalOK, InternalFrames
<1> QED BY <1>1, <1>2, <1>3 DEF FrameOK

LEMMA ElementsOf ==
  ASSUME NEW S, NEW s \in Seq(S)
  PROVE  ToSet(s) \subseteq S
BY DEF ToSet

(***************************************************************************)
(* Every call in progress is in one of its phases, and has at most one     *)
(* register per parameter and one noted index per reference parameter.     *)
(***************************************************************************)
THEOREM TypeCorrect == Spec => []TypeOK
<1>1. ASSUME IndInv, AbortedOK PROVE TypeOK
  <2>1. aborted \in BOOLEAN /\ pending \in BOOLEAN /\ Len(stack) <= MaxDepth
    BY <1>1 DEF IndInv, AbortedOK
  <2>2. ASSUME NEW f \in Externals
        PROVE  /\ f.phase \in {"push", "native", "collect", "done"}
               /\ f.sig \in Signatures
               /\ f.hidden \in {0, 1}
               /\ f.swallowed \in BOOLEAN
               /\ Len(f.params) <= f.hidden + Len(f.sig.params)
               /\ Len(f.refIndices) <= RefCount(f.sig)
               /\ ToSet(f.storage) \union ToSet(f.result) \subseteq AllValues
    <3>1. ExternalOK(f) /\ f \in ExternalFrames
      BY <1>1, FramesOK DEF Externals
    <3>2. /\ f.phase \in {"push", "native", "collect", "done"} /\ f.sig \in Signatures
          /\ f.hidden \in {0, 1} /\ f.swallowed \in BOOLEAN
          /\ f.storage \in Seq(AllValues) /\ f.result \in Seq(AllValues)
          /\ f.params \in Seq([cell : Nat, value : AllValues])
      BY <3>1 DEF ExternalFrames
    <3>3. Pushed(f) \in 0 .. Len(f.sig.params) /\ Len(f.sig.params) \in Nat
          /\ Len(f.refIndices) = Ordinal(f.sig, Pushed(f))
      BY <3>1, <3>2, RefsFinite DEF ExternalOK, IndicesNoted
    <3>4. Len(f.params) <= f.hidden + Len(f.sig.params)
      BY <3>2, <3>3 DEF Pushed
    <3>5. Len(f.refIndices) <= RefCount(f.sig)
      BY <3>2, <3>3, OrdinalBounds
    <3> QED BY <3>2, <3>4, <3>5, ElementsOf
  <2>3. ASSUME NEW f \in Internals
        PROVE  /\ f.phase \in {"args", "script", "refs", "return", "done"}
               /\ f.sig \in Signatures
               /\ f.next \in 1 .. RefCount(f.sig) + 1
               /\ ToSet(f.memory) \union ToSet(f.slot) \subseteq AllValues
    <3>1. InternalOK(f) /\ f \in InternalFrames
      BY <1>1, FramesOK DEF Internals
    <3>2. f.memory \in Seq(AllValues) /\ f.slot \in Seq(AllValues)
      BY <3>1 DEF InternalFrames
    <3> QED BY <3>1, <3>2, ElementsOf DEF InternalOK, InternalFrames
  <2> QED BY <2>1, <2>2, <2>3 DEF TypeOK
<1> QED BY <1>1, Invariant, AbortedTyped, PTL

(***************************************************************************)
(* Whatever mixture of values, objects and references a signature has,     *)
(* with or without a hidden return value, each parameter of a native       *)
(* function reads as the script passed it or the function left it.         *)
(***************************************************************************)
THEOREM EachParameterItsOwn == Spec => []ParametersAreOwn
<1>1. ASSUME IndInv PROVE ParametersAreOwn
  <2> SUFFICES ASSUME NEW f \in Externals, f.phase \in {"native", "collect"}
               PROVE  /\ Len(f.params) = f.hidden + Len(f.sig.params)
                      /\ \A i \in DOMAIN f.sig.params :
                            NativeReads(f, i) = f.view[i] /\ f.view[i] # Bad
    BY DEF ParametersAreOwn
  <2>1. ExternalOK(f) /\ f \in ExternalFrames
    BY <1>1, FramesOK DEF Externals
  <2>2. f.sig \in Signatures /\ Pushed(f) = Len(f.sig.params)
    BY <2>1 DEF ExternalOK, ExternalFrames
  <2>3. ASSUME NEW i \in DOMAIN f.sig.params
        PROVE  NativeReads(f, i) = f.view[i] /\ f.view[i] # Bad
    <3>1. i \in 1 .. Pushed(f) /\ i \in 1 .. Len(f.sig.params)
      BY <2>2, RefsFinite
    <3>2. /\ f.sig.params[i] \in InRegister => f.params[f.hidden + i].value = f.view[i]
          /\ f.sig.params[i] \notin InRegister => f.storage[Cell(f, i)] = f.view[i]
          /\ f.view[i] # Bad
      BY <2>1, <3>1 DEF ExternalOK, ParametersApart
    <3>3. \/ f.sig.params[i] \in InRegister /\ Cell(f, i) = 0
          \/ f.sig.params[i] \notin InRegister /\ Cell(f, i) # 0
      <4>1. f.hidden \in Nat /\ Len(f.storage) \in Nat
        BY <2>1, ParametersFound
      <4>2. \/ f.sig.params[i] \in InRegister /\ Cell(f, i) = 0
            \/ f.sig.params[i] \notin InRegister /\ Cell(f, i) \in f.hidden + 1 .. Len(f.storage)
        BY <2>1, <3>1, ParametersFound
      <4> QED BY <4>1, <4>2
    <3> QED BY <3>2, <3>3 DEF NativeReads, Cell
  <2> QED BY <2>1, <2>3, ParametersFound
<1> QED BY <1>1, Invariant, PTL

(***************************************************************************)
(* A script that called a native function gets its return value and, in    *)
(* order, what it left in each reference parameter.                        *)
(***************************************************************************)
THEOREM ScriptGetsAllRefs == Spec => []ScriptGetsRefs
<1>1. ASSUME IndInv PROVE ScriptGetsRefs
  BY <1>1, FramesOK DEF ScriptGetsRefs, Externals, ExternalOK
<1> QED BY <1>1, Invariant, PTL

(***************************************************************************)
(* Whichever exit InternalCall takes, the return slot of its native caller *)
(* is filled once, and not at all if the function returns nothing.         *)
(***************************************************************************)
THEOREM SlotFilledOnce == Spec => []ReturnSetOnce
<1>1. ASSUME IndInv PROVE ReturnSetOnce
  BY <1>1, FramesOK DEF ReturnSetOnce, Internals, InternalOK
<1> QED BY <1>1, Invariant, PTL

(***************************************************************************)
(* A native caller's parameter keeps its value or takes the array element  *)
(* that belongs to it, whatever other elements failed to convert.          *)
(***************************************************************************)
THEOREM RefsAreTheirOwn == Spec => []RefsKeepOrTake
<1>1. ASSUME IndInv PROVE RefsKeepOrTake
  BY <1>1, FramesOK DEF RefsKeepOrTake, Internals, InternalOK, KeepsOrTakes
<1> QED BY <1>1, Invariant, PTL

(***************************************************************************)
(* However deep scripts and native functions call each other, no native    *)
(* function is entered or resumed while an exception is on its way to a    *)
(* script; one is still set only inside a call that was passed a function  *)
(* whose __address threw.                                                  *)
(***************************************************************************)
THEOREM NativeCodeSeesNoException == Spec => []NoStrayException
<1>1. ASSUME IndInv PROVE NoStrayException
  <2>1. NativeRuns => ~ pending
    BY <1>1, WhoRuns
  <2>2. ASSUME Held PROVE \E f \in Externals : DroppedIn(f)
    <3>1. PICK d \in DOMAIN stack : stack[d].kind = "external" /\ stack[d].swallowed
      BY <2>2 DEF Held
    <3>2. stack[d] \in Externals /\ stack[d] \in Frames
      BY <3>1 DEF Externals, Frames
    <3>3. "func" \in ToSet(stack[d].sig.params)
      BY <1>1, <3>1, <3>2, FramesOK DEF ExternalOK
    <3> QED BY <3>1, <3>2, <3>3 DEF DroppedIn
  <2> QED BY <2>1, <2>2 DEF NoStrayException
<1> QED BY <1>1, Invariant, PTL
=============================================================================
