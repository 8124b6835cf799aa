----------------------------- MODULE ConvertAny -----------------------------
(***************************************************************************)
(* Parameters of type `any' (src/module.cpp: ValueFromObject<plg::any>,    *)
(* GetType, CreateJsObject<plg::any>), with what they can hold: bool,      *)
(* integers, float, double, pointer, string, vectors, matrices and arrays  *)
(* of these.  Native code hands an `any' to a script and the script hands  *)
(* it back, or a script starts with a value of its own (Convert).          *)
(*                                                                         *)
(* A native value is its type `t' and its content `v', a JavaScript value  *)
(* is its sort `js' and content `v', or an array's `items'.  A content is  *)
(* a sequence, of length 1 for all but arrays.  A float or a Number is     *)
(* counted in halves, so that 3 is one and a half; a boolean, string or    *)
(* vector is a number that tells it from others, and a vector with a       *)
(* coordinate that is no Number is 0.                                      *)
(***************************************************************************)
EXTENDS Convert

CONSTANTS
    Mid         \* width of int32_t

ASSUME AnyConstants == Mid \in Widths /\ Mid < Wide

Int32 == [kind |-> "int", width |-> Mid, signed |-> TRUE]
Uint32 == [kind |-> "int", width |-> Mid, signed |-> FALSE]
Float == [kind |-> "float"]
Pointer == [kind |-> "pointer"]
AnyType == [kind |-> "any"]

\* Types whose content the conversions do not look into: Vector stands for
\* Vector2, Vector3 and Vector4.
Plain == {"boolean", "string", "vector", "matrix"}
Scalars == Ints \union {Float, Pointer} \union {[kind |-> k] : k \in Plain}

Native(t, v) == [t |-> t, v |-> v]
Js(sort, v) == [js |-> sort, v |-> v]
Array(s) == [js |-> "array", items |-> s]
ListOf(t) == [kind |-> "list", of |-> t]
None == [kind |-> "none"]

\* What plg::any can hold.
AnyTypes == Scalars \union {ListOf(t) : t \in Scalars} \union {None}

ASSUME RejectIsApart == Reject \notin [t : AnyTypes, v : Seq(Int)]

----------------------------------------------------------------------------
\* CreateJsObject of a scalar: pointers and 64-bit integers become BigInt.
CreateScalar(t, n) ==
    IF t.kind = "int" /\ t.width < Wide THEN Js("number", <<2 * n>>)
    ELSE IF t.kind \in {"int", "pointer"} THEN Js("bigint", <<n>>)
    ELSE IF t.kind = "float" THEN Js("number", <<n>>)
    ELSE IF t.kind = "none" THEN Js("undefined", <<>>)
    ELSE Js(t.kind, <<n>>)

\* CreateJsObject<plg::any>: an array is made element by element.
CreateAny(a) ==
    IF a.t.kind = "list"
    THEN Array([i \in DOMAIN a.v |-> CreateScalar(a.t.of, a.v[i])])
    ELSE IF a.v = <<>> THEN CreateScalar(a.t, 0) ELSE CreateScalar(a.t, a.v[1])

\* JsType: a Number is told by its value, not by the type it came from.
GetType(x) ==
    IF x.js # "number" THEN x.js
    ELSE IF x.v[1] % 2 = 0 /\ (x.v[1] \div 2) \in RangeOf(Int32) THEN "int32"
    ELSE IF x.v[1] % 2 = 0 /\ (x.v[1] \div 2) \in RangeOf(Uint32) THEN "uint32"
    ELSE "number"

\* ValueFromObject at the type that GetType asks for.
FromScalar(x) ==
    LET k == GetType(x) IN
    CASE k = "int32" -> Native(Int32, <<x.v[1] \div 2>>)
      [] k = "uint32" -> Native(Uint32, <<x.v[1] \div 2>>)
      [] k = "number" -> Native(Float, x.v)
      [] k = "bigint" -> Native(Int64, <<Int64Value(x.v[1])>>)
      [] k = "external" -> Native(Pointer, x.v)
      [] k \in {"boolean", "string"} -> Native([kind |-> k], x.v)
      [] k \in {"vector", "matrix"} -> IF x.v[1] = 0 THEN Reject ELSE Native([kind |-> k], x.v)
      [] OTHER -> Reject

\* Mutant: the first Number decides for all of them.
ArrayByFirst(items) ==
    IF \A i \in DOMAIN items : items[i].js = items[1].js /\ FromScalar(items[i]) # Reject
    THEN LET t == FromScalar(items[1]).t IN
         Native(ListOf(t), [i \in DOMAIN items |->
             IF items[i].js = "number" /\ t # Float THEN items[i].v[1] \div 2 ELSE FromScalar(items[i]).v[1]])
    ELSE Reject

\* All elements have one type and each converts.
AnyArray(items) ==
    IF /\ \A i \in DOMAIN items : GetType(items[i]) = GetType(items[1])
       /\ \A i \in DOMAIN items : FromScalar(items[i]) # Reject
    THEN Native(ListOf(FromScalar(items[1]).t), [i \in DOMAIN items |-> FromScalar(items[i]).v[1]])
    ELSE Reject

\* ValueFromObject<plg::any>: an empty array becomes one of int64_t, a typed
\* array keeps its type, and a matrix is taken in arrays only.
AnyFromObject(x) ==
    IF x.js = "array" THEN IF x.items = <<>> THEN Native(ListOf(Int64), <<>>) ELSE AnyArray(x.items)
    ELSE IF x.js = "typed" THEN Native(ListOf(x.elem), x.v)
    ELSE IF x.js = "matrix" THEN Reject
    ELSE FromScalar(x)

----------------------------------------------------------------------------
\* Contents at and around the bounds of the types.
Samples(t) ==
    IF t.kind = "int" THEN {n \in {-(Pow2[t.width - 1]), -1, 0, Pow2[t.width - 1], Pow2[t.width] - 1} : n \in RangeOf(t)}
    ELSE IF t.kind = "float" THEN {-3, 0, 2, 3, Pow2[Mid], Pow2[Mid + 1], Pow2[Wide + 1]}
    ELSE IF t.kind = "pointer" THEN {0, Pow2[Wide - 1] - 1}
    ELSE {1, 2}

AnyOnes == UNION {{Native(t, <<n>>) : n \in Samples(t)} : t \in Scalars}
AnyLists == UNION {{Native(ListOf(t), s) : s \in BoundedSeq(Samples(t), MaxList)} : t \in Scalars}
AnyNatives == AnyOnes \union AnyLists \union {Native(None, <<>>)}

AnyNumbers ==
    {Js("number", <<h>>) : h \in Samples(Float) \union {-2 * Pow2[Mid - 1], -2 * Pow2[Mid - 1] - 2}}
AnyBigInts == {Js("bigint", <<n>>) : n \in {0, Pow2[Wide - 1], -Pow2[Wide]}}
AnyPlain ==
    {Js(k, <<n>>) : k \in {"boolean", "string"}, n \in {1, 2}}
    \union {Js(k, <<n>>) : k \in {"vector", "matrix"}, n \in {0, 1}}
AnyAtoms ==
    AnyNumbers \union AnyBigInts \union AnyPlain
    \union {Js("external", <<1>>), Js("undefined", <<>>)}

AnyArrays == {Array(s) : s \in BoundedSeq(AnyAtoms, MaxList)}

AnyTypedArrays ==
    UNION {{[js |-> "typed", elem |-> e, v |-> s] : s \in BoundedSeq(Samples(e), MaxList)} :
             e \in Ints \union {Float}}

AnyScripts == AnyAtoms \union AnyArrays \union AnyTypedArrays

AnyInit ==
    /\ type = AnyType
    /\ \/ side = "native" /\ value \in AnyNatives
       \/ side = "script" /\ value \in AnyScripts
    /\ start = [side |-> side, value |-> value]

AnyToScript ==
    /\ type = AnyType /\ side = "native" /\ value # Reject
    /\ side' = "script"
    /\ value' = CreateAny(value)
    /\ UNCHANGED <<type, start>>

AnyToNative ==
    /\ type = AnyType /\ side = "script"
    /\ side' = "native"
    /\ value' = AnyFromObject(value)
    /\ UNCHANGED <<type, start>>

ConvertSpec ==
    /\ Init \/ AnyInit
    /\ [][(type # AnyType /\ Next) \/ AnyToScript \/ AnyToNative]_vars

----------------------------------------------------------------------------
\* The type and the content of a native value's elements; of a script's, and
\* the number each stands for, in halves (64-bit integers as int64_t has them).
ElementType(a) == IF a.t.kind = "list" THEN a.t.of ELSE a.t

Numeric(t) == t.kind \in {"int", "float", "pointer"}

Amount(t, n) ==
    IF t.kind = "float" THEN n
    ELSE IF t.kind = "int" /\ t.width < Wide THEN 2 * n ELSE 2 * Int64Value(n)

SameContent(a, b) ==
    /\ (a.t.kind = "list") = (b.t.kind = "list")
    /\ Len(a.v) = Len(b.v)
    /\ LET s == ElementType(a)  t == ElementType(b) IN
       \A i \in DOMAIN a.v :
         IF Numeric(s) THEN Numeric(t) /\ Amount(s, a.v[i]) = Amount(t, b.v[i])
         ELSE s = t /\ a.v[i] = b.v[i]

\* Elements of one native array that a script sees as different types: doubles
\* with and without a fraction, uint32_t that fit int32_t and that do not.
Mixed(a) ==
    a.t.kind = "list" /\ \E i, k \in DOMAIN a.v :
        GetType(CreateScalar(a.t.of, a.v[i])) # GetType(CreateScalar(a.t.of, a.v[k]))

(***************************************************************************)
(* An `any' that a script hands back has the content it had: as many       *)
(* elements, each with its amount, although the type may be another one    *)
(* (a double without fraction comes back as int32_t, uint64_t and pointers *)
(* as int64_t, an empty array as one of int64_t).  It throws only for a    *)
(* matrix, for nothing at all, and for an array whose elements a script    *)
(* sees as different types: never is an element rounded or cut to the type *)
(* of another one.  An array that a script starts with arrives with the    *)
(* amount of each element in its place, or is rejected as a whole; a       *)
(* scalar of its own it may always have rejected.                          *)
(***************************************************************************)
AnyKept ==
    type = AnyType /\ side = "native" =>
        IF start.side = "native"
        THEN IF value = Reject
             THEN start.value.t.kind \in {"none", "matrix"} \/ Mixed(start.value)
             ELSE SameContent(start.value, value)
        ELSE LET x == start.value IN
             value = Reject \/
             CASE x.js = "array" ->
                    /\ Len(value.v) = Len(x.items)
                    /\ \A i \in DOMAIN x.items : SameContent(FromScalar(x.items[i]), Native(ElementType(value), <<value.v[i]>>))
               [] x.js = "typed" -> SameContent(Native(ListOf(x.elem), x.v), value)
               [] OTHER -> SameContent(FromScalar(x), value)
=============================================================================
