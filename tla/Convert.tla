------------------------------ MODULE Convert ------------------------------
(***************************************************************************)
(* The conversion of integers, characters and arrays of integers between   *)
(* native code and scripts (src/module.cpp: ValueFromObject,               *)
(* ArrayFromObject, CreateJsObject, ConvertUtf8ToUtf16,                    *)
(* ConvertUtf16ToUtf8).                                                    *)
(*                                                                         *)
(* One value travels: native code hands it to a script, the script hands   *)
(* it back, and so on; or a script starts with a value of its own.  Reject *)
(* is the conversion that throws.                                          *)
(*                                                                         *)
(* An integer type is its width and signedness.  Wide is the width of      *)
(* int64_t, whose values travel as BigInt; narrower ones travel as Number. *)
(* A character is its code, a JavaScript string the sequence of its UTF-16 *)
(* units, a UTF-8 sequence the sequence of its bytes.                      *)
(***************************************************************************)
EXTENDS Integers, Sequences, SequencesExt

CONSTANTS
    Widths,     \* of the integer types
    Wide,       \* width of int64_t
    Codes,      \* bound: char16_t values that are tried
    Numbers,    \* bound: integers that scripts pass
    Items,      \* bound: integers that are tried in arrays
    MaxList,    \* bound: length of the arrays that are tried
    Reject

ASSUME ConvertConstants ==
    /\ Wide \in Widths
    /\ Wide \in Nat
    /\ \A w \in Widths : w \in 1..Wide
    /\ \A n \in Numbers \union Items : n \in Int
    /\ MaxList \in Nat
    /\ Reject \notin Int

\* UTF-16 units.
Units == 0 .. 65535

ASSUME CodesAreUnits == Codes \subseteq Units

Ints == [kind : {"int"}, width : Widths, signed : BOOLEAN]
Lists == [kind : {"list"}, width : Widths, signed : BOOLEAN]
Types == Ints \union Lists \union {[kind |-> "char"], [kind |-> "char16"]}

\* 2^n.
Pow2[n \in Nat] == IF n = 0 THEN 1 ELSE 2 * Pow2[n - 1]

RangeOf(t) ==
    IF t.signed THEN -Pow2[t.width - 1] .. Pow2[t.width - 1] - 1 ELSE 0 .. Pow2[t.width] - 1

Int64 == [kind |-> "int", width |-> Wide, signed |-> TRUE]

VARIABLES
    type,       \* the declared type
    side,       \* where the value is: "native" or "script"
    value,
    start       \* history: [side, value] of the beginning

vars == <<type, side, value, start>>

----------------------------------------------------------------------------
\* static_cast between integer types.
Cast(t, n) ==
    LET m == n % Pow2[t.width]
    IN  IF t.signed /\ m >= Pow2[t.width - 1] THEN m - Pow2[t.width] ELSE m

\* v8::Number::IntegerValue saturates at the bounds of int64_t.
IntegerValue(n) ==
    LET bound == Pow2[Wide - 1]
    IN  IF n > bound - 1 THEN bound - 1 ELSE IF n < -bound THEN -bound ELSE n

\* v8::BigInt::Int64Value keeps the low 64 bits.
Int64Value(n) == Cast(Int64, n)

\* IsInRange<T, U = T> is always used with one argument, so T = U.
IsInRange(t, n) == TRUE

ValueFromIntegerObject(t, v) ==
    LET castResult == Cast(t, IF v.js = "number" THEN IntegerValue(v.n) ELSE Int64Value(v.n))
    IN  IF v.js \notin {"number", "bigint"} THEN Reject
        ELSE IF IsInRange(t, castResult) THEN castResult ELSE Reject

\* Mutant: 64-bit integers travel as Number, whose value saturates.
CreateNumber(t, n) == [js |-> "number", n |-> n]

CreateInteger(t, n) ==
    [js |-> IF t.width = Wide THEN "bigint" ELSE "number", n |-> n]

----------------------------------------------------------------------------
Surrogate(c) == c \in 55296..57343

Replacement == 65533

\* A continuation byte with the low six bits of n.
Cont(n) == 128 + (n % 64)

Continues(b) == b \div 64 = 2

ConvertUtf16ToUtf8(c) ==
    IF c = 0 THEN [rc |-> 0, out |-> <<>>]
    ELSE IF c < 128 THEN [rc |-> 1, out |-> <<c>>]
    ELSE IF c < 2048 THEN [rc |-> 2, out |-> <<192 + (c \div 64), Cont(c)>>]
    ELSE IF Surrogate(c) THEN [rc |-> -1, out |-> <<>>]
    ELSE [rc |-> 3, out |-> <<224 + (c \div 4096), Cont(c \div 64), Cont(c)>>]

ConvertUtf8ToUtf16(s) ==
    IF s = <<>> THEN [rc |-> -2, ch |-> 0]
    ELSE IF s[1] = 0 THEN [rc |-> 0, ch |-> 0]
    ELSE IF s[1] \div 8 = 30 THEN [rc |-> -3, ch |-> 0]
    ELSE IF s[1] \div 16 = 14
      THEN IF Len(s) < 3 \/ ~Continues(s[2]) \/ ~Continues(s[3]) THEN [rc |-> -2, ch |-> 0]
           ELSE LET c == (s[1] % 16) * 4096 + (s[2] % 64) * 64 + (s[3] % 64)
                IN  IF Surrogate(c) THEN [rc |-> -1, ch |-> 0] ELSE [rc |-> 3, ch |-> c]
    ELSE IF s[1] \div 32 = 6
      THEN IF Len(s) < 2 \/ ~Continues(s[2]) THEN [rc |-> -2, ch |-> 0]
           ELSE [rc |-> 2, ch |-> (s[1] % 32) * 64 + (s[2] % 64)]
    ELSE IF s[1] < 128 THEN [rc |-> 1, ch |-> s[1]]
    ELSE [rc |-> -1, ch |-> 0]

\* v8::String::Utf8Value of one UTF-16 unit: a lone surrogate is replaced.
Utf8Value(u) ==
    IF Surrogate(u) THEN <<239, 191, 189>>
    ELSE IF u < 128 THEN <<u>>
    ELSE IF u < 2048 THEN <<192 + (u \div 64), Cont(u)>>
    ELSE <<224 + (u \div 4096), Cont(u \div 64), Cont(u)>>

\* v8::String::NewFromUtf8 of one code: the sequence of bytes is a valid
\* one, or its bytes are replaced.
NewFromUtf8(s) ==
    IF Len(s) = 1 /\ s[1] < 128 THEN <<s[1]>>
    ELSE IF Len(s) = 2 /\ s[1] \in 194..223 THEN <<(s[1] - 192) * 64 + s[2] - 128>>
    ELSE IF Len(s) = 3 /\ s[1] \in 224..239
      THEN <<(s[1] - 224) * 4096 + (s[2] - 128) * 64 + s[3] - 128>>
    ELSE [i \in DOMAIN s |-> Replacement]

CharFromObject(v) ==
    IF v.js # "string" \/ Len(v.units) > 1 THEN Reject
    ELSE IF v.units = <<>> THEN 0
    ELSE LET ch == Utf8Value(v.units[1])[1] IN IF ch < 128 THEN ch ELSE Reject

Char16FromObject(v) ==
    IF v.js # "string" \/ Len(v.units) > 1 THEN Reject
    ELSE IF v.units = <<>> THEN 0
    ELSE LET c == ConvertUtf8ToUtf16(Utf8Value(v.units[1]))
         IN  IF c.rc >= 0 THEN c.ch ELSE Reject

CreateChar(c) == [js |-> "string", units |-> IF c = 0 THEN <<>> ELSE NewFromUtf8(<<c>>)]

CreateChar16(c) ==
    LET u == ConvertUtf16ToUtf8(c)
    IN  IF c = 0 THEN [js |-> "string", units |-> <<>>]
        ELSE IF u.rc = -1 THEN Reject
        ELSE [js |-> "string", units |-> NewFromUtf8(u.out)]

----------------------------------------------------------------------------
Element(t) == [kind |-> "int", width |-> t.width, signed |-> t.signed]

\* Mutant: elements that fail to convert are left out.
ArraySkipsBad(t, v) ==
    IF v.js = "array"
    THEN SelectSeq([i \in DOMAIN v.items |-> ValueFromIntegerObject(Element(t), v.items[i])],
                   LAMBDA n : n # Reject)
    ELSE Reject

\* An array converts when each element does; a typed array only when its
\* elements have the very type, and then its bytes are copied.
ArrayFromObject(t, v) ==
    IF v.js = "array"
    THEN LET a == [i \in DOMAIN v.items |-> ValueFromIntegerObject(Element(t), v.items[i])]
         IN  IF Reject \in ToSet(a) THEN Reject ELSE a
    ELSE IF v.js = "typed" /\ v.elem = Element(t) THEN v.ints ELSE Reject

CreateJsObjectList(t, a) ==
    [js |-> "array", items |-> [i \in DOMAIN a |-> CreateInteger(Element(t), a[i])]]

ValueFromObject(t, v) ==
    CASE t.kind = "int" -> ValueFromIntegerObject(t, v)
      [] t.kind = "list" -> ArrayFromObject(t, v)
      [] t.kind = "char" -> CharFromObject(v)
      [] t.kind = "char16" -> Char16FromObject(v)

CreateJsObject(t, v) ==
    CASE t.kind = "int" -> CreateInteger(t, v)
      [] t.kind = "list" -> CreateJsObjectList(t, v)
      [] t.kind = "char" -> CreateChar(v)
      [] t.kind = "char16" -> CreateChar16(v)

----------------------------------------------------------------------------
Other == [js |-> "other"]

NativeValues(t) ==
    CASE t.kind = "int" -> RangeOf(t)
      [] t.kind = "list" -> BoundedSeq(Items \intersect RangeOf(t), MaxList)
      [] t.kind = "char" -> 0..255
      [] t.kind = "char16" -> Codes

ScriptInts == {[js |-> k, n |-> n] : k \in {"number", "bigint"}, n \in Numbers} \union {Other}

ArrayElements == {[js |-> k, n |-> n] : k \in {"number", "bigint"}, n \in Items} \union {Other}

PlainArrays == {[js |-> "array", items |-> s] : s \in BoundedSeq(ArrayElements, MaxList)}

TypedArrays ==
    UNION {{[js |-> "typed", elem |-> e, ints |-> s] :
              s \in BoundedSeq(Items \intersect RangeOf(e), MaxList)} : e \in Ints}

ScriptStrings ==
    {[js |-> "string", units |-> <<u>>] : u \in Codes}
    \union {[js |-> "string", units |-> <<>>], [js |-> "string", units |-> <<97, 98>>], Other}

ScriptValues(t) ==
    CASE t.kind = "int" -> ScriptInts
      [] t.kind = "list" -> PlainArrays \union TypedArrays \union {Other}
      [] OTHER -> ScriptStrings

Init ==
    /\ type \in Types
    /\ side \in {"native", "script"}
    /\ value \in IF side = "native" THEN NativeValues(type) ELSE ScriptValues(type)
    /\ start = [side |-> side, value |-> value]

ToScript ==
    /\ side = "native"
    /\ value # Reject
    /\ side' = "script"
    /\ value' = CreateJsObject(type, value)
    /\ UNCHANGED <<type, start>>

ToNative ==
    /\ side = "script"
    /\ value # Reject
    /\ side' = "native"
    /\ value' = ValueFromObject(type, value)
    /\ UNCHANGED <<type, start>>

Next == ToScript \/ ToNative

Spec == Init /\ [][Next]_vars

----------------------------------------------------------------------------
(***************************************************************************)
(* Whatever a script passes, the native function receives a value of the   *)
(* type it declares, or the call throws (ValueFromObject).                 *)
(***************************************************************************)
TypeOK ==
    /\ type \in Types
    /\ side = "native" /\ value # Reject =>
          CASE type.kind = "int" -> value \in RangeOf(type)
            [] type.kind = "list" -> \A i \in DOMAIN value : value[i] \in RangeOf(type)
            [] type.kind = "char" -> value \in 0..255
            [] type.kind = "char16" -> value \in Units

(***************************************************************************)
(* A script that returns the integer, the array or the character it was    *)
(* given returns the very value: nothing is lost in the two conversions,   *)
(* for any width, in particular for uint64_t beyond int64_t.  Only what is *)
(* no character by itself throws instead: a lone surrogate, a byte that is *)
(* not ASCII (CreateJsObject, ValueFromObject).                            *)
(***************************************************************************)
EchoKept ==
    start.side = "native" /\ side = "native" /\ type \in Types =>
        \/ value = start.value
        \/ /\ value = Reject
           /\ \/ type.kind = "char" /\ start.value >= 128
              \/ type.kind = "char16" /\ Surrogate(start.value)

\* A value the script started with has reached native code.
Arrived(kinds) == start.side = "script" /\ side = "native" /\ type.kind \in kinds

\* An integer is cut to the declared type, and unchanged when it lies within
\* that type; a Number must lie within int64_t too, for it goes through
\* IntegerValue even when the type is uint64_t.
IntegerKept(t, v, n) ==
    IF v.js \notin {"number", "bigint"} THEN n = Reject
    ELSE /\ n \in RangeOf(t)
         /\ \/ v.n \notin RangeOf(t)
            \/ v.js = "number" /\ v.n \notin RangeOf(Int64)
            \/ n = v.n

\* A string of one unit is that character, if the type has it, and the empty
\* string is NUL.  A char16_t has a lone surrogate only as the character by
\* which V8 has replaced it before the module sees it.
CharTaken(t, v) ==
    IF v.js # "string" \/ Len(v.units) > 1 THEN Reject
    ELSE IF v.units = <<>> THEN 0
    ELSE IF t.kind = "char" THEN IF v.units[1] < 128 THEN v.units[1] ELSE Reject
    ELSE IF Surrogate(v.units[1]) THEN Replacement ELSE v.units[1]

\* An array arrives with each of its elements in its place, unless one has
\* not converted; a typed array as it is, and only as the type it has.
ArrayKept(t, v, a) ==
    CASE v.js = "array" ->
            IF \E i \in DOMAIN v.items : v.items[i].js \notin {"number", "bigint"}
            THEN a = Reject
            ELSE /\ Len(a) = Len(v.items)
                 /\ \A i \in DOMAIN v.items : IntegerKept(Element(t), v.items[i], a[i])
      [] v.js = "typed" -> a = IF v.elem = Element(t) THEN v.ints ELSE Reject
      [] OTHER -> a = Reject

(***************************************************************************)
(* What a script passes arrives as itself or the call throws, at every     *)
(* boundary of the integer types, of the UTF-8 lengths and the surrogates, *)
(* and whichever element of an array does not convert: no character for    *)
(* another, no element lost or changed, and nothing rejected that the type *)
(* can hold, except typed arrays of another type.  Only integers beyond    *)
(* their type are cut.                                                     *)
(***************************************************************************)
ScriptValueKept ==
    /\ Arrived({"int"}) => IntegerKept(type, start.value, value)
    /\ Arrived({"char", "char16"}) => value = CharTaken(type, start.value)
    /\ Arrived({"list"}) => ArrayKept(type, start.value, value)
=============================================================================
