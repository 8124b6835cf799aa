--------------------------- MODULE ConvertProofs ---------------------------
(***************************************************************************)
(* Proofs about Convert and ConvertAny: integers, characters, arrays of    *)
(* integers and `any' survive the way to a script and back, for any        *)
(* widths, any arrays and all UTF-16 units.                                *)
(***************************************************************************)
EXTENDS ConvertAny, TLAPS, WellFoundedInduction

\* Induction over the natural numbers, for a set.
LEMMA NatSetInduction ==
  ASSUME NEW S, 0 \in S, \A n \in Nat : n \in S => n + 1 \in S
  PROVE  \A n \in Nat : n \in S
<1> SUFFICES ASSUME Nat \ S # {} PROVE FALSE
  OBVIOUS
<1> DEFINE T == Nat \ S
           R == OpToRel(<, Nat)
<1>1. \E x \in T : \A y \in T : ~ (<<y, x>> \in R)
  <2>1. IsWellFoundedOn(R, Nat)
    BY NatLessThanWellFounded
  <2> HIDE DEF R
  <2>2. QED
    BY <2>1, WFMin
<1>2. \A y, z \in Nat : y < z => <<y, z>> \in R
  BY DEF OpToRel
<1> HIDE DEF R
<1>3. PICK x \in T : \A y \in T : ~ (<<y, x>> \in R)
  BY <1>1
<1>4. x # 0 /\ x - 1 \in Nat /\ x - 1 < x /\ (x - 1) + 1 = x
  OBVIOUS
<1>5. x - 1 \notin T
  BY <1>2, <1>3, <1>4
<1>6. QED
  BY <1>4, <1>5

\* The equations of Pow2, up to n.
Upto(n, g) == g[0] = 1 /\ \A k \in 1 .. n : g[k] = 2 * g[k - 1]

\* Pow2's recursive function exists: any two functions that have its equations
\* agree as far as both have them, and there is one for every n.
LEMMA Pow2Equations == Pow2[0] = 1 /\ \A n \in Nat : Pow2[n + 1] = 2 * Pow2[n]
<1> DEFINE Is(f) == f = [n \in Nat |-> IF n = 0 THEN 1 ELSE 2 * f[n - 1]]
           Have == {n \in Nat : \E g : Upto(n, g)}
           Agree == {k \in Nat : \A n, m \in Nat : \A g, h :
                       Upto(n, g) /\ Upto(m, h) /\ k <= n /\ k <= m => g[k] = h[k]}
           G(n) == CHOOSE g : Upto(n, g)
           f0 == [n \in Nat |-> G(n)[n]]
<1>1. \A n \in Nat : n \in Have
  <2>1. 0 \in Have
    <3>1. Upto(0, [k \in {0} |-> 1])
      BY DEF Upto
    <3>2. QED
      BY <3>1
  <2>2. ASSUME NEW n \in Nat, n \in Have PROVE n + 1 \in Have
    <3>1. PICK g : Upto(n, g)
      BY <2>2
    <3> DEFINE h == [k \in 0 .. n + 1 |-> IF k = n + 1 THEN 2 * g[n] ELSE g[k]]
    <3>2. h[0] = 1 /\ h[n + 1] = 2 * g[n] /\ h[n] = g[n] /\ \A k \in 1 .. n : h[k] = g[k] /\ h[k - 1] = g[k - 1]
      BY <3>1 DEF Upto
    <3> HIDE DEF h
    <3>3. Upto(n + 1, h)
      <4>1. ASSUME NEW k \in 1 .. n + 1 PROVE h[k] = 2 * h[k - 1]
        <5>1. CASE k = n + 1
          BY <3>2, <5>1
        <5>2. CASE k \in 1 .. n
          BY <3>1, <3>2, <5>2 DEF Upto
        <5>3. QED
          BY <5>1, <5>2
      <4>2. QED
        BY <3>2, <4>1 DEF Upto
    <3>4. QED
      BY <3>3
  <2> HIDE DEF Have
  <2>3. QED
    BY <2>1, <2>2, NatSetInduction
<1>2. \A n \in Nat : Upto(n, G(n))
  BY <1>1
<1>3. \A k \in Nat : k \in Agree
  <2>1. 0 \in Agree
    BY DEF Upto
  <2>2. ASSUME NEW k \in Nat, k \in Agree PROVE k + 1 \in Agree
    <3> SUFFICES ASSUME NEW n \in Nat, NEW m \in Nat, NEW g, NEW h, Upto(n, g), Upto(m, h),
                        k + 1 <= n, k + 1 <= m
                 PROVE  g[k + 1] = h[k + 1]
      OBVIOUS
    <3>1. g[k] = h[k]
      BY <2>2
    <3>2. k + 1 \in 1 .. n /\ k + 1 \in 1 .. m /\ (k + 1) - 1 = k
      OBVIOUS
    <3>3. QED
      BY <3>1, <3>2 DEF Upto
  <2> HIDE DEF Agree
  <2>3. QED
    BY <2>1, <2>2, NatSetInduction
<1> HIDE DEF G
<1>4. f0[0] = 1
  BY <1>2 DEF Upto
<1>5. ASSUME NEW n \in Nat, n # 0 PROVE f0[n] = 2 * f0[n - 1]
  <2>1. n - 1 \in Nat /\ n \in 1 .. n /\ n - 1 <= n /\ n - 1 <= n - 1
    BY <1>5
  <2>2. G(n)[n] = 2 * G(n)[n - 1]
    BY <1>2, <2>1 DEF Upto
  <2>3. G(n)[n - 1] = G(n - 1)[n - 1]
    BY <1>2, <1>3, <2>1
  <2>4. f0[n] = G(n)[n] /\ f0[n - 1] = G(n - 1)[n - 1]
    BY <2>1
  <2>5. QED
    BY <2>2, <2>3, <2>4
<1>6. Is(f0)
  <2> DEFINE v(n) == IF n = 0 THEN 1 ELSE 2 * f0[n - 1]
  <2>1. \A n \in Nat : f0[n] = v(n)
    BY <1>4, <1>5
  <2>2. f0 = [n \in Nat |-> f0[n]]
    OBVIOUS
  <2> HIDE DEF f0, v
  <2>3. f0 = [n \in Nat |-> v(n)]
    BY <2>1, <2>2
  <2>4. QED
    BY <2>3 DEF v
<1>7. Is(CHOOSE f : Is(f))
  BY <1>6
<1>8. Pow2 = [n \in Nat |-> IF n = 0 THEN 1 ELSE 2 * Pow2[n - 1]]
  BY <1>7 DEF Pow2
<1>9. QED
  <2>1. Pow2[0] = 1
    BY <1>8
  <2>2. ASSUME NEW n \in Nat PROVE Pow2[n + 1] = 2 * Pow2[n]
    <3>1. n + 1 \in Nat /\ n + 1 # 0 /\ (n + 1) - 1 = n
      OBVIOUS
    <3>2. QED
      BY <1>8, <3>1
  <2>3. QED
    BY <2>1, <2>2

LEMMA Pow2Positive == \A n \in Nat : Pow2[n] \in Nat /\ Pow2[n] > 0
<1> DEFINE S == {n \in Nat : Pow2[n] \in Nat /\ Pow2[n] > 0}
<1>1. 0 \in S
  BY Pow2Equations
<1>2. ASSUME NEW n \in Nat, n \in S PROVE n + 1 \in S
  BY <1>2, Pow2Equations
<1> HIDE DEF S
<1>3. \A n \in Nat : n \in S
  BY <1>1, <1>2, NatSetInduction
<1>4. QED
  BY <1>3 DEF S

\* Powers grow with the exponent.
LEMMA Pow2Grows == \A n, m \in Nat : n <= m => Pow2[n] <= Pow2[m]
<1> SUFFICES ASSUME NEW n \in Nat PROVE \A m \in Nat : n <= m => Pow2[n] <= Pow2[m]
  OBVIOUS
<1> DEFINE S == {d \in Nat : Pow2[n] <= Pow2[n + d]}
<1>1. 0 \in S
  BY Pow2Positive
<1>2. ASSUME NEW d \in Nat, d \in S PROVE d + 1 \in S
  <2>1. Pow2[(n + d) + 1] = 2 * Pow2[n + d] /\ n + (d + 1) = (n + d) + 1
    BY Pow2Equations
  <2>2. Pow2[n + d] \in Nat /\ Pow2[n] \in Nat
    BY Pow2Positive
  <2>3. QED
    BY <1>2, <2>1, <2>2
<1>3. \A d \in Nat : d \in S
  <2> HIDE DEF S
  <2>1. QED
    BY <1>1, <1>2, NatSetInduction
<1>4. ASSUME NEW m \in Nat, n <= m PROVE Pow2[n] <= Pow2[m]
  <2>1. m - n \in S /\ n + (m - n) = m
    BY <1>3, <1>4
  <2>2. QED
    BY <2>1
<1>5. QED
  BY <1>4

----------------------------------------------------------------------------
\* Integers.

LEMMA WidthFacts ==
  ASSUME NEW t, t.width \in Widths, t.signed \in BOOLEAN
  PROVE  /\ t.width \in 1 .. Wide /\ Wide \in Nat
         /\ Pow2[t.width - 1] \in Nat /\ Pow2[t.width - 1] > 0
         /\ Pow2[t.width] = 2 * Pow2[t.width - 1]
         /\ Pow2[Wide - 1] \in Nat /\ Pow2[Wide] = 2 * Pow2[Wide - 1]
         /\ Pow2[t.width - 1] <= Pow2[Wide - 1]
         /\ t.width # Wide => Pow2[t.width] <= Pow2[Wide - 1]
<1>1. t.width \in 1 .. Wide /\ Wide \in Nat
  BY ConvertConstants
<1> DEFINE w == t.width
<1> HIDE DEF w
<1>2. w - 1 \in Nat /\ Wide - 1 \in Nat /\ w = (w - 1) + 1 /\ Wide = (Wide - 1) + 1 /\ w - 1 <= Wide - 1
      /\ w \in Nat /\ (w # Wide => w <= Wide - 1)
  BY <1>1 DEF w
<1>3. Pow2[w] = 2 * Pow2[w - 1] /\ Pow2[Wide] = 2 * Pow2[Wide - 1]
  BY <1>2, Pow2Equations
<1>4. Pow2[w - 1] \in Nat /\ Pow2[w - 1] > 0 /\ Pow2[Wide - 1] \in Nat
  BY <1>2, Pow2Positive
<1>5. Pow2[w - 1] <= Pow2[Wide - 1] /\ (w # Wide => Pow2[w] <= Pow2[Wide - 1])
  BY <1>2, Pow2Grows
<1>6. QED
  BY <1>1, <1>3, <1>4, <1>5 DEF w

LEMMA CastInRange ==
  ASSUME NEW t, t.width \in Widths, t.signed \in BOOLEAN, NEW n \in Int
  PROVE  Cast(t, n) \in RangeOf(t)
<1> DEFINE h == Pow2[t.width - 1]
<1>1. h \in Nat /\ h > 0 /\ Pow2[t.width] = 2 * h
  BY WidthFacts
<1> HIDE DEF h
<1>2. n % (2 * h) \in 0 .. 2 * h - 1
  BY <1>1
<1>3. CASE t.signed
  <2>1. Cast(t, n) = IF n % (2 * h) >= h THEN (n % (2 * h)) - 2 * h ELSE n % (2 * h)
    BY <1>1, <1>3 DEF Cast, h
  <2>2. RangeOf(t) = -h .. h - 1
    BY <1>3 DEF RangeOf, h
  <2>3. QED
    BY <1>1, <1>2, <2>1, <2>2
<1>4. CASE ~ t.signed
  <2>1. Cast(t, n) = n % (2 * h)
    BY <1>1, <1>4 DEF Cast
  <2>2. RangeOf(t) = 0 .. 2 * h - 1
    BY <1>1, <1>4 DEF RangeOf
  <2>3. QED
    BY <1>2, <2>1, <2>2
<1>5. QED
  BY <1>3, <1>4

LEMMA CastKeeps ==
  ASSUME NEW t, t.width \in Widths, t.signed \in BOOLEAN, NEW n \in RangeOf(t)
  PROVE  n \in Int /\ Cast(t, n) = n
<1> DEFINE h == Pow2[t.width - 1]
<1>1. h \in Nat /\ h > 0 /\ Pow2[t.width] = 2 * h
  BY WidthFacts
<1> HIDE DEF h
<1>3. CASE t.signed
  <2>1. Cast(t, n) = IF n % (2 * h) >= h THEN (n % (2 * h)) - 2 * h ELSE n % (2 * h)
    BY <1>1, <1>3 DEF Cast, h
  <2>2. n \in -h .. h - 1
    BY <1>3 DEF RangeOf, h
  <2>3. n < 0 => n % (2 * h) = n + 2 * h
    BY <1>1, <2>2
  <2>4. n >= 0 => n % (2 * h) = n
    BY <1>1, <2>2
  <2>5. QED
    BY <1>1, <2>1, <2>2, <2>3, <2>4
<1>4. CASE ~ t.signed
  <2>1. Cast(t, n) = n % (2 * h)
    BY <1>1, <1>4 DEF Cast
  <2>2. n \in 0 .. 2 * h - 1
    BY <1>1, <1>4 DEF RangeOf
  <2>3. QED
    BY <1>1, <2>1, <2>2
<1>5. QED
  BY <1>3, <1>4

\* The types that travel as a Number lie within int64_t.
LEMMA Int64Facts ==
  /\ Int64.width \in Widths /\ Int64.signed \in BOOLEAN /\ Int64.width = Wide
  /\ RangeOf(Int64) = -Pow2[Wide - 1] .. Pow2[Wide - 1] - 1
  /\ Pow2[Wide - 1] \in Nat
<1>1. Int64.width \in Widths /\ Int64.signed \in BOOLEAN /\ Int64.width = Wide /\ Int64.signed = TRUE
  BY ConvertConstants DEF Int64
<1>2. Pow2[Wide - 1] \in Nat
  BY <1>1, WidthFacts
<1>3. QED
  BY <1>1, <1>2 DEF RangeOf

LEMMA NarrowInInt64 ==
  ASSUME NEW t, t.width \in Widths, t.signed \in BOOLEAN, t.signed \/ t.width # Wide, NEW n \in RangeOf(t)
  PROVE  n \in RangeOf(Int64)
<1>1. CASE t.signed
  <2>1. n \in -Pow2[t.width - 1] .. Pow2[t.width - 1] - 1
    BY <1>1 DEF RangeOf
  <2> DEFINE h == Pow2[t.width - 1]
             b == Pow2[Wide - 1]
  <2>2. h \in Nat /\ b \in Nat /\ h <= b
    BY WidthFacts
  <2>3. RangeOf(Int64) = -b .. b - 1
    BY Int64Facts
  <2> HIDE DEF h, b
  <2>4. n \in -h .. h - 1
    BY <2>1 DEF h
  <2>5. QED
    BY <2>2, <2>3, <2>4
<1>2. CASE ~ t.signed
  <2>1. n \in 0 .. Pow2[t.width] - 1
    BY <1>2 DEF RangeOf
  <2>2. Pow2[t.width] \in Nat /\ Pow2[t.width] <= Pow2[Wide - 1]
    BY <1>2, WidthFacts
  <2>3. QED
    BY <2>1, <2>2, Int64Facts
<1>3. QED
  BY <1>1, <1>2

\* Int64Value keeps what int64_t holds; a larger uint64_t comes out of the cast
\* as it went in.
LEMMA BigIntKept ==
  ASSUME NEW t, t.width \in Widths, t.signed \in BOOLEAN, NEW n \in RangeOf(t)
  PROVE  Int64Value(n) \in Int /\ Cast(t, Int64Value(n)) = n
<1>1. n \in Int
  BY CastKeeps
<1>2. CASE n \in RangeOf(Int64)
  <2>1. Int64Value(n) = n
    BY <1>2, Int64Facts, CastKeeps DEF Int64Value
  <2>2. QED
    BY <1>1, <2>1, CastKeeps
<1>3. CASE n \notin RangeOf(Int64)
  <2> DEFINE h == Pow2[Wide - 1]
  <2>1. ~ t.signed /\ t.width = Wide
    BY <1>3, NarrowInInt64
  <2>2. h \in Nat /\ h > 0 /\ Pow2[Wide] = 2 * h
    BY <2>1, WidthFacts
  <2>3. n \in 0 .. 2 * h - 1 /\ n \notin -h .. h - 1
    BY <1>3, <2>1, <2>2, Int64Facts DEF RangeOf
  <2>4. Int64Value(n) = IF n % (2 * h) >= h THEN (n % (2 * h)) - 2 * h ELSE n % (2 * h)
    BY <2>2 DEF Int64Value, Cast, Int64
  <2>5. \A k : Cast(t, k) = k % (2 * h)
    BY <2>1, <2>2 DEF Cast
  <2> HIDE DEF h
  <2>6. n % (2 * h) = n /\ n >= h
    BY <2>2, <2>3
  <2>7. Int64Value(n) = n - 2 * h
    BY <2>2, <2>3, <2>4, <2>6
  <2>8. (n - 2 * h) % (2 * h) = n
    <3>1. n - 2 * h \in Int /\ -(2 * h) <= n - 2 * h /\ n - 2 * h < 0
      BY <2>2, <2>3
    <3>2. (n - 2 * h) % (2 * h) = (n - 2 * h) + 2 * h
      BY <2>2, <3>1
    <3>3. QED
      BY <2>2, <2>3, <3>2
  <2>9. QED
    BY <1>1, <2>2, <2>5, <2>7, <2>8
<1>4. QED
  BY <1>2, <1>3

\* IntegerValue keeps what int64_t holds.
LEMMA NumberKept ==
  ASSUME NEW n \in RangeOf(Int64)
  PROVE  IntegerValue(n) = n
  BY Int64Facts DEF IntegerValue

LEMMA NumberTyped ==
  ASSUME NEW n \in Int
  PROVE  IntegerValue(n) \in Int /\ Int64Value(n) \in Int
<1>1. IntegerValue(n) \in Int
  BY Int64Facts DEF IntegerValue
<1>2. Int64Value(n) \in RangeOf(Int64)
  BY Int64Facts, CastInRange DEF Int64Value
<1>3. QED
  BY <1>1, <1>2, Int64Facts

\* An integer that a script hands back is the one that it was given.
LEMMA IntegerEcho ==
  ASSUME NEW t, t.width \in Widths, t.signed \in BOOLEAN, NEW n \in RangeOf(t)
  PROVE  ValueFromIntegerObject(t, CreateInteger(t, n)) = n
<1>1. CASE t.width = Wide
  <2>1. CreateInteger(t, n) = [js |-> "bigint", n |-> n]
    BY <1>1 DEF CreateInteger
  <2>2. QED
    BY <2>1, BigIntKept DEF ValueFromIntegerObject, IsInRange
<1>2. CASE t.width # Wide
  <2>1. CreateInteger(t, n) = [js |-> "number", n |-> n]
    BY <1>2 DEF CreateInteger
  <2>2. n \in RangeOf(Int64)
    BY <1>2, NarrowInInt64
  <2>3. IntegerValue(n) = n /\ Cast(t, n) = n
    BY <2>2, NumberKept, CastKeeps
  <2>4. QED
    BY <2>1, <2>3 DEF ValueFromIntegerObject, IsInRange
<1>3. QED
  BY <1>1, <1>2

\* What a script passes as an integer.
Integral(v) == v.js \in {"number", "bigint"} /\ v.n \in Int

\* It arrives as an integer of the declared type, unchanged if that holds it,
\* and int64_t too for a Number.
LEMMA IntegerArrives ==
  ASSUME NEW t, t.width \in Widths, t.signed \in BOOLEAN, NEW v, Integral(v)
  PROVE  LET n == ValueFromIntegerObject(t, v) IN
         /\ n \in RangeOf(t)
         /\ v.n \in RangeOf(t) /\ (v.js = "number" => v.n \in RangeOf(Int64)) => n = v.n
<1>1. CASE v.js = "number"
  <2>1. ValueFromIntegerObject(t, v) = Cast(t, IntegerValue(v.n))
    BY <1>1 DEF ValueFromIntegerObject, IsInRange
  <2>2. IntegerValue(v.n) \in Int
    BY NumberTyped DEF Integral
  <2>3. v.n \in RangeOf(Int64) => IntegerValue(v.n) = v.n
    BY NumberKept
  <2>4. Cast(t, IntegerValue(v.n)) \in RangeOf(t)
    BY <2>2, CastInRange
  <2>5. v.n \in RangeOf(t) => Cast(t, v.n) = v.n
    BY CastKeeps
  <2>6. QED
    BY <1>1, <2>1, <2>3, <2>4, <2>5
<1>2. CASE v.js = "bigint"
  <2>1. ValueFromIntegerObject(t, v) = Cast(t, Int64Value(v.n))
    BY <1>2 DEF ValueFromIntegerObject, IsInRange
  <2>2. Int64Value(v.n) \in Int
    BY NumberTyped DEF Integral
  <2>3. Cast(t, Int64Value(v.n)) \in RangeOf(t)
    BY <2>2, CastInRange
  <2>4. v.n \in RangeOf(t) => Cast(t, Int64Value(v.n)) = v.n
    BY BigIntKept
  <2>5. QED
    BY <2>1, <2>3, <2>4
<1>3. QED
  BY <1>1, <1>2 DEF Integral

LEMMA IntegerIsKept ==
  ASSUME NEW t, t.width \in Widths, t.signed \in BOOLEAN, NEW v, Integral(v)
  PROVE  IntegerKept(t, v, ValueFromIntegerObject(t, v))
<1> DEFINE n == ValueFromIntegerObject(t, v)
<1>1. /\ n \in RangeOf(t)
      /\ v.n \in RangeOf(t) /\ (v.js = "number" => v.n \in RangeOf(Int64)) => n = v.n
  BY IntegerArrives
<1> HIDE DEF n
<1>2. QED
  BY <1>1, Zenon DEF IntegerKept, Integral, n

----------------------------------------------------------------------------
\* Characters.

\* The unit that two and three bytes of UTF-8 stand for.
Join2(a, b) == (a - 192) * 64 + (b - 128)
Join3(a, b, d) == (a - 224) * 4096 + (b - 128) * 64 + (d - 128)

Unit(u) == u \in Int /\ 0 <= u /\ u < 65536

LEMMA UnitFacts ==
  ASSUME NEW u
  PROVE  Unit(u) <=> u \in Units
<1> DEFINE n == 65535
<1>1. n \in Int /\ n < 65536 /\ \A k \in Int : k < 65536 => k <= n
  OBVIOUS
<1>2. Units = 0 .. n
  BY DEF Units
<1> HIDE DEF n
<1>3. u \in 0 .. n <=> u \in Int /\ 0 <= u /\ u <= n
  BY <1>1
<1>4. u \in Int => (u < 65536 <=> u <= n)
  BY <1>1
<1>5. QED
  BY <1>2, <1>3, <1>4 DEF Unit

LEMMA Bytes2 ==
  ASSUME NEW u \in Int, 128 <= u, u < 2048
  PROVE  /\ 192 + (u \div 64) \in 194 .. 223 /\ Cont(u) \in 128 .. 191
         /\ Join2(192 + (u \div 64), Cont(u)) = u
  BY SMT DEF Cont, Join2

LEMMA Bytes3 ==
  ASSUME NEW u \in Int, 2048 <= u, u < 65536
  PROVE  /\ 224 + (u \div 4096) \in 224 .. 239 /\ Cont(u \div 64) \in 128 .. 191 /\ Cont(u) \in 128 .. 191
         /\ Join3(224 + (u \div 4096), Cont(u \div 64), Cont(u)) = u
<1> DEFINE q == u \div 64
<1>1. q \in 0 .. 1023 /\ u = q * 64 + (u % 64) /\ u % 64 \in 0 .. 63
  BY SMT
<1>2. u \div 4096 = q \div 64
  BY SMT
<1> HIDE DEF q
<1>3. q = (q \div 64) * 64 + (q % 64) /\ q \div 64 \in 0 .. 15 /\ q % 64 \in 0 .. 63
  BY <1>1, SMT
<1>4. 224 + (q \div 64) \in 224 .. 239 /\ Cont(q) \in 128 .. 191 /\ Cont(u) \in 128 .. 191
  BY <1>1, <1>3, SMT DEF Cont
<1>5. Join3(224 + (q \div 64), Cont(q), Cont(u)) = u
  BY <1>1, <1>3, SMT DEF Cont, Join3
<1>6. QED
  BY <1>2, <1>4, <1>5, SMT DEF q

LEMMA Read3 ==
  ASSUME NEW a \in 224 .. 239, NEW b \in 128 .. 191, NEW d \in 128 .. 191, ~ Surrogate(Join3(a, b, d))
  PROVE  ConvertUtf8ToUtf16(<<a, b, d>>) = [rc |-> 3, ch |-> Join3(a, b, d)]
<1> DEFINE s == <<a, b, d>>
<1>1. s # <<>> /\ Len(s) = 3 /\ s[1] = a /\ s[2] = b /\ s[3] = d
  BY SMT
<1>2. a # 0 /\ a \div 8 # 30 /\ a \div 16 = 14 /\ b \div 64 = 2 /\ d \div 64 = 2
  BY SMT
<1>3. (a % 16) * 4096 + (b % 64) * 64 + (d % 64) = Join3(a, b, d)
  <2>1. a % 16 = a - 224 /\ b % 64 = b - 128 /\ d % 64 = d - 128
    BY SMT
  <2>2. QED
    BY <2>1, SMT DEF Join3
<1> HIDE DEF s
<1>4. ConvertUtf8ToUtf16(s) = [rc |-> 3, ch |-> Join3(a, b, d)]
  BY <1>1, <1>2, <1>3, SMT DEF ConvertUtf8ToUtf16, Continues
<1>5. QED
  BY <1>4, SMT DEF s

LEMMA Read2 ==
  ASSUME NEW a \in 194 .. 223, NEW b \in 128 .. 191
  PROVE  ConvertUtf8ToUtf16(<<a, b>>) = [rc |-> 2, ch |-> Join2(a, b)]
<1> DEFINE s == <<a, b>>
<1>1. s # <<>> /\ Len(s) = 2 /\ s[1] = a /\ s[2] = b
  BY SMT
<1>2. a # 0 /\ a \div 8 # 30 /\ a \div 16 # 14 /\ a \div 32 = 6 /\ b \div 64 = 2
  BY SMT
<1>3. (a % 32) * 64 + (b % 64) = Join2(a, b)
  <2>1. a % 32 = a - 192 /\ b % 64 = b - 128
    BY SMT
  <2>2. QED
    BY <2>1, SMT DEF Join2
<1> HIDE DEF s
<1>4. ConvertUtf8ToUtf16(s) = [rc |-> 2, ch |-> Join2(a, b)]
  BY <1>1, <1>2, <1>3, SMT DEF ConvertUtf8ToUtf16, Continues
<1>5. QED
  BY <1>4, SMT DEF s

LEMMA Read1 ==
  ASSUME NEW a \in 0 .. 127
  PROVE  ConvertUtf8ToUtf16(<<a>>).rc >= 0 /\ ConvertUtf8ToUtf16(<<a>>).ch = a
<1> DEFINE s == <<a>>
<1>1. s # <<>> /\ s[1] = a
  BY SMT
<1>2. a \div 8 # 30 /\ a \div 16 # 14 /\ a \div 32 # 6 /\ a < 128
  BY SMT
<1> HIDE DEF s
<1>3. CASE a = 0
  <2>1. ConvertUtf8ToUtf16(s) = [rc |-> 0, ch |-> 0]
    BY <1>1, <1>3, SMT DEF ConvertUtf8ToUtf16
  <2>2. QED
    BY <1>3, <2>1, SMT DEF s
<1>4. CASE a # 0
  <2>1. ConvertUtf8ToUtf16(s) = [rc |-> 1, ch |-> a]
    BY <1>1, <1>2, <1>4, SMT DEF ConvertUtf8ToUtf16
  <2>2. QED
    BY <1>4, <2>1, SMT DEF s
<1>5. QED
  BY <1>3, <1>4, SMT

\* V8's UTF-8 of a unit: one, two or three bytes.
\* A unit's UTF-8 has one, two or three bytes.
OneByte(u, s) == u < 128 /\ s = <<u>>
TwoBytes(u, s) == \E a \in 194 .. 223, b \in 128 .. 191 : s = <<a, b>> /\ Join2(a, b) = u
ThreeBytes(u, s) ==
  \E a \in 224 .. 239, b \in 128 .. 191, d \in 128 .. 191 : s = <<a, b, d>> /\ Join3(a, b, d) = u

\* V8's UTF-8 of a unit.
LEMMA UnitBytes ==
  ASSUME NEW u, Unit(u), ~ Surrogate(u)
  PROVE  OneByte(u, Utf8Value(u)) \/ TwoBytes(u, Utf8Value(u)) \/ ThreeBytes(u, Utf8Value(u))
<1> DEFINE a2 == 192 + (u \div 64)
           a == 224 + (u \div 4096)
           b == Cont(u \div 64)
           d == Cont(u)
<1>1. u < 128 => Utf8Value(u) = <<u>>
  BY SMT DEF Utf8Value
<1>2. u \in Int /\ u >= 128 /\ u < 2048 => Utf8Value(u) = <<a2, d>>
  BY SMT DEF Utf8Value
<1>3. u \in Int /\ u >= 2048 => Utf8Value(u) = <<a, b, d>>
  BY SMT DEF Utf8Value
<1>4. u \in Int /\ u >= 128 /\ u < 2048 => a2 \in 194 .. 223 /\ d \in 128 .. 191 /\ Join2(a2, d) = u
  BY Bytes2, SMT
<1>5. u \in Int /\ u >= 2048 /\ u < 65536 => a \in 224 .. 239 /\ b \in 128 .. 191 /\ d \in 128 .. 191 /\ Join3(a, b, d) = u
  BY Bytes3, SMT
<1>6. \/ u < 128
      \/ u \in Int /\ u >= 128 /\ u < 2048
      \/ u \in Int /\ u >= 2048 /\ u < 65536
  BY SMT DEF Unit
<1> HIDE DEF a2, a, b, d
<1>7. CASE u < 128
  BY ONLY <1>1, <1>7, Zenon DEF OneByte
<1>8. ASSUME a2 \in 194 .. 223 /\ d \in 128 .. 191 /\ Join2(a2, d) = u, Utf8Value(u) = <<a2, d>>
      PROVE  TwoBytes(u, Utf8Value(u))
  BY ONLY <1>8, Zenon DEF TwoBytes
<1>9. ASSUME a \in 224 .. 239 /\ b \in 128 .. 191 /\ d \in 128 .. 191 /\ Join3(a, b, d) = u, Utf8Value(u) = <<a, b, d>>
      PROVE  ThreeBytes(u, Utf8Value(u))
  BY ONLY <1>9, Zenon DEF ThreeBytes
<1>10. QED
  BY <1>2, <1>3, <1>4, <1>5, <1>6, <1>7, <1>8, <1>9, SMT

\* Read back by ConvertUtf8ToUtf16, it is the unit again, or the replacement
\* character for a lone surrogate.
LEMMA UnitArrives ==
  ASSUME NEW u, Unit(u)
  PROVE  /\ ConvertUtf8ToUtf16(Utf8Value(u)).rc >= 0
         /\ ConvertUtf8ToUtf16(Utf8Value(u)).ch = IF Surrogate(u) THEN Replacement ELSE u
<1> DEFINE s == Utf8Value(u)
           c == ConvertUtf8ToUtf16(s)
<1>1. CASE Surrogate(u)
  <2>1. Utf8Value(u) = <<239, 191, 189>>
    BY <1>1, Zenon DEF Utf8Value
  <2>2. Join3(239, 191, 189) = Replacement /\ ~ Surrogate(Join3(239, 191, 189))
    BY SMT DEF Join3, Surrogate, Replacement
  <2>3. 239 \in 224 .. 239 /\ 191 \in 128 .. 191 /\ 189 \in 128 .. 191
    BY SMT
  <2> DEFINE x == 239
             y == 191
             z == 189
  <2>4. ConvertUtf8ToUtf16(<<x, y, z>>) = [rc |-> 3, ch |-> Join3(x, y, z)]
    <3>1. ~ Surrogate(Join3(x, y, z)) /\ x \in 224 .. 239 /\ y \in 128 .. 191 /\ z \in 128 .. 191
      BY <2>2, <2>3
    <3> HIDE DEF x, y, z
    <3>2. QED
      BY ONLY <3>1, Read3, Zenon
  <2>5. QED
    BY <1>1, <2>1, <2>2, <2>4, SMT
<1>2. CASE ~ Surrogate(u)
  <2>1. CASE OneByte(u, s)
    <3>1. u \in 0 .. 127
      BY <2>1, SMT DEF OneByte, Unit
    <3>2. c.rc >= 0 /\ c.ch = u
      BY ONLY <2>1, <3>1, Read1, Zenon DEF OneByte
    <3>3. QED
      BY <1>2, <3>2
  <2>2. CASE TwoBytes(u, s)
    <3>1. c = [rc |-> 2, ch |-> u]
      BY ONLY <2>2, Read2, Zenon DEF TwoBytes
    <3>2. QED
      BY <1>2, <3>1, SMT
  <2>3. CASE ThreeBytes(u, s)
    <3>1. c = [rc |-> 3, ch |-> u]
      BY ONLY <1>2, <2>3, Read3, Zenon DEF ThreeBytes
    <3>2. QED
      BY <1>2, <3>1, SMT
  <2>4. QED
    BY <1>2, <2>1, <2>2, <2>3, UnitBytes, Zenon
<1>3. QED
  BY <1>1, <1>2, Zenon

\* Only ASCII is its own first byte.
LEMMA FirstByte ==
  ASSUME NEW u, Unit(u)
  PROVE  /\ u < 128 => Utf8Value(u)[1] = u
         /\ u >= 128 => Utf8Value(u)[1] >= 128
<1>1. CASE Surrogate(u)
  BY <1>1, SMT DEF Utf8Value, Surrogate, Unit
<1>2. CASE ~ Surrogate(u)
  BY <1>2, SMT DEF Utf8Value, Unit
<1>3. QED
  BY <1>1, <1>2, Zenon

\* ConvertUtf16ToUtf8 writes the same bytes.
LEMMA UnitWritten ==
  ASSUME NEW c, Unit(c), c # 0, ~ Surrogate(c)
  PROVE  ConvertUtf16ToUtf8(c).rc # -1 /\ ConvertUtf16ToUtf8(c).out = Utf8Value(c)
<1>1. CASE c < 128
  BY <1>1, SMT DEF Utf8Value, ConvertUtf16ToUtf8
<1>2. CASE c >= 128 /\ c < 2048
  BY <1>2, SMT DEF Utf8Value, ConvertUtf16ToUtf8
<1>3. CASE c >= 2048
  <2>1. ~ c < 128 /\ ~ c < 2048
    BY <1>3, SMT DEF Unit
  <2> DEFINE s == <<224 + (c \div 4096), Cont(c \div 64), Cont(c)>>
  <2>2. Utf8Value(c) = s
    BY <2>1, SMT DEF Utf8Value
  <2>3. ConvertUtf16ToUtf8(c) = [rc |-> 3, out |-> s]
    BY <2>1, SMT DEF ConvertUtf16ToUtf8
  <2> HIDE DEF s
  <2>4. QED
    BY <2>2, <2>3, SMT
<1>4. QED
  BY <1>1, <1>2, <1>3, SMT DEF Unit

LEMMA Decoded2 ==
  ASSUME NEW a \in 194 .. 223, NEW b \in 128 .. 191
  PROVE  NewFromUtf8(<<a, b>>) = <<Join2(a, b)>>
<1> DEFINE s == <<a, b>>
<1>1. Len(s) = 2 /\ s[1] = a /\ s[2] = b
  BY SMT
<1>2. (a - 192) * 64 + b - 128 = Join2(a, b)
  BY SMT DEF Join2
<1> HIDE DEF s
<1>3. NewFromUtf8(s) = <<Join2(a, b)>>
  BY <1>1, <1>2, SMT DEF NewFromUtf8
<1>4. QED
  BY <1>3, SMT DEF s

LEMMA Decoded3 ==
  ASSUME NEW a \in 224 .. 239, NEW b \in 128 .. 191, NEW d \in 128 .. 191
  PROVE  NewFromUtf8(<<a, b, d>>) = <<Join3(a, b, d)>>
<1> DEFINE s == <<a, b, d>>
<1>1. Len(s) = 3 /\ s[1] = a /\ s[2] = b /\ s[3] = d
  BY SMT
<1>2. (a - 224) * 4096 + (b - 128) * 64 + d - 128 = Join3(a, b, d)
  BY SMT DEF Join3
<1> HIDE DEF s
<1>3. NewFromUtf8(s) = <<Join3(a, b, d)>>
  BY <1>1, <1>2, SMT DEF NewFromUtf8
<1>4. QED
  BY <1>3, SMT DEF s

\* What CreateJsObject makes of a char16_t that is no surrogate.
LEMMA Char16Created ==
  ASSUME NEW c, Unit(c), c # 0, ~ Surrogate(c)
  PROVE  CreateChar16(c) = [js |-> "string", units |-> <<c>>]
<1> DEFINE s == Utf8Value(c)
<1>1. NewFromUtf8(s) = <<c>>
  <2>1. CASE OneByte(c, s)
    <3> HIDE DEF s
    <3>1. s = <<c>> /\ Len(s) = 1 /\ s[1] = c /\ c < 128
      BY <2>1, SMT DEF OneByte
    <3>2. QED
      BY <3>1, SMT DEF NewFromUtf8
  <2>2. CASE TwoBytes(c, s)
    BY ONLY <2>2, Decoded2, Zenon DEF TwoBytes
  <2>3. CASE ThreeBytes(c, s)
    BY ONLY <2>3, Decoded3, Zenon DEF ThreeBytes
  <2>4. QED
    BY <2>1, <2>2, <2>3, UnitBytes, Zenon
<1>2. ConvertUtf16ToUtf8(c).rc # -1 /\ ConvertUtf16ToUtf8(c).out = s
  BY UnitWritten, Zenon
<1> HIDE DEF s
<1>3. QED
  BY <1>1, <1>2, Zenon DEF CreateChar16
----------------------------------------------------------------------------
\* Types, and what travels of each.

\* A native value of a type.
Good(t, n) ==
  CASE t.kind = "int" -> n \in RangeOf(t)
    [] t.kind = "list" -> n \in Seq(RangeOf(Element(t)))
    [] t.kind = "char" -> n \in 0 .. 255
    [] t.kind = "char16" -> Unit(n)

\* What is no character by itself.
Lossy(t, n) == (t.kind = "char" /\ n >= 128) \/ (t.kind = "char16" /\ Surrogate(n))

LEMMA TypeCases ==
  ASSUME NEW t \in Types
  PROVE  /\ t # AnyType
         /\ \/ t.kind = "int" /\ t.width \in Widths /\ t.signed \in BOOLEAN
            \/ t.kind = "list" /\ t.width \in Widths /\ t.signed \in BOOLEAN
            \/ t.kind = "char"
            \/ t.kind = "char16"
<1>1. CASE t \in Ints
  BY <1>1 DEF Ints, AnyType
<1>2. CASE t \in Lists
  BY <1>2 DEF Lists, AnyType
<1>3. CASE t \in {[kind |-> "char"], [kind |-> "char16"]}
  BY <1>3 DEF AnyType
<1>4. QED
  BY <1>1, <1>2, <1>3 DEF Types

LEMMA RangeIsInt ==
  ASSUME NEW t, t.width \in Widths, t.signed \in BOOLEAN
  PROVE  RangeOf(t) \subseteq Int
  BY CastKeeps

LEMMA ElementFacts ==
  ASSUME NEW t, t.width \in Widths, t.signed \in BOOLEAN
  PROVE  /\ Element(t).width = t.width /\ Element(t).signed = t.signed
         /\ RangeOf(Element(t)) \subseteq Int
<1>1. Element(t).width = t.width /\ Element(t).signed = t.signed
  BY DEF Element
<1>2. QED
  BY <1>1, RangeIsInt

\* Bounded sequences are sequences.
LEMMA BoundedIsSeq ==
  ASSUME NEW S, NEW n \in Nat, NEW s \in BoundedSeq(S, n)
  PROVE  s \in Seq(S)
<1>1. PICK m \in 0 .. n : s \in [1 .. m -> S]
  BY Zenon DEF BoundedSeq, SeqOf
<1>2. QED
  BY <1>1

----------------------------------------------------------------------------
\* Arrays.

\* The elements of an array, each converted.
Converted(t, items) == [i \in DOMAIN items |-> ValueFromIntegerObject(Element(t), items[i])]

\* An array whose elements all convert arrives with all of them, and one with
\* an element that does not convert is rejected.
LEMMA ArrayArrives ==
  ASSUME NEW t, NEW S, Reject \notin S, NEW T, NEW items \in Seq(T), NEW v, v.js = "array", v.items = items,
         \A i \in DOMAIN items : ValueFromIntegerObject(Element(t), items[i]) \in S
  PROVE  /\ ArrayFromObject(t, v) = Converted(t, items)
         /\ Converted(t, items) \in Seq(S)
         /\ Len(Converted(t, items)) = Len(items)
<1> DEFINE a == Converted(t, items)
<1>1. ArrayFromObject(t, v) = IF Reject \in ToSet(a) THEN Reject ELSE a
  BY Zenon DEF ArrayFromObject, Converted
<1>2. DOMAIN a = DOMAIN items /\ \A i \in DOMAIN items : a[i] \in S
  BY Zenon DEF Converted
<1>3. DOMAIN items = 1 .. Len(items) /\ Len(items) \in Nat
  OBVIOUS
<1>4. a \in [1 .. Len(items) -> S]
  BY <1>3 DEF Converted
<1> HIDE DEF a
<1>5. a \in Seq(S) /\ Len(a) = Len(items)
  BY <1>3, <1>4
<1>6. Reject \notin ToSet(a)
  BY <1>2, Zenon DEF ToSet
<1>7. QED
  BY <1>1, <1>5, <1>6 DEF a

LEMMA BadElement ==
  ASSUME NEW t, NEW items, NEW v, v.js = "array", v.items = items,
         NEW i \in DOMAIN items, ValueFromIntegerObject(Element(t), items[i]) = Reject
  PROVE  ArrayFromObject(t, v) = Reject
<1> DEFINE a == Converted(t, items)
<1>1. ArrayFromObject(t, v) = IF Reject \in ToSet(a) THEN Reject ELSE a
  BY Zenon DEF ArrayFromObject, Converted
<1>2. i \in DOMAIN a /\ a[i] = Reject
  BY Zenon DEF Converted
<1>3. Reject \in ToSet(a)
  BY <1>2, Zenon DEF ToSet
<1>4. QED
  BY <1>1, <1>3

\* An array that a script hands back is the one that it was given.
LEMMA ListEcho ==
  ASSUME NEW t, t.width \in Widths, t.signed \in BOOLEAN, NEW a \in Seq(RangeOf(Element(t)))
  PROVE  ArrayFromObject(t, CreateJsObjectList(t, a)) = a
<1> DEFINE e == Element(t)
           items == [i \in DOMAIN a |-> CreateInteger(e, a[i])]
           v == CreateJsObjectList(t, a)
           T == {items[i] : i \in DOMAIN a}
           From(i) == ValueFromIntegerObject(e, items[i])
<1>1. e.width \in Widths /\ e.signed \in BOOLEAN /\ RangeOf(e) \subseteq Int
  BY ElementFacts
<1> HIDE DEF e
<1>2. v.js = "array" /\ v.items = items
  BY DEF CreateJsObjectList, e
<1> HIDE DEF v
<1>3. DOMAIN a = 1 .. Len(a) /\ Len(a) \in Nat /\ \A i \in DOMAIN a : a[i] \in RangeOf(e)
  BY DEF e
<1>4. \A i \in DOMAIN a : From(i) = a[i]
  BY <1>1, <1>3, IntegerEcho
<1>5. items \in Seq(T) /\ DOMAIN items = DOMAIN a
  <2>1. items \in [1 .. Len(a) -> T]
    BY <1>3
  <2>2. QED
    BY <1>3, <2>1
<1> HIDE DEF items, T
<1>6. Reject \notin RangeOf(e)
  BY <1>1, ConvertConstants
<1>7. \A i \in DOMAIN items : ValueFromIntegerObject(e, items[i]) \in RangeOf(e)
  BY <1>3, <1>4, <1>5, Zenon
<1>8. ArrayFromObject(t, v) = Converted(t, items)
  <2>1. /\ v.js = "array" /\ v.items = items /\ items \in Seq(T) /\ Reject \notin RangeOf(Element(t))
        /\ \A i \in DOMAIN items : ValueFromIntegerObject(Element(t), items[i]) \in RangeOf(Element(t))
    BY <1>2, <1>5, <1>6, <1>7 DEF e
  <2> HIDE DEF e, From
  <2>2. QED
    BY <2>1, ArrayArrives
<1>9. Converted(t, items) = [i \in DOMAIN a |-> a[i]]
  BY <1>4, <1>5, Zenon DEF Converted, e
<1>10. a = [i \in DOMAIN a |-> a[i]]
  OBVIOUS
<1>11. QED
  BY <1>8, <1>9, <1>10 DEF v

----------------------------------------------------------------------------
\* Both conversions, for all types.

\* A byte comes back if it is ASCII; what replaces another is rejected.
LEMMA CharEcho ==
  ASSUME NEW c \in 0 .. 255
  PROVE  CharFromObject(CreateChar(c)) = IF c < 128 THEN c ELSE Reject
<1> DEFINE v == CreateChar(c)
<1>1. CASE c = 0
  <2>1. v.js = "string" /\ v.units = <<>>
    BY <1>1, Zenon DEF CreateChar
  <2> HIDE DEF v
  <2>2. CharFromObject(v) = 0
    BY <2>1 DEF CharFromObject
  <2>3. QED
    BY <1>1, <2>2 DEF v
<1>2. ASSUME NEW u, Unit(u), c # 0, NewFromUtf8(<<c>>) = <<u>>
      PROVE  CharFromObject(v) = IF Utf8Value(u)[1] < 128 THEN Utf8Value(u)[1] ELSE Reject
  <2>1. v.js = "string" /\ v.units = <<u>>
    BY <1>2, Zenon DEF CreateChar
  <2> HIDE DEF v
  <2>2. Len(v.units) = 1 /\ v.units # <<>> /\ v.units[1] = u
    BY <2>1
  <2>3. QED
    BY <2>1, <2>2 DEF CharFromObject
<1>3. CASE c # 0 /\ c < 128
  <2>1. Unit(c) /\ NewFromUtf8(<<c>>) = <<c>>
    BY <1>3 DEF Unit, NewFromUtf8
  <2>2. Utf8Value(c)[1] = c
    BY <1>3, <2>1, FirstByte
  <2> HIDE DEF v
  <2>3. QED
    BY <1>2, <1>3, <2>1, <2>2 DEF v
<1>4. CASE c >= 128
  <2> DEFINE s == <<c>>
  <2>1. Len(s) = 1 /\ s[1] = c /\ DOMAIN s = {1}
    OBVIOUS
  <2> HIDE DEF s
  <2>2. NewFromUtf8(s) = [i \in {1} |-> Replacement]
    BY <1>4, <2>1 DEF NewFromUtf8
  <2>3. [i \in {1} |-> Replacement] = <<Replacement>>
    OBVIOUS
  <2>4. Unit(Replacement) /\ ~ Replacement < 128
    BY DEF Unit, Replacement
  <2>5. ~ Utf8Value(Replacement)[1] < 128
    <3>1. Utf8Value(Replacement)[1] >= 128
      BY <2>4, FirstByte DEF Unit
    <3>2. Utf8Value(Replacement)[1] = 239
      BY DEF Utf8Value, Replacement, Surrogate
    <3>3. QED
      BY <3>2
  <2>6. NewFromUtf8(<<c>>) = <<Replacement>>
    BY <2>2, <2>3 DEF s
  <2> HIDE DEF v
  <2>7. QED
    BY <1>2, <1>4, <2>4, <2>5, <2>6 DEF v
<1>5. QED
  BY <1>1, <1>3, <1>4

\* A surrogate was rejected when it was handed to the script.
LEMMA Char16Echo ==
  ASSUME NEW c, Unit(c), CreateChar16(c) # Reject
  PROVE  Char16FromObject(CreateChar16(c)) = c
<1> DEFINE v == CreateChar16(c)
<1>1. CASE c = 0
  <2>1. v.js = "string" /\ v.units = <<>>
    BY <1>1, Zenon DEF CreateChar16
  <2> HIDE DEF v
  <2>2. Char16FromObject(v) = 0
    BY <2>1 DEF Char16FromObject
  <2>3. QED
    BY <1>1, <2>2 DEF v
<1>2. CASE c # 0
  <2>1. ~ Surrogate(c)
    <3>1. ASSUME Surrogate(c) PROVE ConvertUtf16ToUtf8(c).rc = -1
      BY <1>2, <3>1 DEF ConvertUtf16ToUtf8, Surrogate
    <3>2. QED
      BY <1>2, <3>1, Zenon DEF CreateChar16
  <2>2. v.js = "string" /\ v.units = <<c>>
    BY <1>2, <2>1, Char16Created
  <2> HIDE DEF v
  <2>3. Len(v.units) = 1 /\ v.units # <<>> /\ v.units[1] = c
    BY <2>2
  <2>4. ConvertUtf8ToUtf16(Utf8Value(c)).rc >= 0 /\ ConvertUtf8ToUtf16(Utf8Value(c)).ch = c
    BY <2>1, UnitArrives
  <2>5. QED
    BY <2>2, <2>3, <2>4 DEF Char16FromObject, v
<1>3. QED
  BY <1>1, <1>2

\* What a script hands back is what it was given.
LEMMA Echo ==
  ASSUME NEW t \in Types, NEW n, Good(t, n), CreateJsObject(t, n) # Reject
  PROVE  LET back == ValueFromObject(t, CreateJsObject(t, n)) IN
         back = n \/ (back = Reject /\ Lossy(t, n))
<1>1. CASE t.kind = "int" /\ t.width \in Widths /\ t.signed \in BOOLEAN
  <2>1. n \in RangeOf(t)
    BY <1>1 DEF Good
  <2>2. ValueFromObject(t, CreateJsObject(t, n)) = ValueFromIntegerObject(t, CreateInteger(t, n))
    BY <1>1, Zenon DEF ValueFromObject, CreateJsObject
  <2>3. QED
    BY <1>1, <2>1, <2>2, IntegerEcho
<1>2. CASE t.kind = "list" /\ t.width \in Widths /\ t.signed \in BOOLEAN
  <2>1. n \in Seq(RangeOf(Element(t)))
    BY <1>2 DEF Good
  <2>2. ValueFromObject(t, CreateJsObject(t, n)) = ArrayFromObject(t, CreateJsObjectList(t, n))
    BY <1>2 DEF ValueFromObject, CreateJsObject
  <2>3. QED
    BY <1>2, <2>1, <2>2, ListEcho
<1>3. CASE t.kind = "char"
  <2>1. n \in 0 .. 255
    BY <1>3 DEF Good
  <2>2. ValueFromObject(t, CreateJsObject(t, n)) = CharFromObject(CreateChar(n))
    BY <1>3 DEF ValueFromObject, CreateJsObject
  <2>3. QED
    BY <1>3, <2>1, <2>2, CharEcho DEF Lossy
<1>4. CASE t.kind = "char16"
  <2>1. Unit(n)
    BY <1>4 DEF Good
  <2>2. CreateJsObject(t, n) = CreateChar16(n)
    BY <1>4 DEF CreateJsObject
  <2>3. ValueFromObject(t, CreateJsObject(t, n)) = Char16FromObject(CreateChar16(n))
    BY <1>4, <2>2 DEF ValueFromObject
  <2>4. QED
    BY <2>1, <2>2, <2>3, Char16Echo
<1>5. QED
  BY <1>1, <1>2, <1>3, <1>4, TypeCases

----------------------------------------------------------------------------
\* What a script starts with.

LEMMA IntegerStart ==
  ASSUME NEW t \in Ints, NEW x \in ScriptValues(t)
  PROVE  Integral(x) \/ x.js = "other"
<1>1. t.kind = "int"
  BY DEF Ints
<1>2. x \in ScriptInts
  BY <1>1, Zenon DEF ScriptValues
<1>3. CASE x = Other
  BY <1>3 DEF Other
<1>4. CASE \E k \in {"number", "bigint"}, n \in Numbers : x = [js |-> k, n |-> n]
  BY <1>4, ConvertConstants DEF Integral
<1>5. QED
  BY <1>2, <1>3, <1>4, SMT DEF ScriptInts

LEMMA CharStart ==
  ASSUME NEW t \in Types, t.kind \in {"char", "char16"}, NEW x \in ScriptValues(t)
  PROVE  \/ x.js = "string" /\ \E u : Unit(u) /\ x.units = <<u>>
         \/ x.js = "string" /\ x.units \in {<<>>, <<97, 98>>}
         \/ x.js = "other"
<1>1. t.kind # "int" /\ t.kind # "list"
  OBVIOUS
<1>2. x \in ScriptStrings
  BY <1>1, Zenon DEF ScriptValues
<1>3. CASE \E u \in Codes : x = [js |-> "string", units |-> <<u>>]
  <2>1. PICK u \in Codes : x = [js |-> "string", units |-> <<u>>]
    BY <1>3
  <2>2. u \in Units
    BY CodesAreUnits, Zenon
  <2>3. Unit(u)
    BY <2>2, UnitFacts
  <2>4. QED
    BY <2>1, <2>3
<1>4. CASE x \in {[js |-> "string", units |-> <<>>], [js |-> "string", units |-> <<97, 98>>]}
  BY <1>4
<1>5. CASE x = Other
  BY <1>5 DEF Other
<1>6. QED
  BY <1>2, <1>3, <1>4, <1>5, Zenon DEF ScriptStrings

LEMMA ArrayStart ==
  ASSUME NEW t \in Lists, NEW x \in ScriptValues(t)
  PROVE  \/ x.js = "array" /\ x.items \in Seq(ArrayElements)
         \/ x.js = "typed" /\ x.elem \in Ints /\ x.ints \in Seq(RangeOf(x.elem))
         \/ x.js = "other"
<1>1. t.kind = "list"
  BY DEF Lists
<1>2. x \in PlainArrays \/ x \in TypedArrays \/ x = Other
  BY <1>1, Zenon DEF ScriptValues
<1>3. CASE x \in PlainArrays
  <2>1. PICK s \in BoundedSeq(ArrayElements, MaxList) : x = [js |-> "array", items |-> s]
    BY <1>3 DEF PlainArrays
  <2>2. s \in Seq(ArrayElements)
    BY BoundedIsSeq, ConvertConstants
  <2>3. QED
    BY <2>1, <2>2
<1>4. CASE x \in TypedArrays
  <2>1. PICK e \in Ints : \E s \in BoundedSeq(Items \intersect RangeOf(e), MaxList) :
              x = [js |-> "typed", elem |-> e, ints |-> s]
    BY <1>4 DEF TypedArrays
  <2>2. PICK s \in BoundedSeq(Items \intersect RangeOf(e), MaxList) :
              x = [js |-> "typed", elem |-> e, ints |-> s]
    BY <2>1
  <2>3. s \in Seq(Items \intersect RangeOf(e))
    BY BoundedIsSeq, ConvertConstants
  <2>4. s \in Seq(RangeOf(e))
    BY <2>3
  <2>5. QED
    BY <2>2, <2>4
<1>5. CASE x = Other
  BY <1>5 DEF Other
<1>6. QED
  BY <1>2, <1>3, <1>4, <1>5, Zenon

\* An array arrives as an array of the declared type, element by element, or is
\* rejected.
LEMMA ArrayConverts ==
  ASSUME NEW t \in Lists, NEW x \in ScriptValues(t)
  PROVE  LET a == ArrayFromObject(t, x) IN
         /\ a = Reject \/ a \in Seq(RangeOf(Element(t)))
         /\ ArrayKept(t, x, a)
<1> DEFINE a == ArrayFromObject(t, x)
           e == Element(t)
<1>1. t.width \in Widths /\ t.signed \in BOOLEAN
  BY DEF Lists
<1>2. e.width \in Widths /\ e.signed \in BOOLEAN /\ Reject \notin RangeOf(e)
  BY <1>1, ElementFacts, ConvertConstants
<1>3. CASE x.js = "array" /\ x.items \in Seq(ArrayElements)
  <2> DEFINE items == x.items
             From(i) == ValueFromIntegerObject(e, items[i])
  <2>1. DOMAIN items = 1 .. Len(items) /\ \A i \in DOMAIN items : items[i] \in ArrayElements
    BY <1>3
  <2>2. \A v \in ArrayElements : Integral(v) \/ v = Other
    BY ConvertConstants DEF ArrayElements, Integral
  <2> HIDE DEF e
  <2>3. \A v \in ArrayElements : Integral(v) => ValueFromIntegerObject(e, v) \in RangeOf(e)
    BY <1>2, IntegerArrives
  <2>4. ValueFromIntegerObject(e, Other) = Reject
    BY DEF ValueFromIntegerObject, Other
  <2> HIDE DEF items
  <2>5. CASE \E i \in DOMAIN items : items[i] = Other
    <3>1. PICK i \in DOMAIN items : items[i] = Other
      BY <2>5
    <3>2. ValueFromIntegerObject(Element(t), items[i]) = Reject
      BY <2>4, <3>1 DEF e
    <3>3. a = Reject
      BY <1>3, <3>2, BadElement, Zenon DEF items
    <3>4. items[i].js \notin {"number", "bigint"}
      BY <3>1 DEF Other
    <3>5. ArrayKept(t, x, a)
      BY <1>3, <3>1, <3>3, <3>4, Zenon DEF ArrayKept, items
    <3>6. QED
      BY <3>3, <3>5
  <2>6. CASE \A i \in DOMAIN items : items[i] # Other
    <3>1. \A i \in DOMAIN items : ValueFromIntegerObject(Element(t), items[i]) \in RangeOf(Element(t))
      <4>1. \A i \in DOMAIN items : From(i) \in RangeOf(e)
        BY <2>1, <2>2, <2>3, <2>6, Zenon
      <4>2. QED
        BY <4>1 DEF e
    <3>2. items \in Seq(ArrayElements) /\ x.js = "array" /\ x.items = items /\ Reject \notin RangeOf(Element(t))
      BY <1>2, <1>3 DEF items, e
    <3> HIDE DEF From
    <3>3. a = Converted(t, items) /\ a \in Seq(RangeOf(Element(t))) /\ Len(a) = Len(items)
      BY <3>1, <3>2, ArrayArrives
    <3> HIDE DEF a
    <3>4. \A i \in DOMAIN items : Integral(items[i])
      BY <2>1, <2>2, <2>6
    <3>5. ASSUME NEW i \in DOMAIN items PROVE IntegerKept(e, items[i], a[i])
      <4>1. Integral(items[i])
        BY <3>4
      <4>2. a[i] = ValueFromIntegerObject(e, items[i])
        BY <3>3, Zenon DEF Converted, e
      <4>3. QED
        BY <1>2, <4>1, <4>2, IntegerIsKept
    <3>6. ArrayKept(t, x, a)
      <4>1. \A i \in DOMAIN x.items : x.items[i].js \in {"number", "bigint"}
        BY <3>2, <3>4 DEF Integral
      <4>2. \A i \in DOMAIN x.items : IntegerKept(Element(t), x.items[i], a[i])
        BY <3>2, <3>5 DEF e
      <4>3. QED
        BY <3>2, <3>3, <4>1, <4>2, Zenon DEF ArrayKept
    <3>7. QED
      BY <3>3, <3>6 DEF a
  <2>7. QED
    BY <2>5, <2>6, Zenon
<1>4. CASE x.js = "typed" /\ x.elem \in Ints /\ x.ints \in Seq(RangeOf(x.elem))
  <2>1. a = IF x.elem = Element(t) THEN x.ints ELSE Reject
    BY <1>4 DEF ArrayFromObject
  <2>2. ArrayKept(t, x, a)
    BY <1>4, <2>1 DEF ArrayKept
  <2>3. QED
    BY <1>4, <2>1, <2>2
<1>5. CASE x.js = "other"
  BY <1>5 DEF ArrayFromObject, ArrayKept
<1>6. QED
  BY <1>3, <1>4, <1>5, ArrayStart, Zenon

LEMMA CharConverts ==
  ASSUME NEW t \in Types, t.kind = "char", NEW x \in ScriptValues(t)
  PROVE  LET c == CharFromObject(x) IN
         /\ c = CharTaken(t, x)
         /\ c = Reject \/ (c \in 0 .. 255 /\ ~ Lossy(t, c))
<1>1. CASE x.js = "string" /\ \E u : Unit(u) /\ x.units = <<u>>
  <2>1. PICK u : Unit(u) /\ x.units = <<u>>
    BY <1>1
  <2>2. Len(x.units) = 1 /\ x.units # <<>> /\ x.units[1] = u
    BY <2>1
  <2>3. CharFromObject(x) = IF Utf8Value(u)[1] < 128 THEN Utf8Value(u)[1] ELSE Reject
    BY <1>1, <2>2 DEF CharFromObject
  <2>4. CASE u < 128
    <3>1. Utf8Value(u)[1] = u
      BY <2>1, <2>4, FirstByte
    <3>2. CharTaken(t, x) = u
      BY <1>1, <2>2, <2>4 DEF CharTaken
    <3>3. QED
      BY <2>1, <2>3, <2>4, <3>1, <3>2 DEF Unit, Lossy
  <2>5. CASE u >= 128
    <3>1. Utf8Value(u)[1] \in Int /\ Utf8Value(u)[1] >= 128
      <4>1. CASE Surrogate(u)
        <5>1. Utf8Value(u) = <<239, 191, 189>>
          BY <4>1 DEF Utf8Value
        <5>2. QED
          BY <5>1
      <4>2. CASE ~ Surrogate(u)
        BY <2>1, <2>5, <4>2 DEF Utf8Value, Unit
      <4>3. QED
        BY <4>1, <4>2
    <3>2. ~ Utf8Value(u)[1] < 128 /\ ~ u < 128
      BY <2>1, <2>5, <3>1 DEF Unit
    <3>3. CharTaken(t, x) = Reject
      BY <1>1, <2>2, <3>2 DEF CharTaken
    <3>4. QED
      BY <2>3, <3>2, <3>3
  <2>6. QED
    BY <2>1, <2>4, <2>5 DEF Unit
<1>2. CASE x.js = "string" /\ x.units \in {<<>>, <<97, 98>>}
  <2>1. CASE x.units = <<>>
    <3>1. CharFromObject(x) = 0 /\ CharTaken(t, x) = 0
      BY <1>2, <2>1 DEF CharFromObject, CharTaken
    <3>2. QED
      BY <3>1 DEF Lossy
  <2>2. CASE x.units = <<97, 98>>
    <3>1. Len(x.units) = 2
      BY <2>2
    <3>2. QED
      BY <3>1 DEF CharFromObject, CharTaken
  <2>3. QED
    BY <1>2, <2>1, <2>2
<1>3. CASE x.js = "other"
  BY <1>3 DEF CharFromObject, CharTaken
<1>4. QED
  BY <1>1, <1>2, <1>3, CharStart, Zenon

LEMMA Char16Converts ==
  ASSUME NEW t \in Types, t.kind = "char16", NEW x \in ScriptValues(t)
  PROVE  LET c == Char16FromObject(x) IN
         /\ c = CharTaken(t, x)
         /\ c = Reject \/ (Unit(c) /\ ~ Lossy(t, c))
<1>1. CASE x.js = "string" /\ \E u : Unit(u) /\ x.units = <<u>>
  <2>1. PICK u : Unit(u) /\ x.units = <<u>>
    BY <1>1
  <2>2. Len(x.units) = 1 /\ x.units # <<>> /\ x.units[1] = u
    BY <2>1
  <2>3. /\ ConvertUtf8ToUtf16(Utf8Value(u)).rc >= 0
        /\ ConvertUtf8ToUtf16(Utf8Value(u)).ch = IF Surrogate(u) THEN Replacement ELSE u
    BY <2>1, UnitArrives
  <2>4. Char16FromObject(x) = IF Surrogate(u) THEN Replacement ELSE u
    BY <1>1, <2>2, <2>3 DEF Char16FromObject
  <2>5. Unit(Replacement) /\ ~ Surrogate(Replacement)
    BY SMT DEF Unit, Replacement, Surrogate
  <2>6. CharTaken(t, x) = IF Surrogate(u) THEN Replacement ELSE u
    BY <1>1, <2>2 DEF CharTaken
  <2>7. \A c : Lossy(t, c) <=> Surrogate(c)
    BY DEF Lossy
  <2> DEFINE taken == IF Surrogate(u) THEN Replacement ELSE u
  <2>8. Unit(taken) /\ ~ Surrogate(taken)
    BY <2>1, <2>5
  <2> HIDE DEF taken
  <2>9. ~ Lossy(t, taken)
    BY <2>7, <2>8
  <2>10. Char16FromObject(x) = taken /\ CharTaken(t, x) = taken
    BY <2>4, <2>6 DEF taken
  <2>11. QED
    BY <2>8, <2>9, <2>10
<1>2. CASE x.js = "string" /\ x.units \in {<<>>, <<97, 98>>}
  <2>1. CASE x.units = <<>>
    <3>1. Char16FromObject(x) = 0 /\ CharTaken(t, x) = 0
      BY <1>2, <2>1 DEF Char16FromObject, CharTaken
    <3>2. QED
      BY <3>1, SMT DEF Unit, Lossy, Surrogate
  <2>2. CASE x.units = <<97, 98>>
    <3>1. Len(x.units) = 2
      BY <2>2
    <3>2. QED
      BY <3>1 DEF Char16FromObject, CharTaken
  <2>3. QED
    BY <1>2, <2>1, <2>2
<1>3. CASE x.js = "other"
  BY <1>3 DEF Char16FromObject, CharTaken
<1>4. QED
  BY <1>1, <1>2, <1>3, CharStart, Zenon

----------------------------------------------------------------------------
\* The invariant: the value is the first one that native code had, or what that
\* becomes in a script, or what the script started with.

LEMMA StartIsGood ==
  ASSUME NEW t \in Types, NEW n \in NativeValues(t)
  PROVE  Good(t, n)
<1>1. CASE t.kind = "int"
  BY <1>1 DEF NativeValues, Good
<1>2. CASE t.kind = "list" /\ t.width \in Widths /\ t.signed \in BOOLEAN
  <2>1. n \in BoundedSeq(Items \intersect RangeOf(t), MaxList)
    BY <1>2 DEF NativeValues
  <2>2. n \in Seq(Items \intersect RangeOf(t))
    BY <2>1, BoundedIsSeq, ConvertConstants
  <2>3. RangeOf(t) = RangeOf(Element(t))
    BY <1>2, ElementFacts, Zenon DEF RangeOf
  <2>4. n \in Seq(RangeOf(Element(t)))
    BY <2>2, <2>3
  <2>5. QED
    BY <1>2, <2>4, Zenon DEF Good
<1>3. CASE t.kind = "char"
  BY <1>3 DEF NativeValues, Good
<1>4. CASE t.kind = "char16"
  <2>1. n \in Units
    BY <1>4, CodesAreUnits DEF NativeValues
  <2>2. Unit(n)
    BY <2>1, UnitFacts
  <2>3. QED
    BY <1>4, <2>2, Zenon DEF Good
<1>5. QED
  BY <1>1, <1>2, <1>3, <1>4, TypeCases

\* What a script starts with arrives as a value of the declared type, or the
\* call throws.
LEMMA ArrivesGood ==
  ASSUME NEW t \in Types, NEW x \in ScriptValues(t)
  PROVE  ValueFromObject(t, x) = Reject \/ Good(t, ValueFromObject(t, x))
<1>1. CASE t \in Ints
  <2>1. t.kind = "int" /\ t.width \in Widths /\ t.signed \in BOOLEAN
    BY <1>1 DEF Ints
  <2>2. ValueFromObject(t, x) = ValueFromIntegerObject(t, x)
    BY <2>1, Zenon DEF ValueFromObject
  <2>3. CASE Integral(x)
    <3>1. ValueFromIntegerObject(t, x) \in RangeOf(t)
      BY <2>1, <2>3, IntegerArrives
    <3>2. QED
      BY <2>1, <2>2, <3>1 DEF Good
  <2>4. CASE x.js = "other"
    BY <2>2, <2>4 DEF ValueFromIntegerObject
  <2>5. QED
    BY <1>1, <2>3, <2>4, IntegerStart
<1>2. CASE t \in Lists
  <2>1. t.kind = "list"
    BY <1>2 DEF Lists
  <2>2. ValueFromObject(t, x) = ArrayFromObject(t, x)
    BY <2>1 DEF ValueFromObject
  <2>3. QED
    BY <1>2, <2>1, <2>2, ArrayConverts DEF Good
<1>3. CASE t.kind = "char"
  <2>1. ValueFromObject(t, x) = CharFromObject(x)
    BY <1>3 DEF ValueFromObject
  <2>2. QED
    BY <1>3, <2>1, CharConverts DEF Good
<1>4. CASE t.kind = "char16"
  <2>1. ValueFromObject(t, x) = Char16FromObject(x)
    BY <1>4 DEF ValueFromObject
  <2>2. QED
    BY <1>4, <2>1, Char16Converts DEF Good
<1>5. QED
  BY <1>1, <1>2, <1>3, <1>4 DEF Types

\* The first value that native code has.
First == IF start.side = "native" THEN start.value ELSE ValueFromObject(type, start.value)

StartInv ==
  \/ start.side = "native" /\ start.value \in NativeValues(type)
  \/ start.side = "script" /\ start.value \in ScriptValues(type)

ValueInv ==
  \/ side = "native" /\ (value = First \/ (value = Reject /\ Lossy(type, First)))
  \/ side = "script" /\ start.side = "script" /\ value = start.value
  \/ side = "script" /\ Good(type, First) /\ value = CreateJsObject(type, First)

ConvertInv == type # AnyType => type \in Types /\ StartInv /\ ValueInv

LEMMA FirstIsGood ==
  ASSUME type \in Types, StartInv
  PROVE  First = Reject \/ Good(type, First)
<1>1. CASE start.side = "native" /\ start.value \in NativeValues(type)
  <2>1. First = start.value
    BY <1>1 DEF First
  <2>2. QED
    BY <1>1, <2>1, StartIsGood
<1>2. CASE start.side = "script" /\ start.value \in ScriptValues(type)
  <2>1. First = ValueFromObject(type, start.value)
    BY <1>2 DEF First
  <2>2. QED
    BY <1>2, <2>1, ArrivesGood
<1>3. QED
  BY <1>1, <1>2 DEF StartInv

LEMMA ConvertInit == Init \/ AnyInit => ConvertInv
<1>1. ASSUME Init, type # AnyType PROVE type \in Types /\ StartInv /\ ValueInv
  <2>1. start.side = side /\ start.value = value /\ type \in Types /\ side \in {"native", "script"}
    BY <1>1 DEF Init
  <2>2. CASE side = "native"
    <3>1. value \in NativeValues(type)
      BY <1>1, <2>2 DEF Init
    <3>2. First = value
      BY <2>1, <2>2 DEF First
    <3>3. QED
      BY <2>1, <2>2, <3>1, <3>2 DEF StartInv, ValueInv
  <2>3. CASE side = "script"
    <3>1. value \in ScriptValues(type)
      BY <1>1, <2>3 DEF Init
    <3>2. QED
      BY <2>1, <2>3, <3>1 DEF StartInv, ValueInv
  <2>4. QED
    BY <2>1, <2>2, <2>3
<1>2. AnyInit => type = AnyType
  BY DEF AnyInit
<1>3. QED
  BY <1>1, <1>2 DEF ConvertInv

LEMMA ConvertStep ==
  ConvertInv /\ [(type # AnyType /\ Next) \/ AnyToScript \/ AnyToNative]_vars => ConvertInv'
<1> SUFFICES ASSUME ConvertInv, type # AnyType,
                    type' = type, start' = start,
                    ToScript \/ ToNative \/ UNCHANGED <<side, value>>
             PROVE  type' \in Types /\ StartInv' /\ ValueInv'
  BY DEF ConvertInv, Next, ToScript, ToNative, AnyToScript, AnyToNative, vars
<1>1. type \in Types /\ StartInv /\ ValueInv
  BY DEF ConvertInv
<1>2. First' = First
  BY DEF First
<1>3. StartInv'
  BY <1>1 DEF StartInv
<1>4. CASE UNCHANGED <<side, value>>
  <2>1. ValueInv'
    BY <1>1, <1>2, <1>4 DEF ValueInv
  <2>2. QED
    BY <1>1, <1>3, <2>1
<1>5. CASE ToScript
  <2>1. side = "native" /\ value # Reject /\ side' = "script" /\ value' = CreateJsObject(type, value)
    BY <1>5 DEF ToScript
  <2>2. value = First /\ Good(type, First)
    BY <1>1, <2>1, FirstIsGood DEF ValueInv
  <2>3. ValueInv'
    BY <1>2, <2>1, <2>2 DEF ValueInv
  <2>4. QED
    BY <1>1, <1>3, <2>3
<1>6. CASE ToNative
  <2>1. side = "script" /\ value # Reject /\ side' = "native" /\ value' = ValueFromObject(type, value)
    BY <1>6 DEF ToNative
  <2>2. CASE start.side = "script" /\ value = start.value
    <3>1. value' = First
      BY <2>1, <2>2 DEF First
    <3>2. ValueInv'
      BY <1>2, <2>1, <3>1 DEF ValueInv
    <3>3. QED
      BY <1>1, <1>3, <3>2
  <2>3. CASE Good(type, First) /\ value = CreateJsObject(type, First)
    <3>1. value' = First \/ (value' = Reject /\ Lossy(type, First))
      BY <1>1, <2>1, <2>3, Echo
    <3>2. ValueInv'
      BY <1>2, <2>1, <3>1 DEF ValueInv
    <3>3. QED
      BY <1>1, <1>3, <3>2
  <2>4. QED
    BY <1>1, <2>1, <2>2, <2>3 DEF ValueInv
<1>7. QED
  BY <1>4, <1>5, <1>6

LEMMA ConvertInvariant == ConvertSpec => []ConvertInv
  BY ConvertInit, ConvertStep, PTL DEF ConvertSpec

(***************************************************************************)
(* Native code receives a value of the type it declares, or the call       *)
(* throws, for all widths and whatever the script passes                   *)
(* (ValueFromObject).                                                      *)
(***************************************************************************)
THEOREM ReceivedHasType == ConvertSpec => [](type # AnyType => TypeOK)
<1>1. ASSUME ConvertInv, type # AnyType PROVE TypeOK
  <2>1. type \in Types /\ StartInv /\ ValueInv
    BY <1>1 DEF ConvertInv
  <2> SUFFICES ASSUME side = "native", value # Reject
               PROVE  CASE type.kind = "int" -> value \in RangeOf(type)
                        [] type.kind = "list" -> \A i \in DOMAIN value : value[i] \in RangeOf(type)
                        [] type.kind = "char" -> value \in 0..255
                        [] type.kind = "char16" -> value \in Units
    BY <2>1, Zenon DEF TypeOK
  <2>2. Good(type, value)
    BY <2>1, FirstIsGood DEF ValueInv
  <2>3. CASE type.kind = "int"
    BY <2>2, <2>3 DEF Good
  <2>4. CASE type.kind = "list" /\ type.width \in Widths /\ type.signed \in BOOLEAN
    <3>1. value \in Seq(RangeOf(Element(type)))
      BY <2>2, <2>4 DEF Good
    <3>2. RangeOf(type) = RangeOf(Element(type))
      BY <2>4, ElementFacts, Zenon DEF RangeOf
    <3>3. \A i \in DOMAIN value : value[i] \in RangeOf(type)
      BY <3>1, <3>2
    <3>4. QED
      BY <2>4, <3>3
  <2>5. CASE type.kind = "char"
    BY <2>2, <2>5 DEF Good
  <2>6. CASE type.kind = "char16"
    <3>1. Unit(value)
      BY <2>2, <2>6 DEF Good
    <3>2. value \in Units
      BY <3>1, UnitFacts
    <3>3. QED
      BY <2>6, <3>2
  <2>7. QED
    BY <2>1, <2>3, <2>4, <2>5, <2>6, TypeCases
<1>2. ConvertInv => (type # AnyType => TypeOK)
  BY <1>1
<1>3. QED
  BY <1>2, ConvertInvariant, PTL

(***************************************************************************)
(* A script that hands back what it was given hands back that very value,  *)
(* for every width, every unit and every array (CreateJsObject,            *)
(* ValueFromObject).                                                       *)
(***************************************************************************)
THEOREM EchoIsKept == ConvertSpec => []EchoKept
<1>1. ASSUME ConvertInv PROVE EchoKept
  <2> SUFFICES ASSUME start.side = "native", side = "native", type \in Types
               PROVE  \/ value = start.value
                      \/ /\ value = Reject
                         /\ \/ type.kind = "char" /\ start.value >= 128
                            \/ type.kind = "char16" /\ Surrogate(start.value)
    BY DEF EchoKept
  <2>1. First = start.value
    BY DEF First
  <2>2. type # AnyType
    BY TypeCases
  <2>3. value = First \/ (value = Reject /\ Lossy(type, First))
    BY <1>1, <2>2 DEF ConvertInv, ValueInv
  <2>4. QED
    BY <2>1, <2>3, Zenon DEF Lossy
<1>2. QED
  BY <1>1, ConvertInvariant, PTL

(***************************************************************************)
(* What a script passes arrives as itself or the call throws, element by   *)
(* element in an array, and the call throws only for what the type does    *)
(* not have; only integers beyond their type are cut (ValueFromObject).    *)
(***************************************************************************)
THEOREM ScriptValueIsKept == ConvertSpec => []ScriptValueKept
<1>1. ASSUME ConvertInv PROVE ScriptValueKept
  <2> DEFINE arrived == ValueFromObject(type, start.value)
  <2>1. ASSUME start.side = "script", side = "native", type # AnyType
        PROVE  /\ type \in Types /\ start.value \in ScriptValues(type)
               /\ value = arrived \/ (value = Reject /\ Lossy(type, arrived))
    <3>1. First = arrived
      BY <2>1 DEF First
    <3>2. type \in Types /\ StartInv /\ ValueInv
      BY <1>1, <2>1 DEF ConvertInv
    <3>3. QED
      BY <2>1, <3>1, <3>2, Zenon DEF StartInv, ValueInv
  <2>2. Arrived({"int"}) => IntegerKept(type, start.value, value)
    <3> SUFFICES ASSUME Arrived({"int"}) PROVE IntegerKept(type, start.value, value)
      OBVIOUS
    <3>1. start.side = "script" /\ side = "native" /\ type.kind = "int" /\ type # AnyType
      BY DEF Arrived, AnyType
    <3>2. type \in Ints /\ type.width \in Widths /\ type.signed \in BOOLEAN
      BY <2>1, <3>1 DEF Types, Ints, Lists
    <3>3. start.value \in ScriptValues(type) /\ value = ValueFromIntegerObject(type, start.value)
      BY <2>1, <3>1, Zenon DEF ValueFromObject, Lossy
    <3>4. CASE Integral(start.value)
      BY <3>2, <3>3, <3>4, IntegerIsKept
    <3>5. CASE start.value.js = "other"
      BY <3>3, <3>5 DEF IntegerKept, ValueFromIntegerObject
    <3>6. QED
      BY <3>2, <3>3, <3>4, <3>5, IntegerStart
  <2>3. Arrived({"char", "char16"}) => value = CharTaken(type, start.value)
    <3> SUFFICES ASSUME Arrived({"char", "char16"}) PROVE value = CharTaken(type, start.value)
      OBVIOUS
    <3>1. /\ start.side = "script" /\ side = "native" /\ type # AnyType
          /\ type.kind \in {"char", "char16"}
      BY DEF Arrived, AnyType
    <3>2. /\ arrived = CharTaken(type, start.value)
          /\ arrived = Reject \/ ~ Lossy(type, arrived)
      <4>1. CASE type.kind = "char"
        <5>1. arrived = CharFromObject(start.value)
          BY <4>1 DEF ValueFromObject
        <5>2. QED
          BY <2>1, <3>1, <4>1, <5>1, CharConverts
      <4>2. CASE type.kind = "char16"
        <5>1. arrived = Char16FromObject(start.value)
          BY <4>2 DEF ValueFromObject
        <5>2. QED
          BY <2>1, <3>1, <4>2, <5>1, Char16Converts
      <4>3. QED
        BY <3>1, <4>1, <4>2
    <3> HIDE DEF arrived
    <3>3. QED
      BY <2>1, <3>1, <3>2, Zenon
  <2>4. Arrived({"list"}) => ArrayKept(type, start.value, value)
    <3> SUFFICES ASSUME Arrived({"list"}) PROVE ArrayKept(type, start.value, value)
      OBVIOUS
    <3>1. start.side = "script" /\ side = "native" /\ type.kind = "list" /\ type # AnyType
      BY DEF Arrived, AnyType
    <3>2. type \in Lists
      BY <2>1, <3>1 DEF Types, Ints, Lists
    <3>3. start.value \in ScriptValues(type) /\ value = ArrayFromObject(type, start.value)
      BY <2>1, <3>1 DEF ValueFromObject, Lossy
    <3>4. QED
      BY <3>2, <3>3, ArrayConverts
  <2>5. QED
    BY <2>2, <2>3, <2>4 DEF ScriptValueKept
<1>2. QED
  BY <1>1, ConvertInvariant, PTL

----------------------------------------------------------------------------
\* `any'.

\* What an element of a type may be.
Contents(t) ==
  IF t.kind = "int" THEN RangeOf(t)
  ELSE IF t.kind = "float" THEN Int
  ELSE IF t.kind = "pointer" THEN 0 .. Pow2[Wide - 1] - 1
  ELSE Nat \ {0}

\* The type that a script's value is taken as.
TypeFor(k) ==
  CASE k = "int32" -> Int32
    [] k = "uint32" -> Uint32
    [] k = "number" -> Float
    [] k = "bigint" -> Int64
    [] k = "external" -> Pointer
    [] OTHER -> [kind |-> k]

SameElement(s, m, t, n) ==
  IF Numeric(s) THEN Numeric(t) /\ Amount(s, m) = Amount(t, n) ELSE s = t /\ m = n

LEMMA AnyTypeFacts ==
  /\ Int32 \in Scalars /\ Uint32 \in Scalars /\ Int64 \in Scalars /\ Float \in Scalars /\ Pointer \in Scalars
  /\ \A k \in Plain : [kind |-> k] \in Scalars
  /\ Int32.kind = "int" /\ Int32.width = Mid /\ Int32.signed = TRUE /\ Mid \in Widths /\ Mid # Wide /\ Mid < Wide
  /\ Uint32.kind = "int" /\ Uint32.width = Mid /\ Uint32.signed = FALSE
  /\ Int64.kind = "int" /\ Int64.width = Wide /\ Float.kind = "float" /\ Pointer.kind = "pointer"
<1>1. Int32 \in Ints /\ Uint32 \in Ints /\ Int64 \in Ints
  BY ConvertConstants, AnyConstants DEF Ints, Int32, Uint32, Int64
<1>2. Mid \in Widths /\ Mid < Wide /\ Mid # Wide
  BY AnyConstants, ConvertConstants
<1>3. QED
  BY <1>1, <1>2 DEF Scalars, Int32, Uint32, Int64, Float, Pointer

LEMMA ScalarCases ==
  ASSUME NEW t \in Scalars
  PROVE  \/ t.kind = "int" /\ t.width \in Widths /\ t.signed \in BOOLEAN
         \/ t = Float
         \/ t = Pointer
         \/ t.kind \in Plain /\ t = [kind |-> t.kind]
  BY DEF Scalars, Ints

LEMMA ContentsAreInt ==
  ASSUME NEW t \in Scalars
  PROVE  Contents(t) \subseteq Int
<1>1. CASE t.kind = "int" /\ t.width \in Widths /\ t.signed \in BOOLEAN
  <2>1. Contents(t) = RangeOf(t)
    BY <1>1 DEF Contents
  <2>2. QED
    BY <1>1, <2>1, RangeIsInt
<1>2. CASE t.kind # "int"
  <2>1. Pow2[Wide - 1] \in Nat
    BY Int64Facts
  <2>2. QED
    BY <1>2, <2>1 DEF Contents
<1>3. QED
  BY <1>1, <1>2, ScalarCases DEF Float, Pointer, Plain

\* A Number is taken with its amount, and created as the same Number.
LEMMA NumberTaken ==
  ASSUME NEW h \in Int
  PROVE  LET x == Js("number", <<h>>)
             t == TypeFor(GetType(x))
         IN  /\ t \in {Int32, Uint32, Float}
             /\ \E m \in Contents(t) :
                  /\ FromScalar(x) = Native(t, <<m>>)
                  /\ CreateScalar(t, m) = x
                  /\ Amount(t, m) = h
<1> DEFINE x == Js("number", <<h>>)
           n == h \div 2
<1>1. x.js = "number" /\ x.v = <<h>> /\ x.v[1] = h
  BY DEF Js
<1>2. h % 2 = 0 => n \in Int /\ 2 * n = h
  OBVIOUS
<1> HIDE DEF n
<1>3. GetType(x) = IF h % 2 = 0 /\ n \in RangeOf(Int32) THEN "int32"
                   ELSE IF h % 2 = 0 /\ n \in RangeOf(Uint32) THEN "uint32"
                   ELSE "number"
  BY <1>1 DEF GetType, n
<1>4. CASE h % 2 = 0 /\ n \in RangeOf(Int32)
  <2>1. GetType(x) = "int32"
    BY <1>3, <1>4
  <2>2. TypeFor("int32") = Int32
    BY DEF TypeFor
  <2>3. FromScalar(x) = Native(Int32, <<n>>)
    BY <1>1, <2>1 DEF FromScalar, n
  <2>4. n \in Contents(Int32) /\ CreateScalar(Int32, n) = x /\ Amount(Int32, n) = h
    BY <1>2, <1>4, AnyTypeFacts DEF Contents, CreateScalar, Amount
  <2>5. QED
    BY <2>1, <2>2, <2>3, <2>4
<1>5. CASE ~ (h % 2 = 0 /\ n \in RangeOf(Int32)) /\ h % 2 = 0 /\ n \in RangeOf(Uint32)
  <2>1. GetType(x) = "uint32"
    BY <1>3, <1>5
  <2>2. TypeFor("uint32") = Uint32
    BY DEF TypeFor
  <2>3. FromScalar(x) = Native(Uint32, <<n>>)
    BY <1>1, <2>1 DEF FromScalar, n
  <2>4. n \in Contents(Uint32) /\ CreateScalar(Uint32, n) = x /\ Amount(Uint32, n) = h
    BY <1>2, <1>5, AnyTypeFacts DEF Contents, CreateScalar, Amount
  <2>5. QED
    BY <2>1, <2>2, <2>3, <2>4
<1>6. CASE ~ (h % 2 = 0 /\ n \in RangeOf(Int32)) /\ ~ (h % 2 = 0 /\ n \in RangeOf(Uint32))
  <2>1. GetType(x) = "number"
    BY <1>3, <1>6
  <2>2. TypeFor("number") = Float
    BY DEF TypeFor
  <2>3. FromScalar(x) = Native(Float, <<h>>)
    BY <1>1, <2>1 DEF FromScalar
  <2>4. h \in Contents(Float) /\ CreateScalar(Float, h) = x /\ Amount(Float, h) = h
    BY AnyTypeFacts DEF Contents, CreateScalar, Amount
  <2>5. QED
    BY <2>1, <2>2, <2>3, <2>4
<1>7. QED
  BY <1>4, <1>5, <1>6

\* A BigInt is taken as the int64_t of its low bits.
LEMMA BigIntTaken ==
  ASSUME NEW n \in Int
  PROVE  /\ GetType(Js("bigint", <<n>>)) = "bigint" /\ TypeFor("bigint") = Int64
         /\ FromScalar(Js("bigint", <<n>>)) = Native(Int64, <<Int64Value(n)>>)
         /\ Int64Value(n) \in Contents(Int64)
         /\ CreateScalar(Int64, Int64Value(n)) = Js("bigint", <<Int64Value(n)>>)
         /\ Int64Value(Int64Value(n)) = Int64Value(n)
<1>1. GetType(Js("bigint", <<n>>)) = "bigint"
  BY DEF GetType, Js
<1>2. TypeFor("bigint") = Int64
  BY DEF TypeFor
<1>3. Js("bigint", <<n>>).v[1] = n
  BY DEF Js
<1>4. FromScalar(Js("bigint", <<n>>)) = Native(Int64, <<Int64Value(n)>>)
  BY <1>1, <1>3 DEF FromScalar
<1>5. Int64Value(n) \in RangeOf(Int64)
  BY Int64Facts, CastInRange DEF Int64Value
<1>6. Int64Value(n) \in Contents(Int64)
  BY <1>5, AnyTypeFacts DEF Contents
<1>7. CreateScalar(Int64, Int64Value(n)) = Js("bigint", <<Int64Value(n)>>)
  BY AnyTypeFacts, ConvertConstants DEF CreateScalar
<1>8. Int64Value(Int64Value(n)) = Int64Value(n)
  BY <1>5, Int64Facts, CastKeeps DEF Int64Value
<1>9. QED
  BY <1>1, <1>2, <1>4, <1>6, <1>7, <1>8

\* Booleans, strings, vectors and matrices are taken as they are.
LEMMA PlainTaken ==
  ASSUME NEW k \in Plain, NEW n \in Nat \ {0}
  PROVE  /\ GetType(Js(k, <<n>>)) = k /\ TypeFor(k) = [kind |-> k]
         /\ FromScalar(Js(k, <<n>>)) = Native([kind |-> k], <<n>>)
         /\ n \in Contents([kind |-> k])
         /\ CreateScalar([kind |-> k], n) = Js(k, <<n>>)
<1>1. GetType(Js(k, <<n>>)) = k
  BY DEF GetType, Js, Plain
<1>2. TypeFor(k) = [kind |-> k]
  BY DEF TypeFor, Plain
<1>3. Js(k, <<n>>).v = <<n>> /\ Js(k, <<n>>).v[1] = n
  BY DEF Js
<1>4. FromScalar(Js(k, <<n>>)) = Native([kind |-> k], <<n>>)
  BY <1>1, <1>3 DEF FromScalar, Plain
<1>5. n \in Contents([kind |-> k])
  BY DEF Contents, Plain
<1>6. CreateScalar([kind |-> k], n) = Js(k, <<n>>)
  BY DEF CreateScalar, Plain
<1>7. QED
  BY <1>1, <1>2, <1>4, <1>5, <1>6

\* A scalar that a script hands back has the amount it was given, and is seen
\* by the script as what it was seen before.
LEMMA ScalarEcho ==
  ASSUME NEW t \in Scalars, NEW n \in Contents(t)
  PROVE  LET x == CreateScalar(t, n)
             u == TypeFor(GetType(x))
         IN  /\ u \in Scalars
             /\ x.js \notin {"array", "typed", "undefined"}
             /\ x.js = "matrix" <=> t.kind = "matrix"
             /\ u.kind = "matrix" <=> t.kind = "matrix"
             /\ \E m \in Contents(u) :
                  /\ FromScalar(x) = Native(u, <<m>>)
                  /\ SameElement(t, n, u, m)
                  /\ GetType(CreateScalar(u, m)) = GetType(x)
<1> DEFINE x == CreateScalar(t, n)
           u == TypeFor(GetType(x))
<1>1. n \in Int
  BY ContentsAreInt
<1>2. ASSUME NEW h \in Int, x = Js("number", <<h>>), Numeric(t), Amount(t, n) = h
      PROVE  /\ u \in {Int32, Uint32, Float}
             /\ \E m \in Contents(u) :
                  /\ FromScalar(x) = Native(u, <<m>>)
                  /\ SameElement(t, n, u, m)
                  /\ GetType(CreateScalar(u, m)) = GetType(x)
  <2> HIDE DEF x
  <2>1. /\ u \in {Int32, Uint32, Float}
        /\ \E m \in Contents(u) : FromScalar(x) = Native(u, <<m>>) /\ CreateScalar(u, m) = x /\ Amount(u, m) = h
    BY <1>2, NumberTaken
  <2>2. Numeric(u)
    BY <2>1, AnyTypeFacts DEF Numeric
  <2>3. QED
    BY <1>2, <2>1, <2>2, Zenon DEF SameElement
<1>3. ASSUME NEW h \in Int, x = Js("number", <<h>>), Numeric(t), Amount(t, n) = h
      PROVE  /\ u \in Scalars
             /\ x.js \notin {"array", "typed", "undefined", "matrix"}
             /\ t.kind # "matrix" /\ u.kind # "matrix"
  <2>1. u \in {Int32, Uint32, Float}
    BY <1>2, <1>3
  <2>2. x.js = "number"
    BY <1>3 DEF Js
  <2> HIDE DEF x
  <2>3. QED
    BY <1>3, <2>1, <2>2, AnyTypeFacts DEF Numeric
<1>4. ASSUME x = Js("bigint", <<n>>), Numeric(t), Amount(t, n) = 2 * Int64Value(n)
      PROVE  /\ u = Int64 /\ x.js = "bigint"
             /\ Int64Value(n) \in Contents(u)
             /\ FromScalar(x) = Native(u, <<Int64Value(n)>>)
             /\ SameElement(t, n, u, Int64Value(n))
             /\ GetType(CreateScalar(u, Int64Value(n))) = GetType(x)
  <2> HIDE DEF x
  <2>1. x.js = "bigint"
    BY <1>4 DEF Js
  <2>2. u = Int64 /\ GetType(x) = "bigint"
    BY <1>1, <1>4, BigIntTaken
  <2>3. Int64Value(n) \in Int
    BY <1>1, NumberTyped
  <2>4. Numeric(Int64) /\ Amount(Int64, Int64Value(n)) = 2 * Int64Value(n)
    BY <1>1, <2>3, BigIntTaken, AnyTypeFacts, ConvertConstants DEF Numeric, Amount
  <2>5. GetType(CreateScalar(Int64, Int64Value(n))) = "bigint"
    BY <1>1, <2>3, BigIntTaken
  <2>6. SameElement(t, n, Int64, Int64Value(n))
    BY <1>4, <2>4, Zenon DEF SameElement
  <2> HIDE DEF u
  <2>7. QED
    BY <1>1, <1>4, <2>1, <2>2, <2>5, <2>6, BigIntTaken
<1>5. CASE t.kind = "int" /\ t.width \in Widths /\ t.signed \in BOOLEAN
  <2>1. Numeric(t) /\ t.kind # "matrix" /\ t.width \in Int /\ t.width <= Wide /\ Wide \in Int
    <3>1. t.width \in 1 .. Wide /\ Wide \in Nat
      BY <1>5, WidthFacts
    <3>2. Numeric(t) /\ t.kind # "matrix"
      BY <1>5 DEF Numeric
    <3> DEFINE w == t.width
    <3> HIDE DEF w
    <3>3. w \in 1 .. Wide
      BY <3>1 DEF w
    <3>4. w \in Int /\ w <= Wide /\ Wide \in Int
      BY <3>1, <3>3
    <3>5. QED
      BY <3>2, <3>4 DEF w
  <2>2. CASE t.width < Wide
    <3>1. x = Js("number", <<2 * n>>) /\ Amount(t, n) = 2 * n /\ 2 * n \in Int
      BY <1>1, <1>5, <2>2 DEF CreateScalar, Amount
    <3>2. QED
      BY <1>2, <1>3, <2>1, <3>1
  <2>3. CASE ~ t.width < Wide
    <3>1. x = Js("bigint", <<n>>) /\ Amount(t, n) = 2 * Int64Value(n)
      BY <1>5, <2>3 DEF CreateScalar, Amount
    <3>2. QED
      BY <1>4, <2>1, <3>1, AnyTypeFacts
  <2>4. QED
    BY <2>2, <2>3
<1>6. CASE t = Float
  <2>1. x = Js("number", <<n>>) /\ Amount(t, n) = n /\ Numeric(t)
    BY <1>6, AnyTypeFacts DEF CreateScalar, Amount, Numeric
  <2>2. t.kind # "matrix"
    BY <1>6, AnyTypeFacts
  <2>3. QED
    BY <1>1, <1>2, <1>3, <2>1, <2>2
<1>7. CASE t = Pointer
  <2>1. x = Js("bigint", <<n>>) /\ Amount(t, n) = 2 * Int64Value(n) /\ Numeric(t) /\ t.kind # "matrix"
    BY <1>7, AnyTypeFacts DEF CreateScalar, Amount, Numeric
  <2>2. QED
    BY <1>4, <2>1, AnyTypeFacts
<1>8. CASE t.kind \in Plain /\ t = [kind |-> t.kind]
  <2> DEFINE k == t.kind
  <2>1. n \in Nat \ {0}
    BY <1>8 DEF Contents, Plain
  <2>2. x = Js(k, <<n>>) /\ FromScalar(x) = Native(t, <<n>>) /\ GetType(x) = k /\ u = t
    BY <1>8, <2>1, PlainTaken
  <2>3. x.js = k /\ ~ Numeric(t)
    BY <1>8, <2>2 DEF Js, Numeric, Plain
  <2>4. SameElement(t, n, u, n)
    BY <2>2, <2>3, Zenon DEF SameElement
  <2>5. GetType(CreateScalar(u, n)) = GetType(x)
    BY <2>2
  <2> HIDE DEF x, u
  <2>6. x.js \notin {"array", "typed", "undefined"}
    BY <1>8, <2>3 DEF Plain
  <2>7. \E m \in Contents(u) :
           /\ FromScalar(x) = Native(u, <<m>>)
           /\ SameElement(t, n, u, m)
           /\ GetType(CreateScalar(u, m)) = GetType(x)
    <3>1. n \in Contents(u)
      BY <1>8, <2>1, <2>2, PlainTaken
    <3>2. QED
      BY <2>2, <2>4, <2>5, <3>1, Zenon
  <2>8. u \in Scalars /\ (x.js = "matrix" <=> t.kind = "matrix") /\ (u.kind = "matrix" <=> t.kind = "matrix")
    BY <2>2, <2>3
  <2>9. QED
    BY <2>6, <2>7, <2>8, Zenon DEF x, u
<1>9. QED
  BY <1>5, <1>6, <1>7, <1>8, ScalarCases

\* A native value.
Typed(v) ==
  \/ v = Native(None, <<>>)
  \/ \E t \in Scalars : \E n \in Contents(t) : v = Native(t, <<n>>)
  \/ \E t \in Scalars : \E s \in Seq(Contents(t)) : v = Native(ListOf(t), s)

\* What does not go through a script.
Bad(v) == v.t.kind \in {"none", "matrix"} \/ Mixed(v)

LEMMA ScalarIsNoList ==
  ASSUME NEW t \in Scalars
  PROVE  t.kind # "list" /\ t.kind # "none" /\ t.kind # "any"
  BY ScalarCases DEF Plain, Float, Pointer

LEMMA TypedFacts ==
  ASSUME NEW v, Typed(v)
  PROVE  v # Reject /\ v.v \in Seq(Int)
<1>1. None \in AnyTypes /\ \A t \in Scalars : t \in AnyTypes /\ ListOf(t) \in AnyTypes
  BY DEF AnyTypes
<1>2. ASSUME NEW t \in AnyTypes, NEW s \in Seq(Int), v = Native(t, s)
      PROVE  v # Reject /\ v.v \in Seq(Int)
  BY <1>2, RejectIsApart DEF Native
<1>3. CASE v = Native(None, <<>>)
  <2>1. <<>> \in Seq(Int)
    OBVIOUS
  <2>2. QED
    BY <1>1, <1>2, <1>3, <2>1
<1>4. CASE \E t \in Scalars : \E n \in Contents(t) : v = Native(t, <<n>>)
  <2>1. PICK t \in Scalars : \E n \in Contents(t) : v = Native(t, <<n>>)
    BY <1>4
  <2>2. PICK n \in Contents(t) : v = Native(t, <<n>>)
    BY <2>1
  <2>3. <<n>> \in Seq(Int)
    BY ContentsAreInt
  <2>4. QED
    BY <1>1, <1>2, <2>2, <2>3
<1>5. CASE \E t \in Scalars : \E s \in Seq(Contents(t)) : v = Native(ListOf(t), s)
  <2>1. PICK t \in Scalars : \E s \in Seq(Contents(t)) : v = Native(ListOf(t), s)
    BY <1>5
  <2>2. PICK s \in Seq(Contents(t)) : v = Native(ListOf(t), s)
    BY <2>1
  <2>3. s \in Seq(Int)
    BY ContentsAreInt
  <2>4. QED
    BY <1>1, <1>2, <2>2, <2>3
<1>6. QED
  BY <1>3, <1>4, <1>5 DEF Typed

\* SameContent, by elements.
LEMMA ContentByElement ==
  ASSUME NEW a, NEW b
  PROVE  SameContent(a, b) <=>
           /\ (a.t.kind = "list") = (b.t.kind = "list")
           /\ Len(a.v) = Len(b.v)
           /\ \A i \in DOMAIN a.v : SameElement(ElementType(a), a.v[i], ElementType(b), b.v[i])
  BY Zenon DEF SameContent, SameElement

LEMMA ContentReflexive ==
  ASSUME NEW a
  PROVE  SameContent(a, a)
<1>1. \A t, n : SameElement(t, n, t, n)
  BY Zenon DEF SameElement
<1>2. QED
  BY <1>1, ContentByElement, Zenon

LEMMA ElementTransitive ==
  ASSUME NEW s, NEW k, NEW t, NEW m, NEW u, NEW n, SameElement(s, k, t, m), SameElement(t, m, u, n)
  PROVE  SameElement(s, k, u, n)
<1>1. CASE Numeric(s)
  BY <1>1, Zenon DEF SameElement
<1>2. CASE ~ Numeric(s)
  BY <1>2, Zenon DEF SameElement
<1>3. QED
  BY <1>1, <1>2

LEMMA ContentTransitive ==
  ASSUME NEW a, NEW b, NEW c, a.v \in Seq(Int), b.v \in Seq(Int), SameContent(a, b), SameContent(b, c)
  PROVE  SameContent(a, c)
<1>1. DOMAIN a.v = DOMAIN b.v
  <2>1. Len(a.v) = Len(b.v)
    BY Zenon DEF SameContent
  <2>2. DOMAIN a.v = 1 .. Len(a.v) /\ DOMAIN b.v = 1 .. Len(b.v)
    OBVIOUS
  <2>3. QED
    BY <2>1, <2>2
<1>2. /\ (a.t.kind = "list") = (b.t.kind = "list") /\ (b.t.kind = "list") = (c.t.kind = "list")
      /\ Len(a.v) = Len(b.v) /\ Len(b.v) = Len(c.v)
      /\ \A i \in DOMAIN a.v : SameElement(ElementType(a), a.v[i], ElementType(b), b.v[i])
      /\ \A i \in DOMAIN b.v : SameElement(ElementType(b), b.v[i], ElementType(c), c.v[i])
  BY ContentByElement, Zenon
<1>3. \A i \in DOMAIN a.v : SameElement(ElementType(a), a.v[i], ElementType(c), c.v[i])
  BY <1>1, <1>2, ElementTransitive, Zenon
<1>4. QED
  BY <1>2, <1>3, ContentByElement, Zenon

\* An array whose elements are all taken as one type is taken as an array of it.
LEMMA ElementsTaken ==
  ASSUME NEW T, NEW items \in Seq(T), items # <<>>, NEW t \in Scalars,
         \A i \in DOMAIN items : GetType(items[i]) = GetType(items[1]),
         \A i \in DOMAIN items : \E m \in Contents(t) : FromScalar(items[i]) = Native(t, <<m>>)
  PROVE  \E a \in Seq(Contents(t)) :
           /\ AnyArray(items) = Native(ListOf(t), a)
           /\ Len(a) = Len(items) /\ DOMAIN a = DOMAIN items
           /\ \A i \in DOMAIN items : FromScalar(items[i]) = Native(t, <<a[i]>>)
<1> DEFINE a == [i \in DOMAIN items |-> FromScalar(items[i]).v[1]]
<1>1. DOMAIN items = 1 .. Len(items) /\ Len(items) \in Nat /\ 1 \in DOMAIN items
  OBVIOUS
<1>2. \A i \in DOMAIN items : \E m \in Contents(t) : FromScalar(items[i]) = Native(t, <<m>>)
  OBVIOUS
<1>3. ASSUME NEW i \in DOMAIN items
      PROVE  /\ FromScalar(items[i]) = Native(t, <<FromScalar(items[i]).v[1]>>)
             /\ FromScalar(items[i]).v[1] \in Contents(t)
             /\ FromScalar(items[i]).t = t
             /\ FromScalar(items[i]) # Reject
  <2>1. PICK m \in Contents(t) : FromScalar(items[i]) = Native(t, <<m>>)
    BY <1>2
  <2>2. FromScalar(items[i]).v[1] = m /\ FromScalar(items[i]).t = t
    BY <2>1 DEF Native
  <2>3. Typed(FromScalar(items[i]))
    BY <2>1, Zenon DEF Typed
  <2>4. QED
    BY <2>1, <2>2, <2>3, TypedFacts
<1>4. AnyArray(items) = Native(ListOf(t), a)
  <2>1. FromScalar(items[1]).t = t
    BY <1>1, <1>3
  <2>2. \A i \in DOMAIN items : FromScalar(items[i]) # Reject
    BY <1>3
  <2>3. QED
    BY <2>1, <2>2, Zenon DEF AnyArray
<1>5. a \in [1 .. Len(items) -> Contents(t)] /\ DOMAIN a = DOMAIN items
  BY <1>1, <1>3
<1>6. \A i \in DOMAIN items : FromScalar(items[i]) = Native(t, <<a[i]>>)
  BY <1>3, Zenon
<1> HIDE DEF a
<1>7. a \in Seq(Contents(t)) /\ Len(a) = Len(items)
  BY <1>1, <1>5
<1>8. QED
  BY <1>4, <1>5, <1>6, <1>7, Zenon

----------------------------------------------------------------------------
\* There and back again.

LEMMA NoneEcho ==
  AnyFromObject(CreateAny(Native(None, <<>>))) = Reject /\ Bad(Native(None, <<>>))
<1>1. None.kind = "none"
  BY DEF None
<1>2. CreateAny(Native(None, <<>>)) = Js("undefined", <<>>)
  BY <1>1 DEF CreateAny, CreateScalar, Native
<1>3. Js("undefined", <<>>).js = "undefined"
  BY DEF Js
<1>4. AnyFromObject(Js("undefined", <<>>)) = Reject
  BY <1>3 DEF AnyFromObject, FromScalar, GetType
<1>5. Bad(Native(None, <<>>))
  BY <1>1 DEF Bad, Native
<1>6. QED
  BY <1>2, <1>4, <1>5

LEMMA OneEcho ==
  ASSUME NEW t \in Scalars, NEW n \in Contents(t)
  PROVE  LET v == Native(t, <<n>>)
             w == AnyFromObject(CreateAny(v))
         IN  \/ Bad(v) /\ w = Reject
             \/ ~ Bad(v) /\ Typed(w) /\ SameContent(v, w) /\ ~ Bad(w)
<1> DEFINE v == Native(t, <<n>>)
           x == CreateScalar(t, n)
           u == TypeFor(GetType(x))
<1>1. /\ u \in Scalars
      /\ x.js \notin {"array", "typed", "undefined"}
      /\ x.js = "matrix" <=> t.kind = "matrix"
      /\ u.kind = "matrix" <=> t.kind = "matrix"
  BY ScalarEcho
<1>2. PICK m \in Contents(u) : FromScalar(x) = Native(u, <<m>>) /\ SameElement(t, n, u, m)
  BY ScalarEcho
<1>3. t.kind # "list" /\ t.kind # "none" /\ u.kind # "list" /\ u.kind # "none"
  BY <1>1, ScalarIsNoList
<1> HIDE DEF x, u
<1>4. v.t = t /\ v.v = <<n>> /\ v.v # <<>> /\ v.v[1] = n
  BY DEF Native
<1>5. CreateAny(v) = x
  BY <1>3, <1>4, Zenon DEF CreateAny, x
<1>6. AnyFromObject(x) = IF x.js = "matrix" THEN Reject ELSE FromScalar(x)
  BY <1>1 DEF AnyFromObject
<1>7. Bad(v) <=> t.kind = "matrix"
  BY <1>3, <1>4 DEF Bad, Mixed
<1>8. CASE t.kind = "matrix"
  BY <1>1, <1>5, <1>6, <1>7, <1>8
<1>9. CASE t.kind # "matrix"
  <2> DEFINE w == Native(u, <<m>>)
  <2>1. w.t = u /\ w.v = <<m>>
    BY DEF Native
  <2>2. AnyFromObject(CreateAny(v)) = w
    BY <1>1, <1>2, <1>5, <1>6, <1>9
  <2>3. Typed(w)
    BY <1>1, Zenon DEF Typed
  <2>4. ~ Bad(w)
    BY <1>1, <1>3, <1>9, <2>1 DEF Bad, Mixed
  <2>5. SameContent(v, w)
    <3> HIDE DEF v, w
    <3>1. ElementType(v) = t /\ ElementType(w) = u
      BY <1>3, <1>4, <2>1 DEF ElementType
    <3>2. Len(v.v) = Len(w.v) /\ DOMAIN v.v = {1} /\ v.v[1] = n /\ w.v[1] = m
      BY <1>4, <2>1
    <3>3. (v.t.kind = "list") = (w.t.kind = "list")
      BY <1>3, <1>4, <2>1
    <3>4. \A i \in DOMAIN v.v : SameElement(ElementType(v), v.v[i], ElementType(w), w.v[i])
      BY <1>2, <3>1, <3>2
    <3>5. QED
      BY <3>2, <3>3, <3>4, ContentByElement, Zenon
  <2>6. QED
    BY <1>7, <1>9, <2>2, <2>3, <2>4, <2>5
<1>10. QED
  BY <1>8, <1>9

LEMMA AnyListEcho ==
  ASSUME NEW t \in Scalars, NEW s \in Seq(Contents(t))
  PROVE  LET v == Native(ListOf(t), s)
             w == AnyFromObject(CreateAny(v))
         IN  \/ Bad(v) /\ w = Reject
             \/ ~ Bad(v) /\ Typed(w) /\ SameContent(v, w) /\ ~ Bad(w)
<1> DEFINE v == Native(ListOf(t), s)
           items == [i \in DOMAIN s |-> CreateScalar(t, s[i])]
           T == {CreateScalar(t, s[i]) : i \in DOMAIN s}
<1>1. v.t = ListOf(t) /\ v.v = s /\ v.t.kind = "list" /\ v.t.of = t
  BY DEF Native, ListOf
<1>2. CreateAny(v) = Array(items)
  BY <1>1, Zenon DEF CreateAny
<1>3. Array(items).js = "array" /\ Array(items).items = items
  BY DEF Array
<1>4. DOMAIN s = 1 .. Len(s) /\ Len(s) \in Nat /\ \A i \in DOMAIN s : s[i] \in Contents(t)
  OBVIOUS
<1>5. items \in Seq(T) /\ DOMAIN items = DOMAIN s /\ Len(items) = Len(s)
  <2>1. items \in [1 .. Len(s) -> T] /\ DOMAIN items = DOMAIN s
    BY <1>4
  <2> HIDE DEF items, T
  <2>2. QED
    BY <1>4, <2>1
<1>6. \A i \in DOMAIN s : items[i] = CreateScalar(t, s[i])
  OBVIOUS
<1> HIDE DEF items, T
<1>7. Bad(v) <=> \E i, k \in DOMAIN s : GetType(items[i]) # GetType(items[k])
  BY <1>1, <1>6, Zenon DEF Bad, Mixed
<1>8. CASE Bad(v)
  <2>1. PICK i \in DOMAIN s, k \in DOMAIN s : GetType(items[i]) # GetType(items[k])
    BY <1>7, <1>8
  <2>2. ~ \A j \in DOMAIN items : GetType(items[j]) = GetType(items[1])
    BY <1>5, <2>1, Zenon
  <2>3. AnyArray(items) = Reject
    BY <2>2, Zenon DEF AnyArray
  <2>4. items # <<>>
    BY <1>5, <2>1
  <2>5. AnyFromObject(Array(items)) = Reject
    BY <1>3, <2>3, <2>4, Zenon DEF AnyFromObject
  <2>6. QED
    BY <1>2, <1>8, <2>5
<1>9. CASE s = <<>>
  <2> DEFINE w == Native(ListOf(Int64), <<>>)
  <2>1. items = <<>>
    BY <1>5, <1>9
  <2>2. AnyFromObject(Array(items)) = w
    BY <1>3, <2>1, Zenon DEF AnyFromObject
  <2>3. w.t.kind = "list" /\ w.v = <<>> /\ w.t.of = Int64
    BY DEF Native, ListOf
  <2>4. Typed(w)
    <3>1. <<>> \in Seq(Contents(Int64))
      OBVIOUS
    <3>2. QED
      BY <3>1, AnyTypeFacts, Zenon DEF Typed
  <2> HIDE DEF v, w
  <2>5. DOMAIN w.v = {} /\ DOMAIN v.v = {} /\ Len(v.v) = Len(w.v)
    BY <1>1, <1>9, <2>3
  <2>6. ~ Bad(v) /\ ~ Bad(w)
    BY <1>1, <2>3, <2>5 DEF Bad, Mixed
  <2>7. SameContent(v, w)
    BY <1>1, <2>3, <2>5, ContentByElement, Zenon
  <2>8. QED
    BY <1>2, <2>2, <2>4, <2>6, <2>7 DEF v
<1>10. CASE s # <<>> /\ ~ Bad(v)
  <2> DEFINE k == GetType(items[1])
             u == TypeFor(k)
  <2>1. items # <<>> /\ 1 \in DOMAIN s
    BY <1>4, <1>5, <1>10
  <2>2. \A i \in DOMAIN items : GetType(items[i]) = k
    BY <1>5, <1>7, <1>10, <2>1, Zenon
  <2> HIDE DEF k
  <2>3. ASSUME NEW i \in DOMAIN items
        PROVE  /\ u \in Scalars
               /\ \E m \in Contents(u) :
                    /\ FromScalar(items[i]) = Native(u, <<m>>)
                    /\ SameElement(t, s[i], u, m)
                    /\ GetType(CreateScalar(u, m)) = k
    <3>1. items[i] = CreateScalar(t, s[i]) /\ s[i] \in Contents(t) /\ GetType(items[i]) = k
      BY <1>4, <1>5, <1>6, <2>2
    <3>2. u = TypeFor(GetType(CreateScalar(t, s[i])))
      BY <3>1
    <3> HIDE DEF u
    <3>3. QED
      BY <3>1, <3>2, ScalarEcho
  <2>4. u \in Scalars
    BY <1>5, <2>1, <2>3
  <2>5. PICK a \in Seq(Contents(u)) :
           /\ AnyArray(items) = Native(ListOf(u), a)
           /\ Len(a) = Len(items) /\ DOMAIN a = DOMAIN items
           /\ \A i \in DOMAIN items : FromScalar(items[i]) = Native(u, <<a[i]>>)
    <3>1. \A i \in DOMAIN items : \E m \in Contents(u) : FromScalar(items[i]) = Native(u, <<m>>)
      BY <2>3
    <3>2. \A i \in DOMAIN items : GetType(items[i]) = GetType(items[1])
      BY <1>5, <2>1, <2>2
    <3> HIDE DEF u
    <3>3. QED
      BY <1>5, <2>1, <2>4, <3>1, <3>2, ElementsTaken
  <2> DEFINE w == Native(ListOf(u), a)
  <2>6. AnyFromObject(CreateAny(v)) = w
    BY <1>2, <1>3, <2>1, <2>5, Zenon DEF AnyFromObject
  <2>7. w.t.kind = "list" /\ w.v = a /\ w.t.of = u
    BY DEF Native, ListOf
  <2>8. Typed(w)
    BY <2>4, Zenon DEF Typed
  <2> HIDE DEF u
  <2>9. \A i \in DOMAIN items : SameElement(t, s[i], u, a[i]) /\ GetType(CreateScalar(u, a[i])) = k
    <3>1. ASSUME NEW i \in DOMAIN items
          PROVE  SameElement(t, s[i], u, a[i]) /\ GetType(CreateScalar(u, a[i])) = k
      <4>1. PICK m \in Contents(u) :
                    /\ FromScalar(items[i]) = Native(u, <<m>>)
                    /\ SameElement(t, s[i], u, m)
                    /\ GetType(CreateScalar(u, m)) = k
        BY <2>3
      <4>2. Native(u, <<m>>) = Native(u, <<a[i]>>)
        BY <2>5, <4>1
      <4>3. m = a[i]
        BY <4>2 DEF Native
      <4>4. QED
        BY <4>1, <4>3
    <3>2. QED
      BY <3>1
  <2> HIDE DEF v, w
  <2>10. ~ Bad(w)
    BY <2>5, <2>7, <2>9, Zenon DEF Bad, Mixed
  <2>11. SameContent(v, w)
    <3>1. ElementType(v) = t /\ ElementType(w) = u
      BY <1>1, <2>7 DEF ElementType
    <3>2. \A i \in DOMAIN v.v : SameElement(ElementType(v), v.v[i], ElementType(w), w.v[i])
      BY <1>1, <1>5, <2>7, <2>9, <3>1
    <3>3. Len(v.v) = Len(w.v) /\ (v.t.kind = "list") = (w.t.kind = "list")
      BY <1>1, <1>5, <2>5, <2>7
    <3>4. QED
      BY <3>2, <3>3, ContentByElement, Zenon
  <2>12. QED
    BY <1>10, <2>6, <2>8, <2>10, <2>11 DEF v
<1>11. QED
  BY <1>8, <1>9, <1>10

\* What a script hands back has the content of what it was given, or never had
\* a way back; and it will come back again.
LEMMA AnyEcho ==
  ASSUME NEW v, Typed(v)
  PROVE  LET w == AnyFromObject(CreateAny(v))
         IN  \/ Bad(v) /\ w = Reject
             \/ ~ Bad(v) /\ Typed(w) /\ SameContent(v, w) /\ ~ Bad(w)
<1>1. CASE v = Native(None, <<>>)
  BY <1>1, NoneEcho
<1>2. CASE \E t \in Scalars : \E n \in Contents(t) : v = Native(t, <<n>>)
  <2>1. PICK t \in Scalars : \E n \in Contents(t) : v = Native(t, <<n>>)
    BY <1>2
  <2>2. PICK n \in Contents(t) : v = Native(t, <<n>>)
    BY <2>1
  <2>3. QED
    BY <2>2, OneEcho
<1>3. CASE \E t \in Scalars : \E s \in Seq(Contents(t)) : v = Native(ListOf(t), s)
  <2>1. PICK t \in Scalars : \E s \in Seq(Contents(t)) : v = Native(ListOf(t), s)
    BY <1>3
  <2>2. PICK s \in Seq(Contents(t)) : v = Native(ListOf(t), s)
    BY <2>1
  <2>3. QED
    BY <2>2, AnyListEcho
<1>4. QED
  BY <1>1, <1>2, <1>3 DEF Typed

----------------------------------------------------------------------------
\* The values of `any' that native code, or a script, starts with.

LEMMA SamplesHold ==
  ASSUME NEW t \in Scalars
  PROVE  Samples(t) \subseteq Contents(t)
<1>1. CASE t.kind = "int"
  BY <1>1 DEF Samples, Contents
<1>2. CASE t = Float
  <2>1. Mid \in Nat /\ Mid + 1 \in Nat /\ Wide + 1 \in Nat
    BY AnyTypeFacts, ConvertConstants
  <2>2. Pow2[Mid] \in Int /\ Pow2[Mid + 1] \in Int /\ Pow2[Wide + 1] \in Int
    BY <2>1, Pow2Positive
  <2>3. QED
    BY <1>2, <2>2, AnyTypeFacts DEF Samples, Contents
<1>3. CASE t = Pointer
  <2>1. Pow2[Wide - 1] \in Nat /\ Pow2[Wide - 1] > 0
    BY ConvertConstants, Pow2Positive
  <2>2. QED
    BY <1>3, <2>1, AnyTypeFacts DEF Samples, Contents
<1>4. CASE t.kind \in Plain
  BY <1>4 DEF Samples, Contents, Plain
<1>5. QED
  BY <1>1, <1>2, <1>3, <1>4, ScalarCases

LEMMA BoundedSamples ==
  ASSUME NEW t \in Scalars, NEW s \in BoundedSeq(Samples(t), MaxList)
  PROVE  s \in Seq(Contents(t))
<1>1. s \in Seq(Samples(t))
  BY BoundedIsSeq, ConvertConstants
<1>2. QED
  BY <1>1, SamplesHold

LEMMA NativeStart ==
  ASSUME NEW v \in AnyNatives
  PROVE  Typed(v)
<1>1. CASE v \in AnyOnes
  <2>1. PICK t \in Scalars : \E n \in Samples(t) : v = Native(t, <<n>>)
    BY <1>1 DEF AnyOnes
  <2>2. PICK n \in Samples(t) : v = Native(t, <<n>>)
    BY <2>1
  <2>3. n \in Contents(t)
    BY SamplesHold
  <2>4. QED
    BY <2>2, <2>3, Zenon DEF Typed
<1>2. CASE v \in AnyLists
  <2>1. PICK t \in Scalars : \E s \in BoundedSeq(Samples(t), MaxList) : v = Native(ListOf(t), s)
    BY <1>2 DEF AnyLists
  <2>2. PICK s \in BoundedSeq(Samples(t), MaxList) : v = Native(ListOf(t), s)
    BY <2>1
  <2>3. s \in Seq(Contents(t))
    BY BoundedSamples
  <2>4. QED
    BY <2>2, <2>3, Zenon DEF Typed
<1>3. CASE v = Native(None, <<>>)
  BY <1>3 DEF Typed
<1>4. QED
  BY <1>1, <1>2, <1>3 DEF AnyNatives

\* A script's value that is no array is taken as the type GetType names, or
\* rejected.
LEMMA AtomTaken ==
  ASSUME NEW x \in AnyAtoms
  PROVE  /\ x.js \notin {"array", "typed"}
         /\ \/ FromScalar(x) = Reject
            \/ /\ TypeFor(GetType(x)) \in Scalars
               /\ \E m \in Contents(TypeFor(GetType(x))) : FromScalar(x) = Native(TypeFor(GetType(x)), <<m>>)
<1> DEFINE u == TypeFor(GetType(x))
           Ok == /\ x.js \notin {"array", "typed"}
                 /\ \/ FromScalar(x) = Reject
                    \/ u \in Scalars /\ \E m \in Contents(u) : FromScalar(x) = Native(u, <<m>>)
<1>1. ASSUME NEW h \in Int, x = Js("number", <<h>>) PROVE Ok
  <2>1. x.js = "number"
    BY <1>1 DEF Js
  <2>2. u \in {Int32, Uint32, Float} /\ \E m \in Contents(u) : FromScalar(x) = Native(u, <<m>>)
    BY <1>1, NumberTaken
  <2> HIDE DEF u
  <2>3. QED
    BY <2>1, <2>2, AnyTypeFacts
<1>2. ASSUME NEW n \in Int, x = Js("bigint", <<n>>) PROVE Ok
  <2>1. x.js = "bigint"
    BY <1>2 DEF Js
  <2>2. u = Int64 /\ FromScalar(x) = Native(Int64, <<Int64Value(n)>>) /\ Int64Value(n) \in Contents(Int64)
    BY <1>2, BigIntTaken
  <2> HIDE DEF u
  <2>3. QED
    BY <2>1, <2>2, AnyTypeFacts
<1>3. ASSUME x = Js("external", << 1 >>) PROVE Ok
  <2>1. x.js = "external" /\ x.v = <<1>>
    BY <1>3 DEF Js
  <2>2. GetType(x) = "external" /\ TypeFor("external") = Pointer
    BY <2>1 DEF GetType, TypeFor
  <2>3. FromScalar(x) = Native(Pointer, <<1>>)
    BY <2>1, <2>2 DEF FromScalar
  <2>4. 1 \in Contents(Pointer)
    <3>1. Pow2[0] = 1 /\ Pow2[0 + 1] = 2 * Pow2[0]
      BY Pow2Equations
    <3>2. Mid \in 1 .. Wide /\ Wide \in Nat /\ Mid < Wide
      BY AnyTypeFacts, ConvertConstants
    <3>3. Pow2[1] <= Pow2[Wide - 1] /\ Pow2[Wide - 1] \in Nat
      BY <3>2, Pow2Grows, Pow2Positive
    <3>4. QED
      BY <3>1, <3>3, AnyTypeFacts DEF Contents
  <2>5. QED
    BY <2>1, <2>2, <2>3, <2>4, AnyTypeFacts
<1>4. ASSUME NEW k \in Plain, NEW n \in Nat \ {0}, x = Js(k, <<n>>) PROVE Ok
  <2>1. x.js \notin {"array", "typed"}
    BY <1>4 DEF Js, Plain
  <2>2. u = [kind |-> k] /\ FromScalar(x) = Native([kind |-> k], <<n>>) /\ n \in Contents([kind |-> k])
    BY <1>4, PlainTaken
  <2> HIDE DEF u
  <2>3. QED
    BY <2>1, <2>2, AnyTypeFacts
<1>5. ASSUME x = Js("undefined", <<>>) PROVE Ok
  <2>1. x.js = "undefined"
    BY <1>5 DEF Js
  <2>2. FromScalar(x) = Reject
    BY <2>1 DEF FromScalar, GetType
  <2>3. QED
    BY <2>1, <2>2
<1>6. ASSUME NEW k \in {"vector", "matrix"}, x = Js(k, << 0 >>) PROVE Ok
  <2>1. x.js = k /\ x.v[1] = 0
    BY <1>6 DEF Js
  <2>2. FromScalar(x) = Reject
    BY <2>1 DEF FromScalar, GetType
  <2>3. QED
    BY <2>1, <2>2
<1>7. \/ \E h \in Int : x = Js("number", <<h>>)
      \/ \E n \in Int : x = Js("bigint", <<n>>)
      \/ x = Js("external", <<1>>)
      \/ x = Js("undefined", <<>>)
      \/ \E k \in Plain : \E n \in Nat \ {0} : x = Js(k, <<n>>)
      \/ \E k \in {"vector", "matrix"} : x = Js(k, <<0>>)
  <2>1. Pow2[Mid - 1] \in Int /\ Pow2[Wide - 1] \in Int /\ Pow2[Wide] \in Int
    BY AnyTypeFacts, ConvertConstants, Pow2Positive
  <2>2. Samples(Float) \subseteq Int
    BY SamplesHold, AnyTypeFacts DEF Contents
  <2>3. CASE x \in AnyNumbers
    <3> DEFINE S == Samples(Float) \union {-2 * Pow2[Mid - 1], -2 * Pow2[Mid - 1] - 2}
    <3>1. S \subseteq Int
      BY <2>1, <2>2
    <3>2. \E h \in S : x = Js("number", <<h>>)
      BY <2>3, Zenon DEF AnyNumbers
    <3> HIDE DEF S
    <3>3. \E h \in Int : x = Js("number", <<h>>)
      BY <3>1, <3>2, Zenon
    <3>4. QED
      BY <3>3, Zenon
  <2>4. CASE x \in AnyBigInts
    <3> DEFINE S == {0, Pow2[Wide - 1], -Pow2[Wide]}
    <3>1. S \subseteq Int
      BY <2>1
    <3>2. \E n \in S : x = Js("bigint", <<n>>)
      BY <2>4, Zenon DEF AnyBigInts
    <3> HIDE DEF S
    <3>3. \E n \in Int : x = Js("bigint", <<n>>)
      BY <3>1, <3>2, Zenon
    <3>4. QED
      BY <3>3, Zenon
  <2>5. CASE x \in AnyPlain
    <3>1. ASSUME NEW k \in {"boolean", "string"}, NEW n \in {1, 2}, x = Js(k, <<n>>)
          PROVE  k \in Plain /\ n \in Nat \ {0}
      BY DEF Plain
    <3>2. ASSUME NEW k \in {"vector", "matrix"}, NEW n \in {0, 1}, x = Js(k, <<n>>), n # 0
          PROVE  k \in Plain /\ n \in Nat \ {0}
      BY <3>2 DEF Plain
    <3>3. \/ \E k \in {"boolean", "string"} : \E n \in {1, 2} : x = Js(k, <<n>>)
          \/ \E k \in {"vector", "matrix"} : \E n \in {0, 1} : x = Js(k, <<n>>)
      BY <2>5, SMT DEF AnyPlain
    <3>4. QED
      BY <3>1, <3>2, <3>3, Zenon
  <2>6. CASE x \in {Js("external", <<1>>), Js("undefined", <<>>)}
    BY <2>6, Zenon
  <2>7. QED
    BY <2>3, <2>4, <2>5, <2>6, Zenon DEF AnyAtoms
<1> HIDE DEF Ok
<1>8. Ok
  BY <1>1, <1>2, <1>3, <1>4, <1>5, <1>6, <1>7
<1>9. QED
  BY <1>8, Zenon DEF Ok

\* What AnyKept says of a script's value x that native code has as v.
ScriptSame(x, v) ==
  CASE x.js = "array" ->
         /\ Len(v.v) = Len(x.items)
         /\ \A i \in DOMAIN x.items : SameContent(FromScalar(x.items[i]), Native(ElementType(v), <<v.v[i]>>))
    [] x.js = "typed" -> SameContent(Native(ListOf(x.elem), x.v), v)
    [] OTHER -> SameContent(FromScalar(x), v)

\* Each element of a script's value is taken.
ScriptTyped(x) ==
  CASE x.js = "array" ->
         /\ DOMAIN x.items = 1 .. Len(x.items)
         /\ \A i \in DOMAIN x.items : Typed(FromScalar(x.items[i]))
    [] x.js = "typed" -> Typed(Native(ListOf(x.elem), x.v))
    [] OTHER -> Typed(FromScalar(x))

\* What a script starts with arrives with its content, or is rejected.
LEMMA ScriptStart ==
  ASSUME NEW x \in AnyScripts
  PROVE  LET v == AnyFromObject(x) IN v = Reject \/ (Typed(v) /\ ScriptSame(x, v) /\ ScriptTyped(x))
<1> DEFINE v == AnyFromObject(x)
<1>1. CASE x \in AnyAtoms
  <2>1. x.js \notin {"array", "typed"} /\ v = IF x.js = "matrix" THEN Reject ELSE FromScalar(x)
    BY <1>1, AtomTaken DEF AnyFromObject
  <2>2. FromScalar(x) = Reject \/ Typed(FromScalar(x))
    BY <1>1, AtomTaken, Zenon DEF Typed
  <2>3. SameContent(FromScalar(x), FromScalar(x))
    BY ContentReflexive
  <2>4. ScriptSame(x, FromScalar(x))
    BY <2>1, <2>3 DEF ScriptSame
  <2> HIDE DEF v
  <2>5. v = Reject \/ (Typed(v) /\ ScriptSame(x, v) /\ ScriptTyped(x))
    <3>1. Typed(FromScalar(x)) => ScriptTyped(x)
      BY <2>1 DEF ScriptTyped
    <3>2. QED
      BY <2>1, <2>2, <2>4, <3>1, Zenon
  <2>6. QED
    BY <2>5 DEF v
<1>2. CASE x \in AnyTypedArrays
  <2>1. PICK e \in Ints \union {Float} : \E s \in BoundedSeq(Samples(e), MaxList) :
               x = [js |-> "typed", elem |-> e, v |-> s]
    BY <1>2 DEF AnyTypedArrays
  <2>2. PICK s \in BoundedSeq(Samples(e), MaxList) : x = [js |-> "typed", elem |-> e, v |-> s]
    BY <2>1
  <2>3. x.js = "typed" /\ x.elem = e /\ x.v = s
    BY <2>2
  <2>4. e \in Scalars
    BY DEF Scalars
  <2>5. s \in Seq(Contents(e))
    BY <2>4, BoundedSamples
  <2>6. v = Native(ListOf(e), s)
    BY <2>3 DEF AnyFromObject
  <2>7. Typed(Native(ListOf(e), s))
    BY <2>4, <2>5, Zenon DEF Typed
  <2>8. ScriptSame(x, Native(ListOf(e), s))
    BY <2>3, ContentReflexive DEF ScriptSame
  <2>9. ScriptTyped(x)
    BY <2>3, <2>7 DEF ScriptTyped
  <2>10. QED
    BY <2>6, <2>7, <2>8, <2>9
<1>3. CASE x \in AnyArrays
  <2>1. PICK items \in BoundedSeq(AnyAtoms, MaxList) : x = Array(items)
    BY <1>3 DEF AnyArrays
  <2>2. x.js = "array" /\ x.items = items
    BY <2>1 DEF Array
  <2>3. items \in Seq(AnyAtoms)
    BY BoundedIsSeq, ConvertConstants
  <2>4. CASE items = <<>>
    <3> DEFINE w == Native(ListOf(Int64), <<>>)
    <3>1. v = w
      BY <2>2, <2>4 DEF AnyFromObject
    <3>2. <<>> \in Seq(Contents(Int64))
      OBVIOUS
    <3>3. Typed(w)
      BY <3>2, AnyTypeFacts, Zenon DEF Typed
    <3>4. w.v = <<>>
      BY DEF Native
    <3>5. ScriptSame(x, w)
      <4> HIDE DEF w
      <4>1. Len(w.v) = Len(x.items) /\ DOMAIN x.items = {}
        BY <2>2, <2>4, <3>4
      <4>2. QED
        BY <2>2, <4>1 DEF ScriptSame
    <3>6. ScriptTyped(x)
      <4>1. DOMAIN x.items = 1 .. Len(x.items) /\ DOMAIN x.items = {}
        BY <2>2, <2>4
      <4>2. QED
        BY <2>2, <4>1 DEF ScriptTyped
    <3>7. QED
      BY <3>1, <3>3, <3>5, <3>6
  <2>5. CASE items # <<>> /\ AnyArray(items) = Reject
    BY <2>2, <2>5 DEF AnyFromObject
  <2>6. CASE items # <<>> /\ AnyArray(items) # Reject
    <3> DEFINE u == TypeFor(GetType(items[1]))
    <3>1. /\ \A i \in DOMAIN items : GetType(items[i]) = GetType(items[1])
          /\ \A i \in DOMAIN items : FromScalar(items[i]) # Reject
      BY <2>6, Zenon DEF AnyArray
    <3>2. DOMAIN items = 1 .. Len(items) /\ Len(items) \in Nat /\ 1 \in DOMAIN items
          /\ \A i \in DOMAIN items : items[i] \in AnyAtoms
      BY <2>3, <2>6
    <3>3. ASSUME NEW i \in DOMAIN items
          PROVE  u \in Scalars /\ \E m \in Contents(u) : FromScalar(items[i]) = Native(u, <<m>>)
      <4>1. items[i] \in AnyAtoms /\ FromScalar(items[i]) # Reject /\ u = TypeFor(GetType(items[i]))
        BY <3>1, <3>2
      <4> HIDE DEF u
      <4>2. QED
        BY <4>1, AtomTaken
    <3>4. u \in Scalars
      BY <3>2, <3>3
    <3> HIDE DEF u
    <3>5. \A i \in DOMAIN items : \E m \in Contents(u) : FromScalar(items[i]) = Native(u, <<m>>)
      BY <3>3
    <3>6. PICK a \in Seq(Contents(u)) :
           /\ AnyArray(items) = Native(ListOf(u), a)
           /\ Len(a) = Len(items) /\ DOMAIN a = DOMAIN items
           /\ \A i \in DOMAIN items : FromScalar(items[i]) = Native(u, <<a[i]>>)
      BY <2>3, <2>6, <3>1, <3>4, <3>5, ElementsTaken
    <3> DEFINE w == Native(ListOf(u), a)
    <3>7. v = w
      BY <2>2, <2>6, <3>6 DEF AnyFromObject
    <3>8. Typed(w)
      BY <3>4, Zenon DEF Typed
    <3>9. w.v = a /\ ElementType(w) = u
      BY DEF Native, ListOf, ElementType
    <3> HIDE DEF w
    <3>10. \A i \in DOMAIN items : SameContent(FromScalar(items[i]), Native(ElementType(w), <<w.v[i]>>))
      BY <3>6, <3>9, ContentReflexive, Zenon
    <3>11. ScriptSame(x, w)
      BY <2>2, <3>6, <3>9, <3>10, Zenon DEF ScriptSame
    <3>12. ScriptTyped(x)
      <4>1. \A i \in DOMAIN items : Typed(FromScalar(items[i]))
        BY <3>4, <3>5, Zenon DEF Typed
      <4>2. DOMAIN x.items = 1 .. Len(x.items)
        BY <2>2, <3>2
      <4>3. QED
        BY <2>2, <4>1, <4>2, Zenon DEF ScriptTyped
    <3>13. QED
      BY <3>7, <3>8, <3>11, <3>12 DEF w
  <2>7. QED
    BY <2>4, <2>5, <2>6
<1>4. QED
  BY <1>1, <1>2, <1>3 DEF AnyScripts

----------------------------------------------------------------------------
\* The invariant for `any': a native value has the content of the start, a
\* script's value is made from such a one or is the start.

LEMMA ElementIsScalar ==
  ASSUME NEW v, Typed(v)
  PROVE  ElementType(v).kind # "list"
<1>1. CASE v = Native(None, <<>>)
  BY <1>1 DEF ElementType, Native, None
<1>2. CASE \E t \in Scalars : \E n \in Contents(t) : v = Native(t, <<n>>)
  BY <1>2, ScalarIsNoList DEF ElementType, Native
<1>3. CASE \E t \in Scalars : \E s \in Seq(Contents(t)) : v = Native(ListOf(t), s)
  BY <1>3, ScalarIsNoList DEF ElementType, Native, ListOf
<1>4. QED
  BY <1>1, <1>2, <1>3 DEF Typed

\* What has the content of a script's value keeps it on the way.
LEMMA ScriptSameStep ==
  ASSUME NEW x, NEW v, NEW w, Typed(v), Typed(w), SameContent(v, w), ScriptTyped(x), ScriptSame(x, v)
  PROVE  ScriptSame(x, w)
<1>1. v.v \in Seq(Int) /\ w.v \in Seq(Int)
  BY TypedFacts
<1>2. ElementType(v).kind # "list" /\ ElementType(w).kind # "list"
  BY ElementIsScalar
<1>3. Len(v.v) = Len(w.v) /\ \A i \in DOMAIN v.v : SameElement(ElementType(v), v.v[i], ElementType(w), w.v[i])
  BY ContentByElement, Zenon
<1>4. CASE x.js = "array"
  <2>1. /\ DOMAIN x.items = 1 .. Len(x.items)
        /\ \A i \in DOMAIN x.items : Typed(FromScalar(x.items[i]))
        /\ Len(v.v) = Len(x.items)
        /\ \A i \in DOMAIN x.items : SameContent(FromScalar(x.items[i]), Native(ElementType(v), <<v.v[i]>>))
    BY <1>4 DEF ScriptTyped, ScriptSame
  <2>2. DOMAIN x.items = DOMAIN v.v
    BY <1>1, <2>1
  <2>3. ASSUME NEW i \in DOMAIN x.items, i \in DOMAIN v.v
        PROVE  SameContent(FromScalar(x.items[i]), Native(ElementType(w), <<w.v[i]>>))
    <3> DEFINE a == FromScalar(x.items[i])
               b == Native(ElementType(v), <<v.v[i]>>)
               c == Native(ElementType(w), <<w.v[i]>>)
    <3>1. i \in DOMAIN w.v /\ v.v[i] \in Int /\ w.v[i] \in Int
      BY <1>1, <1>3, <2>3
    <3>2. b.t = ElementType(v) /\ b.v = <<v.v[i]>> /\ c.t = ElementType(w) /\ c.v = <<w.v[i]>>
      BY DEF Native
    <3>3. ElementType(b) = ElementType(v) /\ ElementType(c) = ElementType(w)
      BY <1>2, <3>2 DEF ElementType
    <3>4. SameContent(a, b)
      BY <2>1
    <3>5. a.v \in Seq(Int)
      BY <2>1, TypedFacts
    <3> HIDE DEF a, b, c
    <3>6. b.v \in Seq(Int) /\ DOMAIN b.v = {1} /\ b.v[1] = v.v[i] /\ c.v[1] = w.v[i] /\ Len(b.v) = Len(c.v)
      BY <3>1, <3>2
    <3>7. SameElement(ElementType(v), v.v[i], ElementType(w), w.v[i])
      BY <1>3, <2>3
    <3>8. \A k \in DOMAIN b.v : SameElement(ElementType(b), b.v[k], ElementType(c), c.v[k])
      BY <3>3, <3>6, <3>7
    <3>9. (b.t.kind = "list") = (c.t.kind = "list")
      BY <1>2, <3>2
    <3>10. SameContent(b, c)
      BY <3>6, <3>8, <3>9, ContentByElement, Zenon
    <3>11. SameContent(a, c)
      BY <3>4, <3>5, <3>6, <3>10, ContentTransitive, Zenon
    <3>12. QED
      BY <3>11 DEF a, c
  <2>4. \A i \in DOMAIN x.items : SameContent(FromScalar(x.items[i]), Native(ElementType(w), <<w.v[i]>>))
    BY <2>3, <2>2
  <2>5. QED
    BY <1>3, <1>4, <2>1, <2>4, Zenon DEF ScriptSame
<1>5. CASE x.js = "typed"
  <2>1. Typed(Native(ListOf(x.elem), x.v)) /\ SameContent(Native(ListOf(x.elem), x.v), v)
    BY <1>5 DEF ScriptTyped, ScriptSame
  <2>2. SameContent(Native(ListOf(x.elem), x.v), w)
    BY <1>1, <2>1, TypedFacts, ContentTransitive
  <2>3. QED
    BY <1>5, <2>2 DEF ScriptSame
<1>6. CASE x.js \notin {"array", "typed"}
  <2>1. Typed(FromScalar(x)) /\ SameContent(FromScalar(x), v)
    BY <1>6 DEF ScriptTyped, ScriptSame
  <2>2. SameContent(FromScalar(x), w)
    BY <1>1, <2>1, TypedFacts, ContentTransitive
  <2>3. QED
    BY <1>6, <2>2 DEF ScriptSame
<1>7. QED
  BY <1>4, <1>5, <1>6

\* v has the content of the start; if native code started, v is the start
\* itself or will come back from a script.
Kept(v) ==
  \/ /\ start.side = "native"
     /\ Typed(start.value)
     /\ SameContent(start.value, v)
     /\ v = start.value \/ ~ Bad(v)
  \/ /\ start.side = "script"
     /\ ScriptTyped(start.value)
     /\ ScriptSame(start.value, v)

AnyValueInv ==
  \/ /\ side = "native" /\ value = Reject
     /\ \/ start.side = "native" /\ Bad(start.value)
        \/ start.side = "script"
  \/ side = "native" /\ Typed(value) /\ Kept(value)
  \/ side = "script" /\ start.side = "script" /\ value = start.value /\ value \in AnyScripts
  \/ side = "script" /\ \E v : Typed(v) /\ Kept(v) /\ value = CreateAny(v)

AnyInv == type = AnyType => AnyValueInv

LEMMA AnyStart == Init \/ AnyInit => AnyInv
<1>1. ASSUME Init, type = AnyType PROVE FALSE
  BY <1>1, TypeCases DEF Init
<1>2. ASSUME AnyInit PROVE AnyValueInv
  <2>1. start.side = side /\ start.value = value
    BY <1>2 DEF AnyInit
  <2>2. CASE side = "native" /\ value \in AnyNatives
    <3>1. Typed(value) /\ SameContent(value, value)
      BY <2>2, NativeStart, ContentReflexive
    <3>2. Kept(value)
      BY <2>1, <2>2, <3>1 DEF Kept
    <3>3. QED
      BY <2>2, <3>1, <3>2 DEF AnyValueInv
  <2>3. CASE side = "script" /\ value \in AnyScripts
    BY <2>1, <2>3 DEF AnyValueInv
  <2>4. QED
    BY <1>2, <2>2, <2>3 DEF AnyInit
<1>3. QED
  BY <1>1, <1>2 DEF AnyInv

LEMMA AnyStep ==
  AnyInv /\ [(type # AnyType /\ Next) \/ AnyToScript \/ AnyToNative]_vars => AnyInv'
<1> SUFFICES ASSUME AnyValueInv, start' = start, type = AnyType,
                    AnyToScript \/ AnyToNative \/ UNCHANGED <<side, value>>
             PROVE  AnyValueInv'
  BY DEF AnyInv, Next, ToScript, ToNative, AnyToScript, AnyToNative, vars
<1>1. \A v : Kept(v) => Kept(v)'
  BY DEF Kept
<1>2. CASE UNCHANGED <<side, value>>
  BY <1>2 DEF AnyValueInv, Kept
<1>3. CASE AnyToScript
  <2>1. side = "native" /\ value # Reject /\ side' = "script" /\ value' = CreateAny(value)
    BY <1>3 DEF AnyToScript
  <2>2. Typed(value) /\ Kept(value)
    BY <2>1 DEF AnyValueInv
  <2>3. \E v : Typed(v) /\ Kept(v)' /\ value' = CreateAny(v)
    BY <1>1, <2>1, <2>2
  <2>4. QED
    BY <2>1, <2>3 DEF AnyValueInv
<1>4. CASE AnyToNative
  <2>1. side = "script" /\ side' = "native" /\ value' = AnyFromObject(value)
    BY <1>4 DEF AnyToNative
  <2>2. CASE start.side = "script" /\ value = start.value /\ value \in AnyScripts
    <3>1. value' = Reject \/ (Typed(value') /\ ScriptSame(start.value, value') /\ ScriptTyped(start.value))
      BY <2>1, <2>2, ScriptStart
    <3>2. CASE value' = Reject
      BY <2>1, <2>2, <3>2 DEF AnyValueInv
    <3>3. CASE Typed(value') /\ ScriptSame(start.value, value') /\ ScriptTyped(start.value)
      BY <2>1, <2>2, <3>3 DEF AnyValueInv, Kept
    <3>4. QED
      BY <3>1, <3>2, <3>3
  <2>3. ASSUME NEW v, Typed(v), Kept(v), value = CreateAny(v)
        PROVE  AnyValueInv'
    <3>1. \/ Bad(v) /\ value' = Reject
          \/ ~ Bad(v) /\ Typed(value') /\ SameContent(v, value') /\ ~ Bad(value')
      BY <2>1, <2>3, AnyEcho
    <3>2. CASE Bad(v) /\ value' = Reject
      <4>1. (start.side = "native" /\ Bad(start.value)) \/ start.side = "script"
        BY <2>3, <3>2 DEF Kept
      <4>2. QED
        BY <2>1, <3>2, <4>1 DEF AnyValueInv
    <3>3. CASE ~ Bad(v) /\ Typed(value') /\ SameContent(v, value') /\ ~ Bad(value')
      <4>1. CASE start.side = "native" /\ Typed(start.value) /\ SameContent(start.value, v)
        <5>1. SameContent(start.value, value')
          BY <2>3, <3>3, <4>1, TypedFacts, ContentTransitive
        <5>2. QED
          BY <2>1, <3>3, <4>1, <5>1 DEF AnyValueInv, Kept
      <4>2. CASE start.side = "script" /\ ScriptTyped(start.value) /\ ScriptSame(start.value, v)
        <5>1. ScriptSame(start.value, value')
          BY <2>3, <3>3, <4>2, ScriptSameStep
        <5>2. QED
          BY <2>1, <3>3, <4>2, <5>1 DEF AnyValueInv, Kept
      <4>3. QED
        BY <2>3, <4>1, <4>2 DEF Kept
    <3>4. QED
      BY <3>1, <3>2, <3>3
  <2>4. QED
    BY <2>1, <2>2, <2>3 DEF AnyValueInv
<1>5. QED
  BY <1>2, <1>3, <1>4

(***************************************************************************)
(* An `any' that a script hands back has the content it had, and what a    *)
(* script starts with arrives so, for any widths and whatever the array;   *)
(* or the call throws, and for what native code started with only where    *)
(* AnyKept says (CreateJsObject<plg::any>, ValueFromObject<plg::any>).     *)
(***************************************************************************)
THEOREM AnyIsKept == ConvertSpec => []AnyKept
<1>1. ASSUME AnyInv PROVE AnyKept
  <2> SUFFICES ASSUME type = AnyType, side = "native"
               PROVE  IF start.side = "native"
                      THEN IF value = Reject
                           THEN start.value.t.kind \in {"none", "matrix"} \/ Mixed(start.value)
                           ELSE SameContent(start.value, value)
                      ELSE value = Reject \/ ScriptSame(start.value, value)
    BY Zenon DEF AnyKept, ScriptSame
  <2>1. AnyValueInv
    BY <1>1 DEF AnyInv
  <2>2. CASE value = Reject /\ ((start.side = "native" /\ Bad(start.value)) \/ start.side = "script")
    BY <2>2 DEF Bad
  <2>3. CASE Typed(value) /\ Kept(value)
    <3>1. value # Reject
      BY <2>3, TypedFacts
    <3>2. QED
      BY <2>3, <3>1 DEF Kept
  <2>4. QED
    BY <2>1, <2>2, <2>3 DEF AnyValueInv
<1>2. QED
  BY <1>1, AnyStart, AnyStep, PTL DEF ConvertSpec

=============================================================================
