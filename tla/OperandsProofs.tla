----------------------------- MODULE OperandsProofs -----------------------------
(****************************************************************************)
(* Theorems about the operand stack: what the arithmetic and the            *)
(* comparisons make of mixed types, for every width of the integers and     *)
(* every grid of the floats.                                                *)
(****************************************************************************)
EXTENDS Operands, SequenceTheorems, TLAPS

USE DEF vars, TYPE_INT, TYPE_FLOAT, TYPE_CHAR, TYPE_BYTE, TYPE_ADDRESS

----------------------------------------------------------------------------
(* Integers of a width.                                                     *)

\* Division in the naturals.
LEMMA Division ==
  ASSUME NEW a \in Nat, NEW e \in Nat \ {0}
  PROVE  /\ a \div e \in Nat /\ a % e \in 0..(e - 1)
         /\ a = e * (a \div e) + (a % e)
         /\ a \div e <= a /\ e * (a \div e) \in Nat
<1>1. a \div e \in Nat /\ a % e \in 0..(e - 1) /\ a = e * (a \div e) + (a % e)
  OBVIOUS
<1> DEFINE k == a \div e
           r == a % e
<1>2. k \in Nat /\ r \in Nat /\ a = e * k + r
  BY <1>1
<1> HIDE DEF k, r
<1>3. e * k \in Nat /\ k <= e * k
  BY <1>2
<1>4. k <= a
  BY <1>2, <1>3
<1> QED
  BY <1>1, <1>3, <1>4 DEF k, r

\* Of the numbers that differ by multiples of m, one is in 0..(m - 1).
LEMMA OneOfThem ==
  ASSUME NEW m \in Nat \ {0}, NEW a \in 0..(m - 1), NEW b \in 0..(m - 1),
         NEW k \in Int, a = b + k * m
  PROVE  a = b
<1>1. CASE k = 0
  BY <1>1
<1>2. CASE k >= 1
  <2>1. k * m >= m
    BY <1>2
  <2> QED
    BY <2>1
<1>3. CASE k <= -1
  <2>1. k * m <= -m
    BY <1>3
  <2> QED
    BY <2>1
<1> QED
  BY <1>1, <1>2, <1>3

\* The word of a number and the number differ by a multiple of the modulus.
LEMMA Wrapped ==
  ASSUME NEW n \in Int, NEW m \in Nat \ {0}
  PROVE  /\ n % m \in 0..(m - 1)
         /\ \E k \in Int : n % m = n + k * m
<1>1. n % m \in 0..(m - 1) /\ n = m * (n \div m) + (n % m) /\ n \div m \in Int
  OBVIOUS
<1>2. PICK q \in Int : n = m * q + (n % m)
  BY <1>1
<1>3. (-q) * m = -(m * q) /\ m * q \in Int /\ -q \in Int
  OBVIOUS
<1>4. n % m = n + (-q) * m
  BY <1>1, <1>2, <1>3
<1> QED
  BY <1>1, <1>3, <1>4

\* A multiple of the modulus leaves no rest.
LEMMA Multiple ==
  ASSUME NEW m \in Nat \ {0}, NEW k \in Int
  PROVE  (k * m) % m = 0
<1>1. k * m \in Int
  OBVIOUS
<1>2. PICK j \in Int : (k * m) % m = k * m + j * m /\ (k * m) % m \in 0..(m - 1)
  BY <1>1, Wrapped
<1>3. (k * m) % m = 0 + (k + j) * m /\ k + j \in Int
  BY <1>2
<1> QED
  BY <1>2, <1>3, OneOfThem

\* Reading a word as signed: the number is back if it fits.
LEMMA SignedWord ==
  ASSUME NEW w \in Int, NEW m \in Nat \ {0}
  PROVE  /\ Signed(w, m) \in Int
         /\ -m <= 2 * Signed(w, m) /\ 2 * Signed(w, m) < m
         /\ \E k \in Int : Signed(w, m) = w + k * m
<1>1. PICK k \in Int : w % m = w + k * m /\ w % m \in 0..(m - 1)
  BY Wrapped
<1> DEFINE low == w % m
<1>2. Signed(w, m) = IF 2 * low >= m THEN low - m ELSE low
  BY DEF Signed
<1> HIDE DEF low
<1>3. low \in 0..(m - 1) /\ low = w + k * m
  BY <1>1 DEF low
<1>4. low - m = w + (k - 1) * m /\ k - 1 \in Int
  BY <1>3
<1>5. \E j \in Int : Signed(w, m) = w + j * m
  BY <1>2, <1>3, <1>4
<1>6. /\ Signed(w, m) \in Int
      /\ -m <= 2 * Signed(w, m) /\ 2 * Signed(w, m) < m
  BY <1>2, <1>3
<1> QED
  BY <1>5, <1>6

\* A word that differs from a number in range by a multiple of the modulus is read
\* as that number.
LEMMA SignedFits ==
  ASSUME NEW w \in Int, NEW n \in Int, NEW m \in Nat \ {0}, NEW k \in Int,
         w = n + k * m, -m <= 2 * n, 2 * n < m
  PROVE  Signed(w, m) = n
<1> DEFINE s == Signed(w, m)
<1>1. PICK j \in Int : s = w + j * m
  BY SignedWord
<1>2. s \in Int /\ -m <= 2 * s /\ 2 * s < m
  BY SignedWord
<1> HIDE DEF s
<1>3. s = n + (k + j) * m /\ k + j \in Int
  BY <1>1, <1>2
<1>4. PICK i \in Int : s = n + i * m
  BY <1>3
<1>5. CASE i = 0
  BY <1>4, <1>5 DEF s
<1>6. CASE i >= 1
  <2>1. i * m >= m
    BY <1>6
  <2> QED
    BY <1>2, <1>4, <2>1
<1>7. CASE i <= -1
  <2>1. i * m <= -m
    BY <1>7
  <2> QED
    BY <1>2, <1>4, <2>1
<1> QED
  BY <1>5, <1>6, <1>7

----------------------------------------------------------------------------
(* Division of C.                                                           *)

\* Quotient rounds towards zero: the rest is smaller than the divisor and on the
\* side of the dividend, and the quotient is at most half the dividend unless the
\* divisor is 1 or -1.
LEMMA RoundsToZero ==
  ASSUME NEW n \in Int, NEW d \in Int, d # 0
  PROVE  LET q == Quotient(n, d)
             rest == n - d * q
         IN  /\ q \in Int /\ rest \in Int
             /\ Abs(rest) < Abs(d) /\ rest * n >= 0 /\ Abs(rest) <= Abs(n)
             /\ n >= 0 => rest >= 0
             /\ n <= 0 => rest <= 0
             /\ d = 1 => q = n
             /\ d = -1 => q = -n
             /\ d \notin {1, -1} => 2 * q <= Abs(n) /\ -Abs(n) <= 2 * q
             /\ \E j \in Int : n - rest = j * Abs(d)
<1> DEFINE a == Abs(n)
           e == Abs(d)
           k == a \div e
           r == a % e
           q == Quotient(n, d)
<1>1. a \in Nat /\ e \in Nat \ {0}
  BY DEF Abs
<1>2. /\ k \in Nat /\ r \in 0..(e - 1) /\ a = e * k + r
      /\ k <= a /\ e * k \in Nat
  BY <1>1, Division
<1>3. e >= 2 => 2 * k <= a
  <2>1. HAVE e >= 2
  <2> HIDE DEF k, r, a, e
  <2>2. e * k >= 2 * k
    BY <1>1, <1>2, <2>1
  <2> QED
    BY <1>1, <1>2, <2>2
<1>4. e = 1 => k = a
  <2>1. HAVE e = 1
  <2> HIDE DEF k, r, a, e
  <2> QED
    BY <1>1, <1>2, <2>1
<1>5. q = Sgn(n) * Sgn(d) * k
  BY DEF Quotient
<1>6. k = 0 \/ n # 0
  <2>1. n = 0 => a = 0
    BY DEF Abs
  <2> QED
    BY <1>1, <1>2, <2>1
<1> HIDE DEF k, r, q
<1>7. \E s, t \in {1, -1} : n = s * a /\ d = t * e /\ q = s * t * k
  <2>1. CASE n >= 0 /\ d > 0
    <3>1. n = 1 * a /\ d = 1 * e /\ q = 1 * 1 * k
      BY <1>2, <1>5, <1>6, <2>1 DEF Sgn, Abs
    <3> QED
      BY <3>1
  <2>2. CASE n >= 0 /\ d < 0
    <3>1. n = 1 * a /\ d = (-1) * e /\ q = 1 * (-1) * k
      BY <1>2, <1>5, <1>6, <2>2 DEF Sgn, Abs
    <3> QED
      BY <3>1
  <2>3. CASE n < 0 /\ d > 0
    <3>1. n = (-1) * a /\ d = 1 * e /\ q = (-1) * 1 * k
      BY <1>2, <1>5, <2>3 DEF Sgn, Abs
    <3> QED
      BY <3>1
  <2>4. CASE n < 0 /\ d < 0
    <3>1. n = (-1) * a /\ d = (-1) * e /\ q = (-1) * (-1) * k
      BY <1>2, <1>5, <2>4 DEF Sgn, Abs
    <3> QED
      BY <3>1
  <2> QED
    BY <2>1, <2>2, <2>3, <2>4
<1>8. PICK s \in {1, -1}, t \in {1, -1} : n = s * a /\ d = t * e /\ q = s * t * k
  BY <1>7
<1> DEFINE rest == n - d * q
<1>9. rest = s * r /\ d * q = s * (k * e)
  <2> HIDE DEF a, e
  <2>1. (t * e) * (s * t * k) = s * (k * e)
    <3>1. CASE t = 1
      BY <1>1, <1>2, <3>1
    <3>2. CASE t = -1
      BY <1>1, <1>2, <3>2
    <3> QED
      BY <3>1, <3>2
  <2>2. s * a = s * (k * e) + s * r
    BY <1>1, <1>2
  <2> QED
    BY <1>1, <1>2, <1>8, <2>1, <2>2
<1>10. Abs(rest) = r /\ r <= a /\ rest \in Int
  BY <1>1, <1>2, <1>9 DEF Abs
<1>11. rest * n >= 0
  <2>1. rest * n = r * a
    <3> HIDE DEF a, rest
    <3>1. CASE s = 1
      BY <1>1, <1>2, <1>8, <1>9, <3>1
    <3>2. CASE s = -1
      BY <1>1, <1>2, <1>8, <1>9, <3>2
    <3> QED
      BY <3>1, <3>2
  <2> QED
    BY <1>1, <1>2, <2>1
<1>12. /\ n >= 0 => rest >= 0
       /\ n <= 0 => rest <= 0
  <2> HIDE DEF a, rest
  <2> QED
    BY <1>1, <1>2, <1>8, <1>9, <1>10
<1>13. /\ q \in Int
       /\ d = 1 => q = n
       /\ d = -1 => q = -n
       /\ d \notin {1, -1} => 2 * q <= a /\ -a <= 2 * q
  <2> HIDE DEF a, e
  <2> QED
    BY <1>1, <1>2, <1>3, <1>4, <1>8
<1>14. n - rest = (s * k) * e /\ s * k \in Int
  <2> HIDE DEF e
  <2>1. n - rest = d * q /\ d * q = s * (k * e)
    BY <1>9, <1>10, <1>13
  <2> QED
    BY <1>1, <1>2, <2>1
<1> HIDE DEF rest
<1>15. \E j \in Int : n - rest = j * e
  BY <1>14
<1>16. Abs(rest) < e
  BY <1>1, <1>2, <1>10
<1> QED
  BY <1>10, <1>11, <1>12, <1>13, <1>15, <1>16 DEF q, rest

----------------------------------------------------------------------------
(* Values as numbers.                                                       *)

\* Every integer that an INT can hold is a finite float.
LEMMA OnTheGrid ==
  ASSUME NEW n \in Int, -INT_MOD <= 2 * n, 2 * n <= INT_MOD
  PROVE  Unit * n \in (-MaxFloat)..MaxFloat
<1>1. Unit \in Nat \ {0} /\ INT_MOD \in Nat \ {0} /\ MaxFloat \in Nat
      /\ Unit * INT_MOD <= 2 * MaxFloat
  BY OperandsAssumption, NumbersFit
<1>2. PICK b \in Int : b = 2 * n
  OBVIOUS
<1>3. Unit * b <= Unit * INT_MOD /\ -(Unit * INT_MOD) <= Unit * b
  BY <1>1, <1>2
<1>4. Unit * b = 2 * (Unit * n) /\ Unit * n \in Int /\ Unit * INT_MOD \in Int
  BY <1>1, <1>2
<1> QED
  BY <1>1, <1>3, <1>4

\* primitive_as_int yields a number of the width of an INT.
LEMMA AsInt ==
  ASSUME NEW v \in Values, v.type # TYPE_FLOAT
  PROVE  /\ primitive_as_int(v) \in Int
         /\ -INT_MOD <= 2 * primitive_as_int(v) /\ 2 * primitive_as_int(v) < INT_MOD
<1>1. /\ v.u \in Int /\ v.type \in {TYPE_INT, TYPE_CHAR, TYPE_BYTE, TYPE_ADDRESS}
      /\ {INT_MOD, CHAR_MOD, BYTE_MOD} \subseteq Nat \ {0}
      /\ BYTE_MOD < INT_MOD /\ 2 * CHAR_MOD <= INT_MOD
  BY OperandsAssumption, NumbersFit DEF Values
<1>2. /\ Signed(v.u, INT_MOD) \in Int
      /\ -INT_MOD <= 2 * Signed(v.u, INT_MOD) /\ 2 * Signed(v.u, INT_MOD) < INT_MOD
  BY <1>1, SignedWord
<1>3. /\ Signed(v.u, BYTE_MOD) \in Int
      /\ -INT_MOD <= 2 * Signed(v.u, BYTE_MOD) /\ 2 * Signed(v.u, BYTE_MOD) < INT_MOD
  <2>1. /\ Signed(v.u, BYTE_MOD) \in Int
        /\ -BYTE_MOD <= 2 * Signed(v.u, BYTE_MOD) /\ 2 * Signed(v.u, BYTE_MOD) < BYTE_MOD
    BY <1>1, SignedWord
  <2> QED
    BY <1>1, <2>1
<1>4. v.u % CHAR_MOD \in 0..(CHAR_MOD - 1)
  BY <1>1
<1>5. /\ v.u % CHAR_MOD \in Int
      /\ -INT_MOD <= 2 * (v.u % CHAR_MOD) /\ 2 * (v.u % CHAR_MOD) < INT_MOD
  BY <1>1, <1>4
<1>6. INT_MOD > 0 /\ -INT_MOD <= 2 * 0 /\ 2 * 0 < INT_MOD
  BY <1>1
<1>7. CASE v.type = TYPE_INT
  <2>1. primitive_as_int(v) = Signed(v.u, INT_MOD)
    BY <1>7 DEF primitive_as_int
  <2> QED
    BY <1>2, <2>1
<1>8. CASE v.type = TYPE_CHAR
  <2>1. primitive_as_int(v) = v.u % CHAR_MOD
    BY <1>8 DEF primitive_as_int
  <2> QED
    BY <1>5, <2>1
<1>9. CASE v.type = TYPE_BYTE
  <2>1. primitive_as_int(v) = Signed(v.u, BYTE_MOD)
    BY <1>9 DEF primitive_as_int
  <2> QED
    BY <1>3, <2>1
<1>10. CASE v.type = TYPE_ADDRESS
  <2>1. primitive_as_int(v) = 0
    BY <1>10 DEF primitive_as_int
  <2> QED
    BY <1>6, <2>1
<1> QED
  BY <1>1, <1>7, <1>8, <1>9, <1>10

\* primitive_as_double is the number of every value but a BYTE.
LEMMA AsDouble ==
  ASSUME NEW v \in Values
  PROVE  /\ primitive_as_double(v) \in FloatNumbers
         /\ NumberOf(v) \in FloatNumbers
         /\ v.type # TYPE_FLOAT =>
              NumberOf(v) \in (-MaxFloat)..MaxFloat /\ NumberOf(v) = Unit * primitive_as_int(v)
         /\ primitive_is_numeric(v) /\ v.type # TYPE_BYTE => primitive_as_double(v) = NumberOf(v)
<1>1. /\ v.type \in {TYPE_INT, TYPE_CHAR, TYPE_BYTE, TYPE_ADDRESS, TYPE_FLOAT}
      /\ v.type = TYPE_FLOAT => v.u \in FloatNumbers
  BY DEF Values
<1>2. Unit \in Nat /\ MaxFloat \in Nat
  BY OperandsAssumption
<1>3. CASE v.type = TYPE_FLOAT
  BY <1>1, <1>3 DEF primitive_as_double, NumberOf
<1>4. CASE v.type # TYPE_FLOAT
  <2>1. Unit * primitive_as_int(v) \in (-MaxFloat)..MaxFloat
    <3>1. /\ primitive_as_int(v) \in Int
          /\ -INT_MOD <= 2 * primitive_as_int(v) /\ 2 * primitive_as_int(v) < INT_MOD
      BY <1>4, AsInt
    <3>2. 2 * primitive_as_int(v) <= INT_MOD
      BY <3>1, OperandsAssumption
    <3> QED
      BY <3>1, <3>2, OnTheGrid
  <2>2. NumberOf(v) = Unit * primitive_as_int(v)
    BY <1>4 DEF NumberOf
  <2>3. /\ v.type \in {TYPE_INT, TYPE_CHAR} =>
             primitive_as_double(v) = Unit * primitive_as_int(v)
        /\ v.type \notin {TYPE_INT, TYPE_CHAR} => primitive_as_double(v) = 0
    BY <1>4 DEF primitive_as_double, primitive_as_int
  <2>4. 0 \in FloatNumbers /\ (-MaxFloat)..MaxFloat \subseteq FloatNumbers
    BY <1>2 DEF FloatNumbers, INF, NAN
  <2>5. primitive_as_double(v) \in FloatNumbers
    BY <2>1, <2>3, <2>4
  <2>6. primitive_is_numeric(v) /\ v.type # TYPE_BYTE => v.type \in {TYPE_INT, TYPE_CHAR}
    BY <1>1, <1>4 DEF primitive_is_numeric
  <2> QED
    BY <1>4, <2>1, <2>2, <2>3, <2>4, <2>5, <2>6
<1> QED
  BY <1>3, <1>4

----------------------------------------------------------------------------
(* Results.                                                                 *)

\* What (float) makes of an integer is on the grid.
LEMMA Converts ==
  ASSUME NEW x \in Int
  PROVE  ToFloat(x) \in FloatNumbers
BY OperandsAssumption DEF ToFloat, FloatNumbers, INF, NAN

\* So are sums and differences, ...
LEMMA FloatSums ==
  ASSUME NEW x \in FloatNumbers, NEW y \in FloatNumbers
  PROVE  FloatAdd(x, y) \in FloatNumbers /\ FloatSub(x, y) \in FloatNumbers
<1>1. ASSUME NEW z \in FloatNumbers PROVE FloatAdd(x, z) \in FloatNumbers
  <2>1. x + z \in Int /\ NAN \in FloatNumbers
    BY OperandsAssumption DEF FloatNumbers, INF, NAN
  <2>2. ToFloat(x + z) \in FloatNumbers
    BY <2>1, Converts
  <2> QED
    BY <2>1, <2>2 DEF FloatAdd
<1>2. NAN \in FloatNumbers /\ (y # NAN => -y \in FloatNumbers)
  BY OperandsAssumption DEF FloatNumbers, INF, NAN
<1> QED
  BY <1>1, <1>2 DEF FloatSub

\* ... products, ...
LEMMA FloatProducts ==
  ASSUME NEW x \in FloatNumbers, NEW y \in FloatNumbers
  PROVE  FloatMul(x, y) \in FloatNumbers
<1>1. x \in Int /\ y \in Int /\ x * y \in Int /\ NAN \in FloatNumbers
  BY OperandsAssumption DEF FloatNumbers, INF, NAN
<1>2. Unit \in Int /\ Unit # 0
  BY OperandsAssumption
<1>3. Quotient(x * y, Unit) \in Int
  BY <1>1, <1>2, RoundsToZero
<1>4. ToFloat(Quotient(x * y, Unit)) \in FloatNumbers
  BY <1>3, Converts
<1>5. INF * Sgn(x) * Sgn(y) \in FloatNumbers
  BY <1>1, OperandsAssumption DEF FloatNumbers, INF, NAN, Sgn
<1> QED
  BY <1>1, <1>4, <1>5 DEF FloatMul

\* ... quotients and what fmod leaves.
LEMMA FloatQuotients ==
  ASSUME NEW x \in FloatNumbers, NEW y \in FloatNumbers
  PROVE  FloatDiv(x, y) \in FloatNumbers /\ FloatMod(x, y) \in FloatNumbers
<1>1. x \in Int /\ y \in Int /\ x * Unit \in Int /\ NAN \in FloatNumbers /\ 0 \in FloatNumbers
  BY OperandsAssumption DEF FloatNumbers, INF, NAN
<1>2. INF * Sgn(x) * Sgn(y) \in FloatNumbers /\ INF * Sgn(x) \in FloatNumbers
  BY <1>1, OperandsAssumption DEF FloatNumbers, INF, NAN, Sgn
<1>3. ASSUME y # 0 PROVE ToFloat(Quotient(x * Unit, y)) \in FloatNumbers
  <2>1. Quotient(x * Unit, y) \in Int
    BY <1>1, <1>3, RoundsToZero
  <2> QED
    BY <2>1, Converts
<1>4. FloatDiv(x, y) \in FloatNumbers
  BY <1>1, <1>2, <1>3 DEF FloatDiv
<1>5. ASSUME y # 0, x # NAN, ~Infinite(x) PROVE Remainder(x, y) \in FloatNumbers
  <2>1. Remainder(x, y) \in Int /\ Abs(Remainder(x, y)) <= Abs(x)
    BY <1>1, <1>5, RoundsToZero DEF Remainder
  <2>2. x \in (-INF)..INF /\ MaxFloat \in Nat
    BY <1>5, OperandsAssumption DEF FloatNumbers, INF, NAN
  <2> QED
    BY <2>1, <2>2 DEF FloatNumbers, INF, NAN, Abs
<1>6. FloatMod(x, y) \in FloatNumbers
  BY <1>1, <1>5 DEF FloatMod
<1> QED
  BY <1>4, <1>6

\* make_int and make_float make values.
LEMMA Makes ==
  /\ \A n \in Int : make_int(n) \in Values
  /\ \A x \in FloatNumbers : make_float(x) \in Values
<1>1. INT_MOD \in Nat \ {0}
  BY OperandsAssumption
<1>2. ASSUME NEW n \in Int PROVE n % INT_MOD \in 0..(INT_MOD - 1)
  BY <1>1
<1> QED
  BY <1>2 DEF make_int, make_float, Values

\* The functions of type_arithmetic.c make values of values.
LEMMA Computed ==
  ASSUME NEW a \in Values, NEW b \in Values
  PROVE  /\ primitive_add(a, b) \in Values
         /\ primitive_sub(a, b) \in Values
         /\ primitive_mul(a, b) \in Values
         /\ ~(OnIntegers(a, b) /\ primitive_as_int(b) = 0) =>
              primitive_div(a, b) \in Values /\ primitive_mod(a, b) \in Values
<1> DEFINE x == primitive_as_double(a)
           y == primitive_as_double(b)
           m == primitive_as_int(a)
           n == primitive_as_int(b)
<1>1. x \in FloatNumbers /\ y \in FloatNumbers
  BY AsDouble
<1>2. /\ \A i \in Int : make_int(i) \in Values
      /\ \A z \in FloatNumbers : make_float(z) \in Values
      /\ make_int(0) \in Values
  BY Makes
<1>3. /\ make_float(FloatAdd(x, y)) \in Values /\ make_float(FloatSub(x, y)) \in Values
      /\ make_float(FloatMul(x, y)) \in Values
      /\ make_float(FloatDiv(x, y)) \in Values /\ make_float(FloatMod(x, y)) \in Values
  <2> HIDE DEF x, y
  <2> QED
    BY <1>1, <1>2, FloatSums, FloatProducts, FloatQuotients
<1>4. ASSUME OnIntegers(a, b)
      PROVE  /\ m \in Int /\ n \in Int
             /\ make_int(IntAdd(m, n)) \in Values /\ make_int(IntSub(m, n)) \in Values
             /\ make_int(IntMul(m, n)) \in Values
             /\ n # 0 => make_int(Quotient(m, n)) \in Values /\ make_int(Remainder(m, n)) \in Values
  <2>1. m \in Int /\ n \in Int
    BY <1>4, AsInt DEF OnIntegers
  <2> HIDE DEF m, n
  <2>2. m + n \in Int /\ m - n \in Int /\ m * n \in Int
    BY <2>1
  <2>3. n # 0 => Quotient(m, n) \in Int /\ Remainder(m, n) \in Int
    BY <2>1, RoundsToZero DEF Remainder
  <2> QED
    BY <1>2, <2>1, <2>2, <2>3 DEF IntAdd, IntSub, IntMul
<1> HIDE DEF x, y, m, n
<1>5. \/ ~primitive_is_numeric(a) \/ ~primitive_is_numeric(b)
      \/ TYPE_FLOAT \in {a.type, b.type}
      \/ OnIntegers(a, b)
  BY DEF OnIntegers
<1>6. /\ primitive_add(a, b) \in Values
      /\ primitive_sub(a, b) \in Values
      /\ primitive_mul(a, b) \in Values
  BY <1>2, <1>3, <1>4, <1>5
     DEF primitive_add, primitive_sub, primitive_mul, Promoted, x, y, m, n
<1>7. ASSUME ~(OnIntegers(a, b) /\ n = 0)
      PROVE  primitive_div(a, b) \in Values /\ primitive_mod(a, b) \in Values
  BY <1>2, <1>3, <1>4, <1>5, <1>7
     DEF primitive_div, primitive_mod, Promoted, x, y, m, n
<1> QED
  BY <1>6, <1>7 DEF n

\* A comparison pushes a value.
LEMMA Truths ==
  ASSUME NEW test
  PROVE  Truth(test) \in Values
<1>1. INT_MOD \in Nat /\ INT_MOD > 1
  BY OperandsAssumption
<1> QED
  BY <1>1 DEF Truth, Values

----------------------------------------------------------------------------
(* The stack.                                                               *)

\* Each way to change the stack keeps its types: pushing, ...
LEMMA Pushed ==
  ASSUME TypeOK, NEW v \in Values, Push(v)
  PROVE  TypeOK'
<1>1. MaxStack \in Nat
  BY OperandsAssumption
<1> QED
  BY <1>1 DEF TypeOK, Push

\* What the n values on top are, and that they can be replaced by no more.
LEMMA Operand ==
  ASSUME TypeOK, NEW n \in Nat, Holds(n)
  PROVE  /\ \A i \in 0..(n - 1) : From(i) \in Values
         /\ Without(n) \in Seq(Values) /\ Len(Without(n)) = Len(stack) - n
<1>1. stack \in Seq(Values) /\ Len(stack) >= n /\ Len(stack) \in Nat
  BY DEF TypeOK, Holds
<1>2. ASSUME NEW i \in 0..(n - 1) PROVE From(i) \in Values
  <2>1. Len(stack) - i \in 1..Len(stack)
    BY <1>1
  <2> QED
    BY <1>1, <2>1 DEF From
<1>3. Without(n) \in Seq(Values) /\ Len(Without(n)) = Len(stack) - n
  <2>1. Len(stack) - n \in 0..Len(stack)
    BY <1>1
  <2> QED
    BY <1>1, <2>1 DEF Without
<1> QED
  BY <1>2, <1>3

\* ... pushing in place of operands, ...
LEMMA Replaced ==
  ASSUME TypeOK, NEW n \in Nat, NEW values \in Seq(Values), Len(values) <= n,
         Replace(n, values)
  PROVE  /\ TypeOK'
         /\ Len(values) > 0 => stack'[Len(stack')] = values[Len(values)]
<1>1. /\ Without(n) \in Seq(Values) /\ Len(Without(n)) = Len(stack) - n
      /\ stack' = Without(n) \o values /\ UNCHANGED <<active, running>>
      /\ Len(stack) \in Nat /\ Len(stack) <= MaxStack /\ Len(values) \in Nat
      /\ Len(stack) >= n
  BY Operand DEF Replace, TypeOK, Holds
<1>2. stack' \in Seq(Values) /\ Len(stack') = Len(stack) - n + Len(values)
  <2> DEFINE rest == Without(n)
  <2>1. rest \in Seq(Values) /\ stack' = rest \o values
    BY <1>1
  <2>2. Len(rest) = Len(stack) - n
    BY <1>1
  <2> HIDE DEF rest
  <2>3. stack' \in Seq(Values) /\ Len(stack') = Len(rest) + Len(values)
    BY <2>1
  <2> QED
    BY <2>2, <2>3
<1>3. TypeOK'
  BY <1>1, <1>2, OperandsAssumption DEF TypeOK
<1>4. Len(values) > 0 => stack'[Len(stack')] = values[Len(values)]
  BY <1>1, <1>2
<1> QED
  BY <1>3, <1>4

\* ... dropping, ...
LEMMA Popped ==
  ASSUME TypeOK, NEW n \in Nat, Pop(n)
  PROVE  TypeOK'
<1>1. /\ Without(n) \in Seq(Values) /\ Len(Without(n)) = Len(stack) - n
      /\ stack' = Without(n) /\ UNCHANGED <<active, running>>
  BY Operand DEF Pop
<1> QED
  BY <1>1, OperandsAssumption DEF TypeOK

\* An instruction of two operands that leaves a value.
LEMMA Combined ==
  ASSUME TypeOK, NEW v \in Values, Replace(2, <<v>>)
  PROVE  TypeOK' /\ stack'[Len(stack')] = v
<1> DEFINE values == <<v>>
<1>1. values \in Seq(Values) /\ Len(values) = 1 /\ values[1] = v
  OBVIOUS
<1>2. Replace(2, values)
  OBVIOUS
<1> HIDE DEF values
<1>3. Len(values) > 0 /\ Len(values) <= 2 /\ 2 \in Nat
  BY <1>1
<1>4. TypeOK'
  BY <1>1, <1>2, <1>3, Replaced
<1>5. stack'[Len(stack')] = values[Len(values)]
  BY <1>1, <1>2, <1>3, Replaced
<1> QED
  BY <1>1, <1>4, <1>5

\* ... and leaving the process.
LEMMA Exited ==
  ASSUME TypeOK, Exit
  PROVE  TypeOK'
BY DEF TypeOK, Exit

\* OPT_DIV keeps the types, whichever way it ends.
LEMMA DivTyped ==
  ASSUME TypeOK, DIV
  PROVE  TypeOK'
<1>1. Holds(2) /\ From(1) \in Values /\ From(0) \in Values
  <2>1. Holds(2)
    BY DEF DIV
  <2> QED
    BY <2>1, Operand
<1>2. CASE ~DivisorIsZero(From(1), From(0)) /\ Binary(primitive_div)
  <2>1. primitive_div(From(1), From(0)) \in Values
    BY <1>1, <1>2, Computed DEF DivisorIsZero
  <2> QED
    BY <1>2, <2>1, Combined DEF Binary
<1>3. CASE Exit
  BY <1>3, Exited
<1> QED
  BY <1>2, <1>3 DEF DIV

\* OPT_MOD, too.
LEMMA ModTyped ==
  ASSUME TypeOK, MOD
  PROVE  TypeOK'
<1>1. Holds(2) /\ From(1) \in Values /\ From(0) \in Values
  <2>1. Holds(2)
    BY DEF MOD
  <2> QED
    BY <2>1, Operand
<1>2. CASE active' = FALSE /\ stack' = Without(2) /\ UNCHANGED running
  <2>1. 2 \in Nat
    OBVIOUS
  <2>2. Without(2) \in Seq(Values) /\ Len(Without(2)) = Len(stack) - 2
    BY <1>1, <2>1, Operand
  <2> QED
    <3>1. stack' \in Seq(Values) /\ Len(stack') <= MaxStack
      BY <1>2, <2>2, OperandsAssumption DEF TypeOK
    <3>2. active' \in BOOLEAN /\ running' \in BOOLEAN
      BY <1>2 DEF TypeOK
    <3> QED
      BY <3>1, <3>2 DEF TypeOK
<1>3. CASE ~DivisorIsZero(From(1), From(0)) /\ Binary(primitive_mod)
  <2>1. primitive_mod(From(1), From(0)) \in Values
    BY <1>1, <1>3, Computed DEF DivisorIsZero
  <2> QED
    BY <1>3, <2>1, Combined DEF Binary
<1>4. CASE Exit
  BY <1>4, Exited
<1> QED
  BY <1>2, <1>3, <1>4 DEF MOD

\* DUP, SWAP and ROT keep them.
LEMMA ShuffleTyped ==
  ASSUME TypeOK, DUP \/ SWAP \/ ROT
  PROVE  TypeOK'
<1>1. CASE DUP
  <2>1. Holds(1) /\ Push(From(0))
    BY <1>1 DEF DUP
  <2> QED
    BY <2>1, Operand, Pushed
<1>2. CASE SWAP
  <2>1. From(0) \in Values /\ From(1) \in Values /\ Replace(2, <<From(0), From(1)>>)
    BY <1>2, Operand DEF SWAP, Replace
  <2> DEFINE values == <<From(0), From(1)>>
  <2>2. values \in Seq(Values) /\ Len(values) = 2 /\ Replace(2, values)
    BY <2>1
  <2> HIDE DEF values
  <2>3. Len(values) <= 2 /\ 2 \in Nat
    BY <2>2
  <2> QED
    BY <2>2, <2>3, Replaced
<1>3. CASE ROT
  <2>1. /\ From(0) \in Values /\ From(1) \in Values /\ From(2) \in Values
        /\ Replace(3, <<From(1), From(0), From(2)>>)
    BY <1>3, Operand DEF ROT, Replace
  <2> DEFINE values == <<From(1), From(0), From(2)>>
  <2>2. values \in Seq(Values) /\ Len(values) = 3 /\ Replace(3, values)
    BY <2>1
  <2> HIDE DEF values
  <2> QED
    BY <2>2, Replaced
<1> QED
  BY <1>1, <1>2, <1>3

\* The instructions that bring a new value keep them, IN with its stale bits included.
LEMMA PushTyped ==
  ASSUME TypeOK
  PROVE  /\ \A word \in Words : PUSH(word) \/ CPUSH(word) \/ BPUSH(word) => TypeOK'
         /\ \A x \in Floats : FPUSH(x) => TypeOK'
         /\ \A word \in AddressWords : HALLOC(word) => TypeOK'
         /\ \A type \in TYPE_INT..TYPE_ADDRESS : Input(type) => TypeOK'
<1>1. ASSUME NEW word \in Words, PUSH(word) \/ CPUSH(word) \/ BPUSH(word) PROVE TypeOK'
  <2>1. BYTE_MOD \in Nat \ {0} /\ INT_MOD \in Nat /\ word \in 0..(INT_MOD - 1) /\ BYTE_MOD < INT_MOD
    BY OperandsAssumption
  <2>2. word % BYTE_MOD \in 0..(INT_MOD - 1)
    BY <2>1
  <2>3. /\ [type |-> TYPE_INT, u |-> word] \in Values
        /\ [type |-> TYPE_CHAR, u |-> word] \in Values
        /\ [type |-> TYPE_BYTE, u |-> word % BYTE_MOD] \in Values
    BY <2>1, <2>2 DEF Values
  <2> QED
    BY <1>1, <2>3, Pushed DEF PUSH, CPUSH, BPUSH
<1>2. ASSUME NEW x \in Floats, FPUSH(x) PROVE TypeOK'
  <2>1. x \in FloatNumbers
    BY OperandsAssumption DEF FloatNumbers, INF, NAN
  <2>2. make_float(x) \in Values
    BY <2>1, Makes
  <2> QED
    BY <1>2, <2>2, Pushed DEF FPUSH
<1>3. ASSUME NEW word \in AddressWords, HALLOC(word) PROVE TypeOK'
  <2>1. [type |-> TYPE_ADDRESS, u |-> word] \in Values
    BY OperandsAssumption DEF Values
  <2> QED
    BY <1>3, <2>1, Pushed DEF HALLOC
<1>4. ASSUME NEW type \in TYPE_INT..TYPE_ADDRESS, Input(type) PROVE TypeOK'
  BY <1>4, Pushed DEF Input
<1> QED
  BY <1>1, <1>2, <1>3, <1>4

\* The other arithmetic and the comparisons keep them.
LEMMA ArithmeticTyped ==
  ASSUME TypeOK, ADD \/ SUB \/ MUL \/ Compare
  PROVE  TypeOK'
<1>1. Holds(2)
  BY DEF ADD, SUB, MUL, Compare, Binary, Replace
<1>2. From(1) \in Values /\ From(0) \in Values
  BY <1>1, Operand
<1>3. CASE ADD \/ SUB \/ MUL
  BY <1>2, <1>3, Computed, Combined DEF ADD, SUB, MUL, Binary
<1>4. CASE Compare
  <2>1. \E test : Replace(2, <<Truth(test)>>)
    BY <1>4 DEF Compare, Binary
  <2>2. PICK v \in Values : Replace(2, <<v>>)
    BY <2>1, Truths
  <2> QED
    BY <2>2, Combined
<1> QED
  BY <1>3, <1>4

\* A thread starts with an empty stack.
LEMMA Typed == Init => TypeOK
<1>1. Len(<< >>) = 0 /\ << >> \in Seq(Values) /\ MaxStack \in Nat
  BY OperandsAssumption
<1> QED
  BY <1>1 DEF Init, TypeOK

\* Every instruction keeps the types of the stack.
LEMMA StepTyped == TypeOK /\ [Next]_vars => TypeOK'
<1> SUFFICES ASSUME TypeOK, [Next]_vars PROVE TypeOK'
  OBVIOUS
<1>1. ASSUME NEW word \in Words, PUSH(word) \/ CPUSH(word) \/ BPUSH(word) PROVE TypeOK'
  BY <1>1, PushTyped
<1>2. ASSUME NEW x \in Floats, FPUSH(x) PROVE TypeOK'
  BY <1>2, PushTyped
<1>3. ASSUME NEW word \in AddressWords, HALLOC(word) PROVE TypeOK'
  BY <1>3, PushTyped
<1>4. ASSUME NEW type \in TYPE_INT..TYPE_ADDRESS, Input(type) PROVE TypeOK'
  BY <1>4, PushTyped
<1>5. CASE DUP \/ SWAP \/ ROT
  BY <1>5, ShuffleTyped
<1>6. CASE OUT \/ FOUT
  BY <1>6, Popped DEF OUT, FOUT
<1>7. CASE ADD \/ SUB \/ MUL \/ Compare
  BY <1>7, ArithmeticTyped
<1>8. CASE DIV \/ MOD
  BY <1>8, DivTyped, ModTyped
<1>9. ASSUME NEW taken \in BOOLEAN, JZ(taken) PROVE TypeOK'
  BY <1>9, Popped DEF JZ
<1>10. CASE HALT
  BY <1>10 DEF HALT, TypeOK
<1>11. CASE UNCHANGED vars
  BY <1>11 DEF TypeOK
<1> QED
  BY <1>1, <1>2, <1>3, <1>4, <1>5, <1>6, <1>7, <1>8, <1>9, <1>10, <1>11 DEF Next

\* Every value on the stack is a word or, for a FLOAT, a number of the grid,
\* infinite or not a number: no result leaves the range of its type, whatever is
\* computed from which types.
THEOREM StackTyped == Spec => []TypeOK
<1> QED
  BY Typed, StepTyped, PTL DEF Spec

----------------------------------------------------------------------------
(* What a program can rely on.                                              *)

\* A number is an integer of the grid, and primitive_as_double finds it, of a BYTE not.
LEMMA Plain ==
  ASSUME NEW a \in Values, IsNumber(a)
  PROVE  /\ NumberOf(a) \in Int /\ Finite(NumberOf(a)) /\ NumberOf(a) # NAN
         /\ ~Infinite(NumberOf(a))
         /\ a.type # TYPE_BYTE => primitive_as_double(a) = NumberOf(a)
<1>1. NumberOf(a) \in FloatNumbers /\ Finite(NumberOf(a)) /\ MaxFloat \in Nat
  BY AsDouble, OperandsAssumption DEF IsNumber
<1>2. NumberOf(a) \in (-MaxFloat)..MaxFloat
  BY <1>1 DEF Finite, Abs, FloatNumbers, INF, NAN
<1>3. a.type # TYPE_BYTE => primitive_as_double(a) = NumberOf(a)
  BY AsDouble DEF IsNumber
<1> QED
  BY <1>1, <1>2, <1>3 DEF Infinite, INF, NAN, Abs

\* The comparisons of values that are no BYTEs are the order of their numbers, up
\* to EPSILON, for each pair of types and every word.
THEOREM NumbersOrdered == Spec => []OrdersNumbers
<1>1. TypeOK => OrdersNumbers
  <2> SUFFICES ASSUME TypeOK, NEW i \in DOMAIN stack, NEW j \in DOMAIN stack,
                      IsNumber(stack[i]), IsNumber(stack[j]),
                      TYPE_BYTE \notin {stack[i].type, stack[j].type}
               PROVE  LET a == stack[i]
                          b == stack[j]
                          near == Abs(NumberOf(a) - NumberOf(b)) < Epsilon
                      IN  /\ primitive_equal(a, b) <=> near
                          /\ primitive_not_equal(a, b) <=> ~near
                          /\ primitive_less_than(a, b) <=> NumberOf(a) < NumberOf(b)
                          /\ primitive_greater_than(a, b) <=> NumberOf(a) > NumberOf(b)
                          /\ primitive_less_than_equal(a, b) <=> NumberOf(a) < NumberOf(b) \/ near
                          /\ primitive_greater_than_equal(a, b) <=> NumberOf(a) > NumberOf(b) \/ near
    BY DEF OrdersNumbers
  <2> DEFINE a == stack[i]
             b == stack[j]
             x == NumberOf(a)
             y == NumberOf(b)
  <2>1. a \in Values /\ b \in Values
    BY DEF TypeOK
  <2>2. /\ x \in Int /\ Finite(x) /\ x # NAN /\ primitive_as_double(a) = x
        /\ y \in Int /\ Finite(y) /\ y # NAN /\ primitive_as_double(b) = y
    BY <2>1, Plain
  <2>3. primitive_is_numeric(a) /\ primitive_is_numeric(b)
    BY DEF IsNumber
  <2> HIDE DEF a, b, x, y
  <2>4. /\ Near(x, y) <=> Abs(x - y) < Epsilon
        /\ Below(x, y) <=> x < y
        /\ Below(y, x) <=> x > y
    BY <2>2 DEF Near, Below
  <2>5. /\ primitive_equal(a, b) <=> Near(x, y)
        /\ primitive_less_than(a, b) <=> Below(x, y)
        /\ primitive_greater_than(a, b) <=> Below(y, x)
        /\ primitive_less_than_equal(a, b) <=> Below(x, y) \/ Near(x, y)
        /\ primitive_greater_than_equal(a, b) <=> Below(y, x) \/ Near(x, y)
    BY <2>2, <2>3 DEF primitive_equal, primitive_less_than, primitive_greater_than,
       primitive_less_than_equal, primitive_greater_than_equal, Compared
  <2> QED
    BY <2>4, <2>5 DEF primitive_not_equal, a, b, x, y
<1> QED
  BY <1>1, StackTyped, PTL

\* What make_int and make_float keep of a number.
LEMMA Wraps ==
  ASSUME NEW n \in Int
  PROVE  make_int(n).type = TYPE_INT /\ Stands(make_int(n), Unit * n)
<1> DEFINE w == n % INT_MOD
           m == Signed(w, INT_MOD)
<1>1. INT_MOD \in Nat \ {0} /\ Unit \in Nat \ {0}
  BY OperandsAssumption
<1>2. w \in Int /\ \E k \in Int : w = n + k * INT_MOD
  <2>1. w \in 0..(INT_MOD - 1)
    BY <1>1
  <2>2. \E k \in Int : w = n + k * INT_MOD
    BY <1>1, Wrapped
  <2> QED
    BY <2>1, <2>2
<1>3. m \in Int /\ \E j \in Int : m = w + j * INT_MOD
  BY <1>1, <1>2, SignedWord
<1>4. NumberOf(make_int(n)) = Unit * m
  BY DEF NumberOf, make_int, primitive_as_int
<1> HIDE DEF w, m
<1>5. PICK k \in Int, j \in Int : w = n + k * INT_MOD /\ m = w + j * INT_MOD
  BY <1>2, <1>3
<1>6. PICK i \in Int : n - m = i * INT_MOD
  <2>1. -(k + j) \in Int /\ n - m = (-(k + j)) * INT_MOD
    BY <1>1, <1>2, <1>3, <1>5
  <2> QED
    BY <2>1
<1>7. Unit * n - Unit * m = Unit * (n - m)
  BY <1>1, <1>3
<1>8. Unit * (i * INT_MOD) = i * (Unit * INT_MOD) /\ Unit * INT_MOD \in Nat \ {0}
  BY <1>1
<1>9. (i * (Unit * INT_MOD)) % (Unit * INT_MOD) = 0
  BY <1>8, Multiple
<1>10. (Unit * n - NumberOf(make_int(n))) % (Unit * INT_MOD) = 0
  BY <1>4, <1>6, <1>7, <1>8, <1>9
<1> QED
  BY <1>10 DEF Stands, make_int

\* A converted integer stands for that integer.
LEMMA Converting ==
  ASSUME NEW n \in Int
  PROVE  make_float(n).type = TYPE_FLOAT /\ Stands(make_float(ToFloat(n)), n)
BY DEF make_float, Stands

\* A sum is a FLOAT if one of its operands is, otherwise an INT.
LEMMA SumsTyped ==
  ASSUME NEW a \in Values, NEW b \in Values, IsNumber(a), IsNumber(b)
  PROVE  \A result \in {primitive_add(a, b), primitive_sub(a, b)} :
           /\ \A v \in {a, b} : Rank(result.type) >= Rank(v.type)
           /\ {TYPE_INT, TYPE_FLOAT} \cap {a.type, b.type} # {} =>
                result.type \in {a.type, b.type}
<1>1. /\ primitive_is_numeric(a) /\ primitive_is_numeric(b)
      /\ a.type \in {TYPE_INT, TYPE_CHAR, TYPE_BYTE, TYPE_FLOAT}
      /\ b.type \in {TYPE_INT, TYPE_CHAR, TYPE_BYTE, TYPE_FLOAT}
  BY DEF IsNumber, primitive_is_numeric, Values
<1>2. \A result \in {primitive_add(a, b), primitive_sub(a, b)} :
        result.type = IF TYPE_FLOAT \in {a.type, b.type} THEN TYPE_FLOAT ELSE TYPE_INT
  BY <1>1 DEF primitive_add, primitive_sub, Promoted, make_int, make_float
<1>3. /\ Rank(TYPE_BYTE) = 0 /\ Rank(TYPE_CHAR) = 1
      /\ Rank(TYPE_INT) = 2 /\ Rank(TYPE_FLOAT) = 3
  BY DEF Rank, TYPE_BYTE, TYPE_CHAR, TYPE_INT, TYPE_FLOAT
<1>4. TYPE_INT # TYPE_FLOAT
  BY DEF TYPE_INT, TYPE_FLOAT
<1> QED
  BY <1>1, <1>2, <1>3, <1>4

\* A sum stands for the sum of the numbers of its operands.
LEMMA SumsStand ==
  ASSUME NEW a \in Values, NEW b \in Values, IsNumber(a), IsNumber(b), Converted(a, b)
  PROVE  /\ Stands(primitive_add(a, b), NumberOf(a) + NumberOf(b))
         /\ Stands(primitive_sub(a, b), NumberOf(a) - NumberOf(b))
<1> DEFINE x == NumberOf(a)
           y == NumberOf(b)
<1>1. primitive_is_numeric(a) /\ primitive_is_numeric(b)
  BY DEF IsNumber
<1>2. /\ x \in Int /\ Finite(x) /\ x # NAN /\ ~Infinite(x)
      /\ y \in Int /\ Finite(y) /\ y # NAN /\ ~Infinite(y)
  BY Plain
<1>3. CASE TYPE_FLOAT \in {a.type, b.type}
  <2>1. primitive_as_double(a) = x /\ primitive_as_double(b) = y
    BY <1>3, Plain DEF Converted
  <2>2. /\ primitive_add(a, b) = make_float(FloatAdd(x, y))
        /\ primitive_sub(a, b) = make_float(FloatSub(x, y))
    BY <1>1, <1>3, <2>1 DEF primitive_add, primitive_sub, Promoted
  <2> HIDE DEF x, y
  <2>3. FloatAdd(x, y) = ToFloat(x + y)
    BY <1>2 DEF FloatAdd
  <2>4. FloatSub(x, y) = ToFloat(x - y)
    <3>1. -y # NAN /\ ~Infinite(-y) /\ x + (-y) = x - y
      BY <1>2, OperandsAssumption DEF Finite, Abs, NAN, Infinite, INF
    <3>2. FloatAdd(x, -y) = ToFloat(x - y)
      BY <1>2, <3>1 DEF FloatAdd
    <3> QED
      BY <1>2, <3>2 DEF FloatSub
  <2>5. x + y \in Int /\ x - y \in Int
    BY <1>2
  <2> QED
    BY <1>3, <2>2, <2>3, <2>4, <2>5 DEF x, y, Stands, make_float
<1>4. CASE TYPE_FLOAT \notin {a.type, b.type}
  <2> DEFINE m == primitive_as_int(a)
             n == primitive_as_int(b)
  <2>1. m \in Int /\ n \in Int /\ Unit \in Nat
    BY <1>4, AsInt, OperandsAssumption
  <2>2. x = Unit * m /\ y = Unit * n
    BY <1>4 DEF NumberOf
  <2>3. /\ primitive_add(a, b) = make_int(m + n)
        /\ primitive_sub(a, b) = make_int(m - n)
    BY <1>1, <1>4 DEF primitive_add, primitive_sub, Promoted, IntAdd, IntSub
  <2> HIDE DEF x, y, m, n
  <2>4. Unit * (m + n) = x + y /\ Unit * (m - n) = x - y /\ m + n \in Int /\ m - n \in Int
    BY <2>1, <2>2
  <2>5. Stands(make_int(m + n), Unit * (m + n)) /\ Stands(make_int(m - n), Unit * (m - n))
    BY <2>4, Wraps
  <2>6. Stands(primitive_add(a, b), x + y) /\ Stands(primitive_sub(a, b), x - y)
    BY <2>3, <2>4, <2>5
  <2> QED
    BY <1>4, <2>6 DEF x, y
<1> QED
  BY <1>3, <1>4

\* ADD and SUB work on the numbers their operands stand for: a result is never
\* narrower than they are, and wraps or overflows by its type.
THEOREM NumbersAdded == Spec => AddsNumbers
<1> DEFINE Wide(a, b, result) ==
             \A v \in {a, b} :
               /\ Rank(result.type) >= Rank(v.type)
               /\ v.type \in {TYPE_INT, TYPE_FLOAT} => result.type \in {a.type, b.type}
           Right(a, b, result) ==
             /\ Wide(a, b, result)
             /\ ADD /\ Converted(a, b) => Stands(result, NumberOf(a) + NumberOf(b))
             /\ SUB /\ Converted(a, b) => Stands(result, NumberOf(a) - NumberOf(b))
<1>1. ASSUME TypeOK, (ADD \/ SUB) /\ IsNumber(From(1)) /\ IsNumber(From(0))
      PROVE  Right(From(1), From(0), stack'[Len(stack')])
  <2> DEFINE a == From(1)
             b == From(0)
             result == stack'[Len(stack')]
  <2>1. Holds(2)
    BY <1>1 DEF ADD, SUB, Binary, Replace
  <2>2. a \in Values /\ b \in Values
    BY <1>1, <2>1, Operand
  <2>3. primitive_add(a, b) \in Values /\ primitive_sub(a, b) \in Values
    BY <2>2, Computed
  <2>4. ADD => result = primitive_add(a, b)
    BY <1>1, <2>3, Combined DEF ADD, Binary
  <2>5. SUB => result = primitive_sub(a, b)
    BY <1>1, <2>3, Combined DEF SUB, Binary
  <2> HIDE DEF a, b, result
  <2>6. IsNumber(a) /\ IsNumber(b)
    BY <1>1 DEF a, b
  <2>7. result \in {primitive_add(a, b), primitive_sub(a, b)}
    BY <1>1, <2>4, <2>5
  <2>8. /\ \A v \in {a, b} : Rank(result.type) >= Rank(v.type)
        /\ {TYPE_INT, TYPE_FLOAT} \cap {a.type, b.type} # {} => result.type \in {a.type, b.type}
    BY <2>2, <2>6, <2>7, SumsTyped
  <2>9. Wide(a, b, result)
    BY <2>8
  <2>10. /\ ADD /\ Converted(a, b) => Stands(result, NumberOf(a) + NumberOf(b))
         /\ SUB /\ Converted(a, b) => Stands(result, NumberOf(a) - NumberOf(b))
    BY <2>2, <2>4, <2>5, <2>6, SumsStand
  <2>11. Right(a, b, result)
    BY <2>9, <2>10
  <2> QED
    BY <2>11 DEF a, b, result
<1>2. TypeOK /\ [Next]_vars =>
        [LET a == From(1)
             b == From(0)
             result == stack'[Len(stack')]
         IN  (ADD \/ SUB) /\ IsNumber(a) /\ IsNumber(b) => Right(a, b, result)]_vars
  <2> HIDE DEF Right
  <2> QED
    BY <1>1
<1> QED
  BY <1>2, StackTyped, PTL DEF Spec, AddsNumbers

\* A number that fits into an INT is back when it is read.
LEMMA MadeOf ==
  ASSUME NEW n \in Int, -INT_MOD <= 2 * n, 2 * n < INT_MOD
  PROVE  primitive_as_int(make_int(n)) = n
<1> DEFINE w == n % INT_MOD
<1>1. INT_MOD \in Nat \ {0}
  BY OperandsAssumption
<1>2. w \in Int /\ \E k \in Int : w = n + k * INT_MOD
  <2>1. w \in 0..(INT_MOD - 1)
    BY <1>1
  <2>2. \E k \in Int : w = n + k * INT_MOD
    BY <1>1, Wrapped
  <2> QED
    BY <2>1, <2>2
<1>3. primitive_as_int(make_int(n)) = Signed(w, INT_MOD)
  BY DEF primitive_as_int, make_int
<1> HIDE DEF w
<1>4. PICK k \in Int : w = n + k * INT_MOD
  BY <1>2
<1>5. Signed(w, INT_MOD) = n
  BY <1>1, <1>2, <1>4, SignedFits
<1> QED
  BY <1>3, <1>5

\* A quotient of integers is rounded toward zero, and the remainder has the sign of
\* the dividend.
LEMMA QuotientsFit ==
  ASSUME NEW a \in Values, NEW b \in Values, OnIntegers(a, b), primitive_as_int(b) # 0
  PROVE  LET n == primitive_as_int(a)
             d == primitive_as_int(b)
             rest == primitive_as_int(primitive_mod(a, b))
             left == n - d * primitive_as_int(primitive_div(a, b))
         IN  /\ ~DivisionOverflows(a, b) => Abs(left) < Abs(d) /\ left * n >= 0
             /\ Abs(rest) < Abs(d) /\ rest * n >= 0 /\ (n - rest) % Abs(d) = 0
<1> DEFINE n == primitive_as_int(a)
           d == primitive_as_int(b)
           q == Quotient(n, d)
           r == n - d * q
<1>1. /\ n \in Int /\ -INT_MOD <= 2 * n /\ 2 * n < INT_MOD
      /\ d \in Int /\ d # 0 /\ INT_MOD \in Nat
  BY AsInt, OperandsAssumption DEF OnIntegers
<1>2. primitive_div(a, b) = make_int(q) /\ primitive_mod(a, b) = make_int(r)
  BY DEF OnIntegers, primitive_div, primitive_mod, Promoted, Remainder
<1>3. ~DivisionOverflows(a, b) => d # -1 \/ 2 * n # -INT_MOD
  BY DEF DivisionOverflows
<1> HIDE DEF n, d
<1>4. /\ q \in Int /\ r \in Int
      /\ Abs(r) < Abs(d) /\ r * n >= 0 /\ Abs(r) <= Abs(n)
      /\ n >= 0 => r >= 0
      /\ n <= 0 => r <= 0
      /\ d = 1 => q = n
      /\ d = -1 => q = -n
      /\ d \notin {1, -1} => 2 * q <= Abs(n) /\ -Abs(n) <= 2 * q
      /\ \E j \in Int : n - r = j * Abs(d)
  BY <1>1, RoundsToZero
<1> HIDE DEF q, r
<1>5. primitive_as_int(make_int(r)) = r
  <2>1. -INT_MOD <= 2 * r /\ 2 * r < INT_MOD
    BY <1>1, <1>4 DEF Abs
  <2> QED
    BY <1>4, <2>1, MadeOf
<1>6. (n - r) % Abs(d) = 0
  <2>1. PICK j \in Int : n - r = j * Abs(d)
    BY <1>4
  <2>2. Abs(d) \in Nat \ {0}
    BY <1>1 DEF Abs
  <2>3. (j * Abs(d)) % Abs(d) = 0
    BY <2>2, Multiple
  <2> QED
    BY <2>1, <2>3
<1>7. ASSUME ~DivisionOverflows(a, b) PROVE primitive_as_int(make_int(q)) = q
  <2>1. -INT_MOD <= 2 * q /\ 2 * q < INT_MOD
    <3>1. CASE d = 1
      BY <1>1, <1>4, <3>1
    <3>2. CASE d = -1
      BY <1>1, <1>3, <1>4, <1>7, <3>2
    <3>3. CASE d \notin {1, -1}
      BY <1>1, <1>4, <3>3 DEF Abs
    <3> QED
      BY <3>1, <3>2, <3>3
  <2> QED
    BY <1>4, <2>1, MadeOf
<1>8. ~DivisionOverflows(a, b) => n - d * primitive_as_int(primitive_div(a, b)) = r
  BY <1>2, <1>7 DEF r
<1> QED
  BY <1>2, <1>4, <1>5, <1>6, <1>8 DEF n, d

\* DIV and MOD of integers go on only with a divisor that is not zero, and round
\* towards zero.
THEOREM NumbersDivided == Spec => DividesNumbers
<1>1. ASSUME TypeOK,
             (DIV \/ MOD) /\ OnIntegers(From(1), From(0)) /\ running' /\ active'
      PROVE  LET a == From(1)
                 b == From(0)
                 n == primitive_as_int(a)
                 d == primitive_as_int(b)
                 result == primitive_as_int(stack'[Len(stack')])
                 IsRest(rest) == Abs(rest) < Abs(d) /\ rest * n >= 0
             IN  /\ d # 0
                 /\ DIV /\ ~MOD /\ ~DivisionOverflows(a, b) => IsRest(n - d * result)
                 /\ MOD /\ ~DIV => IsRest(result) /\ (n - result) % Abs(d) = 0
  <2> DEFINE a == From(1)
             b == From(0)
             last == stack'[Len(stack')]
  <2>1. Holds(2)
    BY <1>1 DEF DIV, MOD
  <2>2. a \in Values /\ b \in Values
    BY <1>1, <2>1, Operand
  <2>3. ~Exit
    BY <1>1 DEF Exit
  <2>4. DIV => ~DivisorIsZero(a, b) /\ Binary(primitive_div)
    BY <2>3 DEF DIV
  <2>5. MOD => ~DivisorIsZero(a, b) /\ Binary(primitive_mod)
    BY <1>1, <2>3 DEF MOD
  <2>6. primitive_as_int(b) # 0
    BY <1>1, <2>4, <2>5 DEF DivisorIsZero
  <2>7. primitive_div(a, b) \in Values /\ primitive_mod(a, b) \in Values
    BY <2>2, <2>6, Computed
  <2>8. DIV => last = primitive_div(a, b)
    BY <1>1, <2>4, <2>7, Combined DEF Binary
  <2>9. MOD => last = primitive_mod(a, b)
    BY <1>1, <2>5, <2>7, Combined DEF Binary
  <2>10. OnIntegers(a, b)
    BY <1>1
  <2> HIDE DEF a, b, last
  <2>11. LET n == primitive_as_int(a)
             d == primitive_as_int(b)
             rest == primitive_as_int(primitive_mod(a, b))
             left == n - d * primitive_as_int(primitive_div(a, b))
         IN  /\ ~DivisionOverflows(a, b) => Abs(left) < Abs(d) /\ left * n >= 0
             /\ Abs(rest) < Abs(d) /\ rest * n >= 0 /\ (n - rest) % Abs(d) = 0
    BY <2>2, <2>6, <2>10, QuotientsFit
  <2> QED
    BY <2>6, <2>8, <2>9, <2>11 DEF a, b, last
<1>2. TypeOK /\ [Next]_vars =>
        [LET a == From(1)
             b == From(0)
             n == primitive_as_int(a)
             d == primitive_as_int(b)
             result == primitive_as_int(stack'[Len(stack')])
             IsRest(rest) == Abs(rest) < Abs(d) /\ rest * n >= 0
         IN  (DIV \/ MOD) /\ OnIntegers(a, b) /\ running' /\ active' =>
               /\ d # 0
               /\ DIV /\ ~MOD /\ ~DivisionOverflows(a, b) => IsRest(n - d * result)
               /\ MOD /\ ~DIV => IsRest(result) /\ (n - result) % Abs(d) = 0]_vars
  BY <1>1
<1> QED
  BY <1>2, StackTyped, PTL DEF Spec, DividesNumbers

=============================================================================
