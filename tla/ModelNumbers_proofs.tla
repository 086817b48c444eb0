------------------------- MODULE ModelNumbers_proofs -------------------------
(***************************************************************************)
(* What the proofs need of the model's numbers, for every prime that is 3  *)
(* modulo 4: they are a field, and one to which a square root of -1 can be *)
(* adjoined, so that complex numbers can be divided too.                   *)
(***************************************************************************)
EXTENDS ModelNumbers, WellFoundedInduction, TLAPS

------------------------------------------------------------------------------
(* Arithmetic modulo P *)

LEMMA PType == P \in Nat /\ P \in Int /\ P > 2 /\ P > 0 /\ P % 4 = 3
BY PAssumption DEF PAssumption

\* Division with remainder.
LEMMA Divide ==
    ASSUME NEW a \in Int, NEW n \in Nat, n > 0
    PROVE  \E q \in Int : a = n * q + (a % n) /\ a % n \in 0 .. n - 1
<1>1. a \div n \in Int /\ a = n * (a \div n) + (a % n) /\ a % n \in 0 .. n - 1
  BY SMT
<1>. QED  BY <1>1

\* The remainder is the only one.
LEMMA RemainderIs ==
    ASSUME NEW n \in Nat, n > 0, NEW r \in 0 .. n - 1, NEW a \in Int,
           \E q \in Int : a = n * q + r
    PROVE  a % n = r
<1>0. PICK q \in Int : a = n * q + r
  OBVIOUS
<1>1. PICK p \in Int : a = n * p + (a % n) /\ a % n \in 0 .. n - 1
  BY Divide
<1> DEFINE s == a % n
           d == q - p
<1>2. d \in Int /\ s \in 0 .. n - 1 /\ a = n * p + s
  BY <1>1
<1> HIDE DEF s
<1>3. n * d = s - r
  BY <1>0, <1>2
<1> HIDE DEF d
<1>4. ~(d >= 1)
  <2>1. ASSUME d >= 1
        PROVE  n * d >= n
    BY <1>2, <2>1
  <2>. QED  BY <1>2, <1>3, <2>1
<1>5. ~(d <= -1)
  <2>1. ASSUME d <= -1
        PROVE  n * d <= -n
    BY <1>2, <2>1
  <2>. QED  BY <1>2, <1>3, <2>1
<1>6. d = 0
  BY <1>2, <1>4, <1>5
<1>7. s = r
  BY <1>2, <1>3, <1>6
<1>. QED  BY <1>7 DEF s

\* Numbers that differ by a multiple of n have the same remainder.
LEMMA SameRemainder ==
    ASSUME NEW a \in Int, NEW b \in Int, NEW n \in Nat, n > 0,
           \E k \in Int : a = b + n * k
    PROVE  a % n = b % n
<1>1. PICK k \in Int : a = b + n * k
  OBVIOUS
<1>2. PICK q \in Int : b = n * q + (b % n) /\ b % n \in 0 .. n - 1
  BY Divide, Zenon
<1> DEFINE r == b % n
<1>3. r \in 0 .. n - 1 /\ r \in Int /\ b = n * q + r
  BY <1>2
<1> HIDE DEF r
<1>4. q + k \in Int /\ a = n * (q + k) + r
  BY <1>1, <1>3, SMT
<1>5. \E s \in Int : a = n * s + r
  BY <1>4, Zenon
<1>6. a % n = r
  BY <1>3, <1>5, RemainderIs, Zenon
<1>. QED  BY <1>6 DEF r

Congruent(a, b) == \E k \in Int : a = b + P * k

LEMMA Congruence ==
    ASSUME NEW a \in Int, NEW b \in Int, Congruent(a, b)
    PROVE  a % P = b % P
BY SameRemainder, PType, Zenon DEF Congruent

LEMMA ModType ==
    ASSUME NEW a \in Int
    PROVE  a % P \in Numbers /\ a % P \in Int /\ Congruent(a, a % P)
<1>1. PICK q \in Int : a = P * q + (a % P) /\ a % P \in 0 .. P - 1
  BY PType, Divide, Zenon
<1> DEFINE r == a % P
<1>2. r \in 0 .. P - 1 /\ r \in Int /\ a = P * q + r
  BY <1>1
<1> HIDE DEF r
<1>3. a = r + P * q
  BY <1>2, PType
<1>4. Congruent(a, r)
  BY <1>3 DEF Congruent
<1>. QED  BY <1>2, <1>4 DEF Numbers, r

\* A number is its own remainder.
LEMMA ModId ==
    ASSUME NEW a \in Numbers
    PROVE  a % P = a /\ a \in Int /\ a \in Nat
<1>1. a \in 0 .. P - 1 /\ a \in Int /\ a \in Nat /\ a = P * 0 + a
  BY PType DEF Numbers
<1>2. \E q \in Int : a = P * q + a
  BY <1>1
<1>3. a % P = a
  BY <1>1, <1>2, PType, RemainderIs, Zenon
<1>. QED  BY <1>1, <1>3

\* Remainders of factors make no difference to the remainder of a sum.
Negligible(a, b, c, d) ==
    /\ (a * (b % P) + c * (d % P)) % P = (a * b + c * d) % P
    /\ (a * (b % P) - c * (d % P)) % P = (a * b - c * d) % P

LEMMA ModSum ==
    ASSUME NEW a \in Int, NEW b \in Int, NEW c \in Int, NEW d \in Int
    PROVE  Negligible(a, b, c, d)
<1> DEFINE m == b % P
           n == d % P
<1>1. m \in Int /\ Congruent(b, m) /\ n \in Int /\ Congruent(d, n)
  BY ModType
<1> HIDE DEF m, n
<1>2. PICK q \in Int : b = m + P * q
  BY <1>1 DEF Congruent
<1>3. PICK s \in Int : d = n + P * s
  BY <1>1 DEF Congruent
<1> DEFINE u == a * b + c * d
           v == a * m + c * n
           w == a * q + c * s
           x == a * b - c * d
           y == a * m - c * n
           z == a * q - c * s
<1>4. u \in Int /\ v \in Int /\ w \in Int /\ x \in Int /\ y \in Int /\ z \in Int
  BY <1>1
<1>5. u = v + P * w /\ x = y + P * z
  BY <1>1, <1>2, <1>3, PType, SMT
<1> HIDE DEF u, v, w, x, y, z
<1>6. u % P = v % P /\ x % P = y % P
  BY <1>4, <1>5, Congruence, Zenon DEF Congruent
<1>. QED  BY <1>6 DEF m, n, u, v, x, y, Negligible

LEMMA ModPlus ==
    ASSUME NEW a \in Int, NEW b \in Int
    PROVE  /\ ((a % P) + b) % P = (a + b) % P
           /\ (a + (b % P)) % P = (a + b) % P
           /\ (-(a % P)) % P = (-a) % P
<1> DEFINE m == a % P
           n == b % P
<1>1. m \in Int /\ Congruent(a, m) /\ n \in Int /\ Congruent(b, n)
  BY ModType
<1> HIDE DEF m, n
<1>2. PICK q \in Int : a = m + P * q
  BY <1>1 DEF Congruent
<1>3. PICK s \in Int : b = n + P * s
  BY <1>1 DEF Congruent
<1>4. /\ a + b \in Int /\ m + b \in Int /\ a + n \in Int /\ -a \in Int /\ -m \in Int
      /\ -q \in Int
  BY <1>1
<1>5. a + b = (m + b) + P * q /\ a + b = (a + n) + P * s /\ -a = -m + P * (-q)
  BY <1>1, <1>2, <1>3, PType, SMT
<1>6. Congruent(a + b, m + b) /\ Congruent(a + b, a + n) /\ Congruent(-a, -m)
  BY <1>4, <1>5 DEF Congruent
<1>7. (a + b) % P = (m + b) % P /\ (a + b) % P = (a + n) % P /\ (-a) % P = (-m) % P
  BY <1>4, <1>6, Congruence, Zenon
<1>. QED  BY <1>7 DEF m, n

LEMMA ModTimes ==
    ASSUME NEW a \in Int, NEW b \in Int
    PROVE  /\ ((a % P) * b) % P = (a * b) % P
           /\ (a * (b % P)) % P = (a * b) % P
<1> DEFINE m == a % P
           n == b % P
<1>1. m \in Int /\ Congruent(a, m) /\ n \in Int /\ Congruent(b, n)
  BY ModType
<1> HIDE DEF m, n
<1>2. PICK q \in Int : a = m + P * q
  BY <1>1 DEF Congruent
<1>3. PICK s \in Int : b = n + P * s
  BY <1>1 DEF Congruent
<1>4. /\ a * b \in Int /\ m * b \in Int /\ a * n \in Int /\ q * b \in Int /\ a * s \in Int
  BY <1>1
<1>5. a * b = m * b + P * (q * b) /\ a * b = a * n + P * (a * s)
  BY <1>1, <1>2, <1>3, PType, SMT
<1>6. Congruent(a * b, m * b) /\ Congruent(a * b, a * n)
  BY <1>4, <1>5, Zenon DEF Congruent
<1>7. (a * b) % P = (m * b) % P /\ (a * b) % P = (a * n) % P
  BY <1>4, <1>6, Congruence, Zenon
<1>. QED  BY <1>7 DEF m, n

------------------------------------------------------------------------------
(* Reciprocals *)

\* A set of natural numbers has a least one.
LEMMA Least ==
    ASSUME NEW S, S \subseteq Nat, S # {}
    PROVE  \E m \in S : \A n \in S : ~(n < m)
<1>1. PICK m \in S : \A n \in S : <<n, m>> \notin OpToRel(<, Nat)
  BY WFMin, NatLessThanWellFounded, Zenon
<1>2. \A n \in S : ~(n < m)
  BY <1>1, Zenon DEF OpToRel
<1>. QED  BY <1>2

\* Modulo a prime every number but zero has a reciprocal: the least number its
\* multiples leave divides the prime.
Left(x) == {n \in 1 .. P - 1 : \E y \in Numbers : (x * y) % P = n}

LEMMA LeftHasSmaller ==
    ASSUME NEW x \in Numbers, NEW n \in Left(x), n # 1
    PROVE  \E m \in Left(x) : m < n
<1>1. PICK y \in Numbers : (x * y) % P = n
  BY DEF Left
<1>2. n \in Nat /\ n \in Int /\ n > 0 /\ n \in 2 .. P - 1 /\ x \in Int /\ y \in Int
  BY PType, ModId DEF Left
<1>3. P % n # 0
  BY <1>2, PAssumption DEF PAssumption
<1>4. PICK q \in Int : P = n * q + (P % n) /\ P % n \in 0 .. n - 1
  BY <1>2, PType, Divide, Zenon
<1> DEFINE r == P % n
           z == (-(q * y)) % P
<1>5. r \in 1 .. n - 1 /\ r \in Int /\ P = n * q + r
  BY <1>2, <1>3, <1>4
<1> HIDE DEF r
<1>6. PICK k \in Int : x * y = n + P * k
  BY <1>1, <1>2, ModType DEF Congruent
<1>7. z \in Numbers /\ (x * z) % P = (x * (-(q * y))) % P
  <2>1. -(q * y) \in Int
    BY <1>2
  <2>. QED  BY <1>2, <2>1, ModType, ModTimes, Zenon
<1> HIDE DEF z
<1>8. x * (-(q * y)) = r + P * (-(q * k) - 1)
  <2>1. x * (-(q * y)) = -(q * (x * y))
    BY <1>2, SMT
  <2>2. q * (x * y) = n * q + P * (q * k)
    BY <1>2, <1>6, PType, SMT
  <2>3. P * (-(q * k) - 1) = -(P * (q * k)) - P
    BY PType, SMT
  <2>. QED  BY <1>2, <1>5, <2>1, <2>2, <2>3, PType
<1>9. (x * (-(q * y))) % P = r
  <2>1. r \in 0 .. P - 1 /\ -(q * k) - 1 \in Int /\ x * (-(q * y)) \in Int
    BY <1>2, <1>5
  <2>2. x * (-(q * y)) = P * (-(q * k) - 1) + r
    BY <1>5, <1>8, PType
  <2>3. \E s \in Int : x * (-(q * y)) = P * s + r
    BY <2>1, <2>2, Zenon
  <2>. QED  BY <2>1, <2>3, PType, RemainderIs, Zenon
<1>10. r \in Left(x) /\ r < n
  BY <1>2, <1>5, <1>7, <1>9, PType DEF Left
<1>. QED  BY <1>10

LEMMA HasReciprocal ==
    ASSUME NEW x \in Numbers \ {0}
    PROVE  /\ Reciprocal[x] \in Numbers
           /\ (x * Reciprocal[x]) % P = 1
<1>1. x \in Left(x)
  <2>1. x \in 1 .. P - 1 /\ 1 \in Numbers /\ x * 1 = x
    BY PType DEF Numbers
  <2>2. (x * 1) % P = x
    BY <2>1, ModId
  <2>. QED  BY <2>1, <2>2 DEF Left
<1>2. PICK n \in Left(x) : \A m \in Left(x) : ~(m < n)
  <2>1. Left(x) \subseteq Nat
    BY DEF Left
  <2>. QED  BY <1>1, <2>1, Least
<1>3. n = 1
  BY <1>2, LeftHasSmaller
<1>4. \E y \in Numbers : (x * y) % P = 1
  BY <1>3 DEF Left
<1>5. Reciprocal[x] = CHOOSE y \in Numbers : (x * y) % P = 1
  BY DEF Reciprocal
<1>. QED  BY <1>4, <1>5

------------------------------------------------------------------------------
(* -1 is not a square *)

RootOfMinusOne(n) == \E x \in Int, m \in Int : x * x + 1 = n * m
Rooted == {n \in Nat : n % 4 = 3 /\ RootOfMinusOne(n)}

LEMMA ThreeModFour ==
    ASSUME NEW n \in Nat, n % 4 = 3
    PROVE  \E j \in Nat : n = 4 * j + 3
BY SMT

\* Modulo an odd number either a root or its negative is even.
LEMMA EvenRoot ==
    ASSUME NEW n \in Nat, NEW j \in Nat, n = 4 * j + 3, RootOfMinusOne(n)
    PROVE  \E y \in 0 .. n - 1, k \in Int, m \in Int : y = 2 * k /\ y * y + 1 = n * m
<1>1. PICK x \in Int, l \in Int : x * x + 1 = n * l
  BY DEF RootOfMinusOne
<1>2. PICK q \in Int : x = n * q + (x % n) /\ x % n \in 0 .. n - 1
  <2>1. n > 0
    OBVIOUS
  <2>. QED  BY <2>1, Divide, Zenon
<1> DEFINE r == x % n
           s == l - 2 * (q * r) - n * (q * q)
<1>3. r \in 0 .. n - 1 /\ r \in Int /\ x = n * q + r
  BY <1>2
<1> HIDE DEF r
<1>4. s \in Int /\ r * r + 1 = n * s
  <2>1. x * x = n * (n * (q * q)) + 2 * (n * (q * r)) + r * r
    BY <1>3, SMT
  <2>2. n * s = n * l - 2 * (n * (q * r)) - n * (n * (q * q))
    BY <1>3, SMT
  <2>3. s \in Int
    BY <1>3
  <2>. QED  BY <1>1, <1>3, <2>1, <2>2, <2>3
<1> HIDE DEF s
<1>5. PICK h \in Int : r = 2 * h \/ r = 2 * h + 1
  <2>1. \E h \in Int : r = 2 * h + (r % 2) /\ r % 2 \in 0 .. 2 - 1
    BY <1>3, Divide
  <2>. QED  BY <1>3, <2>1
<1>6. CASE r = 2 * h
  BY <1>3, <1>4, <1>6, Zenon
<1>7. CASE r = 2 * h + 1
  <2> DEFINE y == n - r
             k == 2 * j + 1 - h
             m == n - 2 * r + s
  <2>1. y \in 0 .. n - 1 /\ k \in Int /\ m \in Int /\ y = 2 * k
    BY <1>3, <1>4, <1>7
  <2>2. y * y + 1 = n * m
    <3>1. y * y = n * n - 2 * (n * r) + r * r
      BY <1>3, SMT
    <3>2. n * m = n * n - 2 * (n * r) + n * s
      BY <1>3, <1>4, SMT
    <3>. QED  BY <1>3, <1>4, <3>1, <3>2, SMT
  <2>. QED  BY <2>1, <2>2, Zenon
<1>. QED  BY <1>5, <1>6, <1>7

LEMMA CofactorIsSmaller ==
    ASSUME NEW n \in Nat, n > 2, NEW y \in 0 .. n - 1, NEW m \in Int, y * y + 1 = n * m
    PROVE  m \in Nat /\ m < n
<1>1. y * y >= 0 /\ y * y <= (n - 1) * (n - 1)
  <2>1. \A a, b, c \in Nat : a <= b => c * a <= c * b
    BY SMT
  <2>2. y \in Nat /\ n - 1 \in Nat /\ y <= n - 1
    OBVIOUS
  <2>3. y * y <= y * (n - 1) /\ (n - 1) * y <= (n - 1) * (n - 1)
    BY <2>1, <2>2
  <2>. QED  BY <2>2, <2>3
<1>2. (n - 1) * (n - 1) + 1 < n * n
  BY SMT
<1>3. n * m > 0 /\ n * m < n * n
  BY <1>1, <1>2
<1>. QED  BY <1>3, SMT

LEMMA CofactorIsThree ==
    ASSUME NEW j \in Nat, NEW k \in Int, NEW m \in Nat,
           (2 * k) * (2 * k) + 1 = (4 * j + 3) * m
    PROVE  m % 4 = 3
<1>1. PICK i \in Int : m = 4 * i + (m % 4) /\ m % 4 \in 0 .. 3
  BY Divide
<1> DEFINE r == m % 4
           t == k * k - 4 * (j * i) - j * r - 3 * i
<1>2. r \in 0 .. 3 /\ r \in Int /\ m = 4 * i + r
  BY <1>1
<1> HIDE DEF r
<1>3. 4 * t + 1 = 3 * r /\ t \in Int
  <2>1. (4 * j + 3) * m = 16 * (j * i) + 4 * (j * r) + 12 * i + 3 * r
    BY <1>2, SMT
  <2>2. (2 * k) * (2 * k) = 4 * (k * k)
    BY SMT
  <2>3. t \in Int
    BY <1>2
  <2>. QED  BY <1>2, <2>1, <2>2, <2>3
<1> HIDE DEF t
<1>4. r = 3
  BY <1>2, <1>3, SMT
<1>. QED  BY <1>4 DEF r

\* A number that is 3 modulo 4 and has a root of -1 has a smaller cofactor that
\* is, too.
LEMMA MinusOneHasNoRoot ==
    ASSUME NEW n \in Nat, n % 4 = 3
    PROVE  ~RootOfMinusOne(n)
<1>1. ASSUME NEW l \in Rooted
      PROVE  \E m \in Rooted : m < l
  <2>1. l \in Nat /\ l % 4 = 3 /\ RootOfMinusOne(l)
    BY <1>1 DEF Rooted
  <2>2. PICK j \in Nat : l = 4 * j + 3
    BY <2>1, ThreeModFour
  <2>3. PICK y \in 0 .. l - 1, k \in Int, m \in Int : y = 2 * k /\ y * y + 1 = l * m
    BY <2>1, <2>2, EvenRoot
  <2>4. l > 2
    BY <2>2
  <2>5. m \in Nat /\ m < l
    BY <2>1, <2>3, <2>4, CofactorIsSmaller
  <2>6. m % 4 = 3
    <3>1. (2 * k) * (2 * k) + 1 = (4 * j + 3) * m
      BY <2>2, <2>3
    <3>. QED  BY <2>5, <3>1, CofactorIsThree
  <2>7. y \in Int /\ l \in Int /\ m * l = l * m
    BY <2>1, <2>3, SMT
  <2>8. y \in Int /\ l \in Int /\ y * y + 1 = m * l
    BY <2>3, <2>7
  <2>9. RootOfMinusOne(m)
    BY <2>8 DEF RootOfMinusOne
  <2>. QED  BY <2>5, <2>6, <2>9 DEF Rooted
<1>2. Rooted \subseteq Nat
  BY DEF Rooted
<1>3. Rooted = {}
  BY <1>1, <1>2, Least
<1>. QED  BY <1>3 DEF Rooted

\* One plus a square is not zero.
LEMMA NotZero ==
    ASSUME NEW x \in Int
    PROVE  (1 + x * x) % P \in Numbers \ {0}
<1>1. 1 + x * x \in Int /\ 1 + x * x = x * x + 1
  OBVIOUS
<1>2. (1 + x * x) % P \in Numbers /\ Congruent(1 + x * x, (1 + x * x) % P)
  BY <1>1, ModType
<1>3. ASSUME (1 + x * x) % P = 0
      PROVE  FALSE
  <2>1. PICK m \in Int : 1 + x * x = 0 + P * m
    BY <1>2, <1>3 DEF Congruent
  <2>2. x * x + 1 = P * m
    BY <1>1, <2>1, PType
  <2>3. RootOfMinusOne(P)
    BY <2>2 DEF RootOfMinusOne
  <2>. QED  BY <2>3, PType, MinusOneHasNoRoot
<1>. QED  BY <1>2, <1>3

------------------------------------------------------------------------------
(***************************************************************************)
(* The complex numbers are a ring.  Their operators take remainders of     *)
(* integer operators; a remainder of an argument can be left out.          *)
(***************************************************************************)
IntPairs == Int \X Int
Mod(z) == <<z[1] % P, z[2] % P>>
ProductOf(y, z) == <<y[1] * z[1] - y[2] * z[2], y[1] * z[2] + y[2] * z[1]>>
SumOf(y, z) == <<y[1] + z[1], y[2] + z[2]>>
ConjOf(z) == <<z[1], -z[2]>>

(* The sum of the modules that use these numbers. *)
SumMod(y, z) == <<(y[1] + z[1]) % P, (y[2] + z[2]) % P>>

ComplexZero == <<0, 0>>
Unit == <<1, 0>>
Opposite(z) == Times(<<P - 1, 0>>, z)

LEMMA PairType ==
    /\ \A z \in Complex : /\ z \in IntPairs /\ Mod(z) = z
                          /\ z[1] \in Int /\ z[2] \in Int /\ z[1] \in Numbers /\ z[2] \in Numbers
    /\ \A z \in IntPairs : Mod(z) \in Complex /\ z[1] \in Int /\ z[2] \in Int
    /\ ComplexZero \in Complex /\ Unit \in Complex /\ <<P - 1, 0>> \in Complex
<1>1. ASSUME NEW z \in Complex
      PROVE  /\ z[1] \in Int /\ z[2] \in Int /\ z[1] \in Numbers /\ z[2] \in Numbers
             /\ z \in IntPairs /\ Mod(z) = z
  <2>1. z[1] \in Numbers /\ z[2] \in Numbers /\ z = <<z[1], z[2]>>
    BY DEF Complex
  <2>2. z[1] % P = z[1] /\ z[2] % P = z[2] /\ z[1] \in Int /\ z[2] \in Int
    BY <2>1, ModId, Zenon
  <2>. QED  BY <2>1, <2>2 DEF IntPairs, Mod
<1>2. ASSUME NEW z \in IntPairs
      PROVE  Mod(z) \in Complex /\ z[1] \in Int /\ z[2] \in Int
  <2>1. z[1] \in Int /\ z[2] \in Int
    BY DEF IntPairs
  <2>2. z[1] % P \in Numbers /\ z[2] % P \in Numbers
    BY <2>1, ModType, Zenon
  <2>. QED  BY <2>1, <2>2 DEF Complex, Mod
<1>3. ComplexZero \in Complex /\ Unit \in Complex /\ <<P - 1, 0>> \in Complex
  BY PType DEF ComplexZero, Unit, Complex, Numbers
<1>. QED  BY <1>1, <1>2, <1>3

LEMMA ProductPair ==
    ASSUME NEW y \in IntPairs, NEW z \in IntPairs
    PROVE  /\ ProductOf(y, z) \in IntPairs /\ SumOf(y, z) \in IntPairs /\ ConjOf(z) \in IntPairs
           /\ Times(y, z) = Mod(ProductOf(y, z))
           /\ SumMod(y, z) = Mod(SumOf(y, z))
<1>1. y[1] \in Int /\ y[2] \in Int /\ z[1] \in Int /\ z[2] \in Int
  BY PairType
<1>2. ProductOf(y, z) \in IntPairs /\ SumOf(y, z) \in IntPairs /\ ConjOf(z) \in IntPairs
  BY <1>1 DEF ProductOf, SumOf, ConjOf, IntPairs
<1>3. Times(y, z) = Mod(ProductOf(y, z)) /\ SumMod(y, z) = Mod(SumOf(y, z))
  BY Zenon DEF Times, SumMod, Mod, ProductOf, SumOf
<1>. QED  BY <1>2, <1>3

\* Remainders of the arguments make no difference.
LEMMA TimesMod ==
    ASSUME NEW y \in IntPairs, NEW z \in IntPairs
    PROVE  Times(y, Mod(z)) = Times(y, z) /\ Times(Mod(y), z) = Times(y, z)
<1>1. y[1] \in Int /\ y[2] \in Int /\ z[1] \in Int /\ z[2] \in Int
  BY PairType
<1>2. \A w \in IntPairs : /\ w[1] \in Int /\ w[2] \in Int
                          /\ Mod(w)[1] = w[1] % P /\ Mod(w)[2] = w[2] % P
                          /\ w[1] % P \in Int /\ w[2] % P \in Int
  BY PairType, ModType DEF Mod
<1>3. Times(y, Mod(z)) = Times(y, z)
  <2>1. Negligible(y[1], z[1], y[2], z[2])
    BY <1>1, ModSum
  <2>2. Negligible(y[1], z[2], y[2], z[1])
    BY <1>1, ModSum
  <2>. QED  BY <1>2, <2>1, <2>2, Zenon DEF Times, Negligible
<1>4. Times(Mod(y), z) = Times(y, z)
  <2>1. Negligible(z[1], y[1], z[2], y[2])
    BY <1>1, ModSum
  <2>4. Negligible(z[2], y[1], z[1], y[2])
    BY <1>1, ModSum
  <2>2. \A a, b \in Int : a * b = b * a
    BY SMT
  <2>3. /\ z[1] * (y[1] % P) = (y[1] % P) * z[1] /\ z[2] * (y[2] % P) = (y[2] % P) * z[2]
        /\ z[2] * (y[1] % P) = (y[1] % P) * z[2] /\ z[1] * (y[2] % P) = (y[2] % P) * z[1]
        /\ z[1] * y[1] = y[1] * z[1] /\ z[2] * y[2] = y[2] * z[2]
        /\ z[2] * y[1] = y[1] * z[2] /\ z[1] * y[2] = y[2] * z[1]
    BY <1>1, <1>2, <2>2, Zenon
  <2>. QED  BY <1>2, <2>1, <2>3, <2>4, Zenon DEF Times, Negligible
<1>. QED  BY <1>3, <1>4

LEMMA SumModulo ==
    ASSUME NEW y \in IntPairs, NEW z \in IntPairs
    PROVE  SumMod(y, Mod(z)) = SumMod(y, z) /\ SumMod(Mod(y), z) = SumMod(y, z)
<1>1. y[1] \in Int /\ y[2] \in Int /\ z[1] \in Int /\ z[2] \in Int
  BY PairType
<1>2. /\ Mod(z)[1] = z[1] % P /\ Mod(z)[2] = z[2] % P
      /\ Mod(y)[1] = y[1] % P /\ Mod(y)[2] = y[2] % P
  BY DEF Mod
<1>3. /\ (y[1] + (z[1] % P)) % P = (y[1] + z[1]) % P
      /\ (y[2] + (z[2] % P)) % P = (y[2] + z[2]) % P
      /\ ((y[1] % P) + z[1]) % P = (y[1] + z[1]) % P
      /\ ((y[2] % P) + z[2]) % P = (y[2] + z[2]) % P
  BY <1>1, ModPlus, Zenon
<1>. QED  BY <1>2, <1>3, Zenon DEF SumMod

LEMMA ConjMod ==
    ASSUME NEW z \in IntPairs
    PROVE  Conj(Mod(z)) = Mod(ConjOf(z)) 
<1>1. z[1] \in Int /\ z[2] \in Int
  BY PairType
<1>2. Mod(z)[1] = z[1] % P /\ Mod(z)[2] = z[2] % P
  BY DEF Mod
<1>3. (-(z[2] % P)) % P = (-z[2]) % P
  BY <1>1, ModPlus, Zenon
<1>. QED  BY <1>2, <1>3, Zenon DEF Conj, ConjOf, Mod

LEMMA RingType ==
    ASSUME NEW y \in Complex, NEW z \in Complex
    PROVE  /\ Times(y, z) \in Complex /\ SumMod(y, z) \in Complex
           /\ Conj(z) \in Complex /\ Opposite(z) \in Complex
<1>1. y \in IntPairs /\ z \in IntPairs /\ <<P - 1, 0>> \in IntPairs /\ Mod(z) = z
  BY PairType
<1>2. Times(y, z) \in Complex /\ SumMod(y, z) \in Complex /\ Opposite(z) \in Complex
  BY <1>1, ProductPair, PairType DEF Opposite
<1>3. Conj(z) \in Complex
  <2>1. Conj(Mod(z)) = Mod(ConjOf(z)) /\ ConjOf(z) \in IntPairs
    BY <1>1, ConjMod, ProductPair
  <2>. QED  BY <1>1, <2>1, PairType
<1>. QED  BY <1>2, <1>3

LEMMA IntegerPairs ==
    ASSUME NEW x \in IntPairs, NEW y \in IntPairs, NEW z \in IntPairs
    PROVE  /\ ProductOf(x, ProductOf(y, z)) = ProductOf(ProductOf(x, y), z)
           /\ ProductOf(x, SumOf(y, z)) = SumOf(ProductOf(x, y), ProductOf(x, z))
           /\ ProductOf(x, y) = ProductOf(y, x)
           /\ SumOf(x, SumOf(y, z)) = SumOf(SumOf(x, y), z)
           /\ SumOf(x, y) = SumOf(y, x)
           /\ ConjOf(ProductOf(x, y)) = ProductOf(ConjOf(x), ConjOf(y))
           /\ ConjOf(SumOf(x, y)) = SumOf(ConjOf(x), ConjOf(y))
           /\ ConjOf(ConjOf(x)) = x
<1> DEFINE a == x[1]
           b == x[2]
           c == y[1]
           d == y[2]
           e == z[1]
           f == z[2]
<1>1. /\ a \in Int /\ b \in Int /\ c \in Int /\ d \in Int /\ e \in Int /\ f \in Int
      /\ x = <<a, b>> /\ y = <<c, d>> /\ z = <<e, f>>
  BY DEF IntPairs
<1> HIDE DEF a, b, c, d, e, f
<1>2. /\ a * (c * e - d * f) - b * (c * f + d * e) = (a * c - b * d) * e - (a * d + b * c) * f
      /\ a * (c * f + d * e) + b * (c * e - d * f) = (a * c - b * d) * f + (a * d + b * c) * e
  BY <1>1, SMT
<1>3. ProductOf(x, ProductOf(y, z)) = ProductOf(ProductOf(x, y), z)
  BY <1>1, <1>2, Zenon DEF ProductOf
<1>4. /\ a * (c + e) - b * (d + f) = (a * c - b * d) + (a * e - b * f)
      /\ a * (d + f) + b * (c + e) = (a * d + b * c) + (a * f + b * e)
  BY <1>1, SMT
<1>5. ProductOf(x, SumOf(y, z)) = SumOf(ProductOf(x, y), ProductOf(x, z))
  BY <1>1, <1>4, Zenon DEF ProductOf, SumOf
<1>6. a * c - b * d = c * a - d * b /\ a * d + b * c = c * b + d * a
  BY <1>1, SMT
<1>7. ProductOf(x, y) = ProductOf(y, x)
  BY <1>1, <1>6, Zenon DEF ProductOf
<1>8. a + (c + e) = (a + c) + e /\ b + (d + f) = (b + d) + f /\ a + c = c + a /\ b + d = d + b
  BY <1>1, SMT
<1>9. SumOf(x, SumOf(y, z)) = SumOf(SumOf(x, y), z) /\ SumOf(x, y) = SumOf(y, x)
  BY <1>1, <1>8, Zenon DEF SumOf
<1>10. /\ a * c - (-b) * (-d) = a * c - b * d /\ a * (-d) + (-b) * c = -(a * d + b * c)
       /\ -(b + d) = -b + -d /\ -(-b) = b
  BY <1>1, SMT
<1>11. /\ ConjOf(ProductOf(x, y)) = ProductOf(ConjOf(x), ConjOf(y))
       /\ ConjOf(SumOf(x, y)) = SumOf(ConjOf(x), ConjOf(y))
       /\ ConjOf(ConjOf(x)) = x
  BY <1>1, <1>10, Zenon DEF ConjOf, ProductOf, SumOf
<1>. QED  BY <1>3, <1>5, <1>7, <1>9, <1>11

LEMMA TimesAssociative ==
    ASSUME NEW x \in Complex, NEW y \in Complex, NEW z \in Complex
    PROVE  Times(x, Times(y, z)) = Times(Times(x, y), z)
<1>1. x \in IntPairs /\ y \in IntPairs /\ z \in IntPairs
  BY PairType
<1>2. /\ Times(y, z) = Mod(ProductOf(y, z)) /\ ProductOf(y, z) \in IntPairs
      /\ Times(x, y) = Mod(ProductOf(x, y)) /\ ProductOf(x, y) \in IntPairs
  BY <1>1, ProductPair
<1>3. /\ Times(x, Times(y, z)) = Mod(ProductOf(x, ProductOf(y, z)))
      /\ Times(Times(x, y), z) = Mod(ProductOf(ProductOf(x, y), z))
  BY <1>1, <1>2, TimesMod, ProductPair
<1>. QED  BY <1>1, <1>3, IntegerPairs

LEMMA TimesCommutes ==
    ASSUME NEW x \in Complex, NEW y \in Complex
    PROVE  Times(x, y) = Times(y, x)
<1>1. x \in IntPairs /\ y \in IntPairs
  BY PairType
<1>. QED  BY <1>1, ProductPair, IntegerPairs

LEMMA Distributes ==
    ASSUME NEW x \in Complex, NEW y \in Complex, NEW z \in Complex
    PROVE  Times(x, SumMod(y, z)) = SumMod(Times(x, y), Times(x, z))
<1>1. x \in IntPairs /\ y \in IntPairs /\ z \in IntPairs
  BY PairType
<1> DEFINE s == SumOf(y, z)
           p == ProductOf(x, y)
           q == ProductOf(x, z)
<1>2. s \in IntPairs /\ p \in IntPairs /\ q \in IntPairs
  BY <1>1, ProductPair
<1>3. SumMod(y, z) = Mod(s) /\ Times(x, y) = Mod(p) /\ Times(x, z) = Mod(q)
  BY <1>1, ProductPair
<1>4. Times(x, Mod(s)) = Times(x, s) /\ Times(x, s) = Mod(ProductOf(x, s))
  BY <1>1, <1>2, TimesMod, ProductPair
<1>5. SumMod(Mod(p), Mod(q)) = SumMod(p, q) /\ SumMod(p, q) = Mod(SumOf(p, q))
  <2>1. Mod(p) \in IntPairs /\ SumMod(p, q) = Mod(SumOf(p, q))
    BY <1>2, PairType, ProductPair
  <2>. QED  BY <1>2, <2>1, SumModulo
<1>6. ProductOf(x, s) = SumOf(p, q)
  BY <1>1, IntegerPairs
<1>. QED  BY <1>3, <1>4, <1>5, <1>6

LEMMA SumAssociative ==
    ASSUME NEW x \in Complex, NEW y \in Complex, NEW z \in Complex
    PROVE  SumMod(x, SumMod(y, z)) = SumMod(SumMod(x, y), z)
<1>1. x \in IntPairs /\ y \in IntPairs /\ z \in IntPairs
  BY PairType
<1>2. /\ SumMod(y, z) = Mod(SumOf(y, z)) /\ SumOf(y, z) \in IntPairs
      /\ SumMod(x, y) = Mod(SumOf(x, y)) /\ SumOf(x, y) \in IntPairs
  BY <1>1, ProductPair
<1>3. /\ SumMod(x, SumMod(y, z)) = Mod(SumOf(x, SumOf(y, z)))
      /\ SumMod(SumMod(x, y), z) = Mod(SumOf(SumOf(x, y), z))
  BY <1>1, <1>2, SumModulo, ProductPair
<1>. QED  BY <1>1, <1>3, IntegerPairs

LEMMA SumCommutes ==
    ASSUME NEW x \in Complex, NEW y \in Complex
    PROVE  SumMod(x, y) = SumMod(y, x)
<1>1. x \in IntPairs /\ y \in IntPairs
  BY PairType
<1>. QED  BY <1>1, ProductPair, IntegerPairs

LEMMA Units ==
    ASSUME NEW z \in Complex
    PROVE  /\ Times(Unit, z) = z
           /\ SumMod(z, ComplexZero) = z
           /\ SumMod(z, Opposite(z)) = ComplexZero
           /\ Opposite(Opposite(z)) = z
           /\ Times(ComplexZero, z) = ComplexZero
<1>1. /\ z \in IntPairs /\ Mod(z) = z /\ ComplexZero \in IntPairs /\ Unit \in IntPairs
      /\ z[1] \in Int /\ z[2] \in Int /\ z[1] % P = z[1] /\ z[2] % P = z[2]
      /\ z = <<z[1], z[2]>>
  <2>1. z[1] % P = z[1] /\ z[2] % P = z[2]
    BY PairType, ModId
  <2>. QED  BY <2>1, PairType DEF Complex
<1> DEFINE a == z[1]
           b == z[2]
<1>2. a \in Int /\ b \in Int /\ z = <<a, b>>
  BY <1>1
<1> HIDE DEF a, b
<1>3. /\ 1 * a - 0 * b = a /\ 1 * b + 0 * a = b /\ a + 0 = a /\ b + 0 = b
      /\ 0 * a - 0 * b = 0 /\ 0 * b + 0 * a = 0
  BY <1>2, SMT
<1>4. ProductOf(Unit, z) = z /\ SumOf(z, ComplexZero) = z /\ ProductOf(ComplexZero, z) = ComplexZero
  BY <1>2, <1>3, Zenon DEF ProductOf, SumOf, Unit, ComplexZero
<1>5. Mod(ComplexZero) = ComplexZero
  BY PairType
<1>6. Times(Unit, z) = z /\ SumMod(z, ComplexZero) = z /\ Times(ComplexZero, z) = ComplexZero
  BY <1>1, <1>4, <1>5, ProductPair
<1> DEFINE m == <<P - 1, 0>>
           n == <<(P - 1) * a, (P - 1) * b>>
<1>7. m \in IntPairs /\ n \in IntPairs /\ P \in Int
  BY <1>2, PType DEF IntPairs
<1>8. (P - 1) * a - 0 * b = (P - 1) * a /\ (P - 1) * b + 0 * a = (P - 1) * b
  BY <1>2, PType, SMT
<1>9. ProductOf(m, z) = n
  BY <1>2, <1>8, Zenon DEF ProductOf
<1>10. Opposite(z) = Mod(n)
  BY <1>1, <1>7, <1>9, ProductPair DEF Opposite
<1>11. SumMod(z, Opposite(z)) = ComplexZero
  <2>1. SumMod(z, Mod(n)) = Mod(SumOf(z, n))
    BY <1>1, <1>7, SumModulo, ProductPair
  <2>2. /\ a + (P - 1) * a = 0 + P * a /\ b + (P - 1) * b = 0 + P * b
        /\ a + (P - 1) * a \in Int /\ b + (P - 1) * b \in Int
    BY <1>2, PType, SMT
  <2>3. Congruent(a + (P - 1) * a, 0) /\ Congruent(b + (P - 1) * b, 0)
    BY <1>2, <2>2, Zenon DEF Congruent
  <2>4. 0 % P = 0
    BY PType, ModId DEF Numbers
  <2>5. (a + (P - 1) * a) % P = 0 /\ (b + (P - 1) * b) % P = 0
    <3>1. 0 \in Int
      OBVIOUS
    <3>. QED  BY <2>2, <2>3, <2>4, <3>1, Congruence, Zenon
  <2>6. Mod(SumOf(z, n)) = ComplexZero
    BY <1>2, <2>5, Zenon DEF SumOf, Mod, ComplexZero
  <2>. QED  BY <1>10, <2>1, <2>6
<1>12. Opposite(Opposite(z)) = z
  <2> DEFINE w == <<(P - 1) * ((P - 1) * a), (P - 1) * ((P - 1) * b)>>
  <2>1. /\ (P - 1) * ((P - 1) * a) - 0 * ((P - 1) * b) = (P - 1) * ((P - 1) * a)
        /\ (P - 1) * ((P - 1) * b) + 0 * ((P - 1) * a) = (P - 1) * ((P - 1) * b)
    BY <1>2, PType, SMT
  <2>2. ProductOf(m, n) = w
    BY <2>1, Zenon DEF ProductOf
  <2>3. Opposite(Opposite(z)) = Mod(w)
    <3>1. Times(m, Mod(n)) = Times(m, n) /\ Times(m, n) = Mod(ProductOf(m, n))
      BY <1>7, TimesMod, ProductPair
    <3>. QED  BY <1>10, <2>2, <3>1 DEF Opposite
  <2> DEFINE k == (P - 2) * a
             l == (P - 2) * b
  <2>4. /\ (P - 1) * ((P - 1) * a) = a + P * k /\ (P - 1) * ((P - 1) * b) = b + P * l
        /\ (P - 1) * ((P - 1) * a) \in Int /\ (P - 1) * ((P - 1) * b) \in Int
        /\ k \in Int /\ l \in Int
    BY <1>2, PType, SMT
  <2> HIDE DEF k, l
  <2>5. Congruent((P - 1) * ((P - 1) * a), a) /\ Congruent((P - 1) * ((P - 1) * b), b)
    BY <2>4, Zenon DEF Congruent
  <2>6. ((P - 1) * ((P - 1) * a)) % P = a % P /\ ((P - 1) * ((P - 1) * b)) % P = b % P
    BY <1>2, <2>4, <2>5, Congruence, Zenon
  <2>7. Mod(w) = Mod(z)
    BY <1>2, <2>6, Zenon DEF Mod
  <2>. QED  BY <1>1, <2>3, <2>7
<1>. QED  BY <1>6, <1>11, <1>12

LEMMA Conjugation ==
    ASSUME NEW x \in Complex, NEW y \in Complex
    PROVE  /\ Conj(Times(x, y)) = Times(Conj(x), Conj(y))
           /\ Conj(SumMod(x, y)) = SumMod(Conj(x), Conj(y))
           /\ Conj(Conj(x)) = x
<1>1. \A z \in Complex : z \in IntPairs /\ Mod(z) = z
  BY PairType
<1>2. ConjOf(x) \in IntPairs /\ ConjOf(y) \in IntPairs
  BY <1>1, ProductPair
<1>3. Conj(x) = Mod(ConjOf(x)) /\ Conj(y) = Mod(ConjOf(y))
  BY <1>1, ConjMod
<1>4. Conj(Times(x, y)) = Times(Conj(x), Conj(y))
  <2>1. Times(x, y) = Mod(ProductOf(x, y)) /\ ProductOf(x, y) \in IntPairs
    BY <1>1, ProductPair
  <2>2. Conj(Times(x, y)) = Mod(ConjOf(ProductOf(x, y)))
    BY <2>1, ConjMod
  <2>3. Mod(ConjOf(x)) \in IntPairs
    BY <1>2, PairType
  <2>4. Times(Mod(ConjOf(x)), Mod(ConjOf(y))) = Times(ConjOf(x), ConjOf(y))
    BY <1>2, <2>3, TimesMod
  <2>5. Times(ConjOf(x), ConjOf(y)) = Mod(ProductOf(ConjOf(x), ConjOf(y)))
    BY <1>2, ProductPair
  <2>. QED  BY <1>1, <1>3, <2>2, <2>4, <2>5, IntegerPairs
<1>5. Conj(SumMod(x, y)) = SumMod(Conj(x), Conj(y))
  <2>1. SumMod(x, y) = Mod(SumOf(x, y)) /\ SumOf(x, y) \in IntPairs
    BY <1>1, ProductPair
  <2>2. Conj(SumMod(x, y)) = Mod(ConjOf(SumOf(x, y)))
    BY <2>1, ConjMod
  <2>3. Mod(ConjOf(x)) \in IntPairs
    BY <1>2, PairType
  <2>4. SumMod(Mod(ConjOf(x)), Mod(ConjOf(y))) = SumMod(ConjOf(x), ConjOf(y))
    BY <1>2, <2>3, SumModulo
  <2>5. SumMod(ConjOf(x), ConjOf(y)) = Mod(SumOf(ConjOf(x), ConjOf(y)))
    BY <1>2, ProductPair
  <2>. QED  BY <1>1, <1>3, <2>2, <2>4, <2>5, IntegerPairs
<1>6. Conj(Conj(x)) = x
  <2>1. Conj(Mod(ConjOf(x))) = Mod(ConjOf(ConjOf(x)))
    BY <1>2, ConjMod
  <2>. QED  BY <1>1, <1>3, <2>1, IntegerPairs
<1>. QED  BY <1>4, <1>5, <1>6

\* Signs can be moved.
LEMMA Signs ==
    ASSUME NEW x \in Complex, NEW y \in Complex
    PROVE  /\ Times(x, Opposite(y)) = Opposite(Times(x, y))
           /\ SumMod(Opposite(x), Opposite(y)) = Opposite(SumMod(x, y))
           /\ Conj(Opposite(x)) = Opposite(Conj(x))
<1> DEFINE m == <<P - 1, 0>>
<1>1. m \in Complex
  BY PairType
<1> HIDE DEF m
<1>2. \A z : Opposite(z) = Times(m, z)
  BY DEF Opposite, m
<1>3. Times(x, Times(m, y)) = Times(m, Times(x, y))
  BY <1>1, TimesAssociative, TimesCommutes
<1>4. SumMod(Times(m, x), Times(m, y)) = Times(m, SumMod(x, y))
  BY <1>1, Distributes
<1>5. Conj(m) = m
  <2>1. (-0) % P = 0
    BY PType, ModId DEF Numbers
  <2>. QED  BY <2>1 DEF Conj, m
<1>6. Conj(Times(m, x)) = Times(m, Conj(x))
  BY <1>1, <1>5, Conjugation
<1>. QED  BY <1>2, <1>3, <1>4, <1>6

------------------------------------------------------------------------------
(* Congruences *)

Nonzero == Numbers \ {0}

LEMMA CongruentIs ==
    ASSUME NEW a \in Int, NEW c \in Int
    PROVE  Congruent(a, c) <=> a % P = c % P
<1>1. ASSUME Congruent(a, c) PROVE a % P = c % P
  BY <1>1, Congruence
<1>2. ASSUME a % P = c % P PROVE Congruent(a, c)
  <2> DEFINE m == a % P
  <2>1. m \in Int /\ Congruent(a, m) /\ Congruent(c, m)
    BY <1>2, ModType
  <2> HIDE DEF m
  <2>2. PICK j \in Int : a = m + P * j
    BY <2>1 DEF Congruent
  <2>3. PICK k \in Int : c = m + P * k
    BY <2>1 DEF Congruent
  <2>4. j - k \in Int /\ a = c + P * (j - k)
    BY <2>1, <2>2, <2>3, PType
  <2>. QED  BY <2>4 DEF Congruent
<1>. QED  BY <1>1, <1>2

\* Congruence is respected by sums, differences and products.
LEMMA CongruentOps ==
    ASSUME NEW a \in Int, NEW c \in Int, NEW d \in Int, NEW e \in Int,
           Congruent(a, c), Congruent(d, e)
    PROVE  /\ Congruent(a + d, c + e) /\ Congruent(a - d, c - e) /\ Congruent(-a, -c)
           /\ Congruent(a * d, c * e) /\ Congruent(c, a)
<1>1. PICK j \in Int : a = c + P * j
  BY DEF Congruent
<1>2. PICK k \in Int : d = e + P * k
  BY DEF Congruent
<1>3. /\ j + k \in Int /\ j - k \in Int /\ -j \in Int
      /\ a + d = (c + e) + P * (j + k) /\ a - d = (c - e) + P * (j - k)
      /\ -a = (-c) + P * (-j) /\ c = a + P * (-j)
  BY <1>1, <1>2, PType
<1> DEFINE m == j * e + c * k + P * (j * k)
<1>4. m \in Int /\ a * d = c * e + P * m
  <2>1. m \in Int
    BY PType
  <2>2. (c + P * j) * (e + P * k) = c * e + P * m
    BY PType
  <2>. QED  BY <1>1, <1>2, <2>1, <2>2
<1> HIDE DEF m
<1>. QED  BY <1>3, <1>4 DEF Congruent

LEMMA CongruentChain ==
    ASSUME NEW a \in Int, NEW c \in Int, NEW d \in Int, Congruent(a, c), Congruent(c, d)
    PROVE  Congruent(a, d)
BY CongruentIs

LEMMA CongruentSelf ==
    ASSUME NEW a \in Int
    PROVE  Congruent(a, a)
BY CongruentIs

LEMMA CongruentTimes ==
    ASSUME NEW a \in Int, NEW c \in Int, NEW d \in Int, Congruent(a, c)
    PROVE  Congruent(d * a, d * c) /\ Congruent(a * d, c * d)
BY CongruentSelf, CongruentOps, Zenon

\* What the kernels compute of each component.
MulAdd(a, x, y) == (a * x + y) % P

LEMMA MulAddMod ==
    ASSUME NEW a \in Int, NEW x \in Int, NEW y \in Int
    PROVE  /\ MulAdd(a, x, y) \in Numbers /\ a * x + y \in Int
           /\ MulAdd(a % P, x, y) = MulAdd(a, x, y)
           /\ MulAdd(a, x % P, y) = MulAdd(a, x, y)
           /\ MulAdd(a, x, y % P) = MulAdd(a, x, y)
<1> DEFINE m == a % P
           n == x % P
           k == y % P
<1>1. /\ m \in Int /\ Congruent(m, a) /\ n \in Int /\ Congruent(n, x)
      /\ k \in Int /\ Congruent(k, y) /\ a * x + y \in Int
  BY ModType, CongruentIs, ModId
<1> HIDE DEF m, n, k
<1>2. Congruent(a, a) /\ Congruent(x, x) /\ Congruent(y, y)
  BY CongruentSelf
<1>3. Congruent(m * x, a * x) /\ Congruent(a * n, a * x) /\ Congruent(a * x, a * x)
  BY <1>1, <1>2, CongruentOps, Zenon
<1>4. a * x \in Int /\ m * x \in Int /\ a * n \in Int
  BY <1>1
<1>5. /\ Congruent(m * x + y, a * x + y) /\ Congruent(a * n + y, a * x + y)
      /\ Congruent(a * x + k, a * x + y)
  BY <1>1, <1>2, <1>3, <1>4, CongruentOps, Zenon
<1>6. m * x + y \in Int /\ a * n + y \in Int /\ a * x + k \in Int
  BY <1>1, <1>4
<1>7. /\ (m * x + y) % P = (a * x + y) % P /\ (a * n + y) % P = (a * x + y) % P
      /\ (a * x + k) % P = (a * x + y) % P
  BY <1>1, <1>5, <1>6, Congruence, Zenon
<1>8. (a * x + y) % P \in Numbers
  BY <1>1, ModType
<1>. QED  BY <1>1, <1>7, <1>8, Zenon DEF MulAdd, m, n, k

\* A factor that is not zero can be cancelled.
LEMMA Cancel ==
    ASSUME NEW d \in Nonzero, NEW a \in Int, NEW c \in Int, Congruent(d * a, d * c)
    PROVE  Congruent(a, c)
<1> DEFINE e == Reciprocal[d]
<1>1. e \in Numbers /\ (d * e) % P = 1
  BY HasReciprocal DEF Nonzero
<1>2. e \in Int /\ d \in Int
  BY <1>1, ModId DEF Nonzero
<1> HIDE DEF e
<1>3. 1 \in Int /\ 1 % P = 1 /\ d * e \in Int /\ d * a \in Int /\ d * c \in Int
  BY <1>2, PType, ModId DEF Numbers
<1>4. Congruent(d * e, 1)
  BY <1>1, <1>3, CongruentIs
<1>5. /\ Congruent((d * e) * a, 1 * a) /\ Congruent((d * e) * c, 1 * c)
      /\ Congruent(e * (d * a), e * (d * c))
  BY <1>2, <1>3, <1>4, CongruentOps, CongruentSelf, Zenon
<1>6. /\ (d * e) * a = e * (d * a) /\ (d * e) * c = e * (d * c) /\ 1 * a = a /\ 1 * c = c
      /\ e * (d * a) \in Int /\ e * (d * c) \in Int
  BY <1>2
<1>7. Congruent(e * (d * a), a) /\ Congruent(e * (d * c), c) /\ Congruent(e * (d * a), e * (d * c))
  BY <1>5, <1>6
<1>. QED  BY <1>6, <1>7, CongruentIs

LEMMA ProductNonzero ==
    ASSUME NEW a \in Nonzero, NEW c \in Nonzero
    PROVE  (a * c) % P \in Nonzero
<1>1. a \in Int /\ c \in Int /\ a * c \in Int /\ a % P = a /\ c % P = c /\ 0 \in Int
  BY ModId DEF Nonzero
<1>2. ASSUME (a * c) % P = 0 PROVE FALSE
  <2>1. 0 % P = 0 /\ a * 0 = 0
    BY <1>1, PType, ModId DEF Numbers
  <2>2. Congruent(a * c, a * 0)
    BY <1>1, <1>2, <2>1, CongruentIs
  <2>3. c % P = 0
    BY <1>1, <2>1, <2>2, Cancel, CongruentIs
  <2>. QED  BY <1>1, <2>3 DEF Nonzero
<1>. QED  BY <1>1, <1>2, ModType DEF Nonzero

Null(a) == Congruent(a, 0)

LEMMA NullSum ==
    ASSUME NEW a \in Int, NEW c \in Int, NEW u \in Int, NEW w \in Int, Null(a), Null(c)
    PROVE  Null(u * a + w * c)
<1>1. 0 \in Int /\ u * a \in Int /\ w * c \in Int /\ u * 0 = 0 /\ w * 0 = 0 /\ 0 + 0 = 0
  OBVIOUS
<1>2. Congruent(u * a, 0) /\ Congruent(w * c, 0)
  BY <1>1, CongruentTimes DEF Null
<1>. QED  BY <1>1, <1>2, CongruentOps DEF Null

LEMMA NullPlus ==
    ASSUME NEW a \in Int, NEW c \in Int, Null(a), Null(c)
    PROVE  Null(a + c) /\ Null(a - c) /\ Null(-a) /\ Null(c + a)
<1>1. 0 \in Int /\ 0 + 0 = 0 /\ 0 - 0 = 0 /\ -a = 0 - a
  OBVIOUS
<1>2. Congruent(0 - a, 0 - 0) /\ Congruent(a + c, 0 + 0) /\ Congruent(a - c, 0 - 0)
      /\ Congruent(c + a, 0 + 0)
  BY <1>1, CongruentOps, CongruentSelf DEF Null
<1>. QED  BY <1>1, <1>2 DEF Null

LEMMA NullTimes ==
    ASSUME NEW a \in Int, NEW u \in Int, Null(a)
    PROVE  Null(u * a) /\ Null(a * u)
<1>1. 0 \in Int /\ u * 0 = 0 /\ 0 * u = 0
  OBVIOUS
<1>. QED  BY <1>1, CongruentTimes DEF Null

LEMMA NullNumber ==
    ASSUME NEW a \in Numbers
    PROVE  a \in Int /\ (Null(a) <=> a = 0)
<1>1. a \in Int /\ 0 \in Int /\ 0 % P = 0 /\ a % P = a
  BY PType, ModId DEF Numbers
<1>. QED  BY <1>1, CongruentIs DEF Null

\* There are no divisors of zero.
LEMMA NullFactor ==
    ASSUME NEW a \in Int, NEW c \in Int, Null(a * c), ~Null(a)
    PROVE  Null(c)
<1> DEFINE m == a % P
<1>1. m \in Numbers /\ m \in Int /\ Congruent(a, m)
  BY ModType
<1>2. m # 0
  BY <1>1 DEF Null
<1> HIDE DEF m
<1>3. a * c \in Int /\ m * c \in Int /\ 0 \in Int /\ m * 0 = 0
  BY <1>1
<1>4. Congruent(a * c, m * c)
  BY <1>1, CongruentTimes
<1>5. Congruent(m * c, a * c)
  BY <1>3, <1>4, CongruentOps
<1>6. Congruent(m * c, m * 0)
  BY <1>3, <1>5, CongruentChain DEF Null
<1>. QED  BY <1>1, <1>2, <1>3, <1>6, Cancel DEF Nonzero, Null

LEMMA NullOf ==
    ASSUME NEW a \in Int, NEW c \in Int, Congruent(a, c)
    PROVE  Null(a) <=> Null(c)
<1>1. Congruent(c, a) /\ 0 \in Int
  BY CongruentOps
<1>. QED  BY <1>1, CongruentChain DEF Null

LEMMA DifferenceNull ==
    ASSUME NEW a \in Int, NEW c \in Int, Congruent(a, c)
    PROVE  Null(a - c) /\ Null(c - a) /\ a - c \in Int /\ c - a \in Int
<1>1. c - c = 0 /\ a - c \in Int /\ c - a \in Int
  OBVIOUS
<1>2. Congruent(a - c, c - c) /\ Congruent(c - a, c - c)
  BY CongruentOps, CongruentSelf
<1>. QED  BY <1>1, <1>2 DEF Null

LEMMA NullDifference ==
    ASSUME NEW a \in Int, NEW c \in Int, Null(a - c)
    PROVE  Congruent(a, c)
<1>1. a - c \in Int /\ (a - c) + c = a /\ 0 + c = c /\ 0 \in Int
  OBVIOUS
<1>2. Congruent((a - c) + c, 0 + c)
  BY <1>1, CongruentOps, CongruentSelf DEF Null
<1>. QED  BY <1>1, <1>2
------------------------------------------------------------------------------
(* Division modulo P *)

LEMMA ReciprocalIs ==
    ASSUME NEW x \in Nonzero
    PROVE  /\ Reciprocal[x] \in Nonzero /\ Reciprocal[x] \in Int /\ x \in Int
           /\ Congruent(x * Reciprocal[x], 1)
<1> DEFINE r == Reciprocal[x]
<1>1. r \in Numbers /\ (x * r) % P = 1 /\ x \in Int /\ r \in Int
  BY HasReciprocal, ModId DEF Nonzero
<1> HIDE DEF r
<1>2. x * r \in Int /\ 1 \in Int /\ (x * r) % P = 1 % P
  <2>1. 1 \in Numbers
    BY PType DEF Numbers
  <2>. QED  BY <1>1, <2>1, ModId
<1>3. Congruent(x * r, 1)
  BY <1>2, CongruentIs
<1>4. r # 0
  <2> SUFFICES ASSUME r = 0 PROVE FALSE
    OBVIOUS
  <2>1. x * r = 0
    BY <1>1
  <2>2. 0 % P = 0
    BY PType, ModId DEF Numbers
  <2>. QED  BY <1>1, <2>1, <2>2
<1>. QED  BY <1>1, <1>3, <1>4 DEF Nonzero, r

LEMMA ReciprocalUnique ==
    ASSUME NEW a \in Nonzero, NEW c \in Numbers, Congruent(a * c, 1)
    PROVE  c = Reciprocal[a]
<1> DEFINE r == Reciprocal[a]
<1>1. r \in Int /\ r \in Numbers /\ a \in Int /\ c \in Int /\ Congruent(a * r, 1)
  BY ReciprocalIs, ModId DEF Nonzero
<1> HIDE DEF r
<1>2. Congruent(1, a * r) /\ a * r \in Int /\ a * c \in Int /\ 1 \in Int
  <2>1. a * r \in Int /\ a * c \in Int /\ 1 \in Int
    BY <1>1
  <2>2. (a * r) % P = 1 % P
    BY <1>1, <2>1, CongruentIs
  <2>. QED  BY <2>1, <2>2, CongruentIs
<1>3. Congruent(a * c, a * r)
  BY <1>2, CongruentChain
<1>4. Congruent(c, r)
  BY <1>1, <1>3, Cancel
<1>5. c % P = r % P
  BY <1>1, <1>4, CongruentIs
<1>. QED  BY <1>1, <1>5, ModId DEF r

\* Products of quotients modulo P.
LEMMA FourFactors ==
    ASSUME NEW a \in Int, NEW c \in Int, NEW d \in Int, NEW e \in Int, NEW v \in Int, NEW w \in Int,
           Congruent(a * d, v), Congruent(c * e, w)
    PROVE  Congruent((a * c) * (d * e), v * w)
<1>1. Congruent((a * d) * (c * e), v * w)
  <2> DEFINE x == a * d
             y == c * e
  <2>1. x \in Int /\ y \in Int /\ Congruent(x, v) /\ Congruent(y, w)
    OBVIOUS
  <2> HIDE DEF x, y
  <2>2. Congruent(x * y, v * w)
    BY <2>1, CongruentOps
  <2>. QED  BY <2>2 DEF x, y
<1>2. (a * d) * (c * e) = (a * c) * (d * e)
  OBVIOUS
<1>. QED  BY <1>1, <1>2

LEMMA ModProduct ==
    ASSUME NEW a \in Int, NEW c \in Int
    PROVE  /\ ((a % P) * (c % P)) % P = (a * c) % P
           /\ Congruent((a % P) * (c % P), a * c) /\ (a % P) * (c % P) \in Int /\ a * c \in Int
<1>1. a % P \in Int /\ c % P \in Int /\ a * c \in Int
  BY ModType
<1>2. ((a % P) * (c % P)) % P = (a * (c % P)) % P /\ (a * (c % P)) % P = (a * c) % P
  BY <1>1, ModTimes
<1>3. (a % P) * (c % P) \in Int
  BY <1>1
<1>. QED  BY <1>1, <1>2, <1>3, CongruentIs

LEMMA ReciprocalTimes ==
    ASSUME NEW a \in Nonzero, NEW c \in Nonzero
    PROVE  Reciprocal[(a * c) % P] = (Reciprocal[a] * Reciprocal[c]) % P
<1> DEFINE r == Reciprocal[a]
           s == Reciprocal[c]
           m == (a * c) % P
           q == (r * s) % P
<1>1. /\ r \in Int /\ s \in Int /\ a \in Int /\ c \in Int
      /\ Congruent(a * r, 1) /\ Congruent(c * s, 1)
  BY ReciprocalIs
<1>0. m \in Nonzero /\ m = (a * c) % P /\ q = (r * s) % P
  BY ProductNonzero
<1> HIDE DEF r, s, m, q
<1>2. Congruent((a * c) * (r * s), 1)
  <2> DEFINE o == 1
  <2>1. o \in Int /\ Congruent(a * r, o) /\ Congruent(c * s, o) /\ o * o = 1
    BY <1>1
  <2> HIDE DEF o
  <2>2. Congruent((a * c) * (r * s), o * o)
    BY <1>1, <2>1, FourFactors
  <2>. QED  BY <2>1, <2>2
<1>3. a * c \in Int /\ r * s \in Int
  BY <1>1
<1>4. q \in Numbers /\ m \in Int /\ q \in Int
  BY <1>0, <1>3, ModType
<1>5. Congruent(m * q, (a * c) * (r * s)) /\ m * q \in Int /\ (a * c) * (r * s) \in Int
  <2> DEFINE x == a * c
             y == r * s
  <2>1. x \in Int /\ y \in Int /\ m = x % P /\ q = y % P
    BY <1>0, <1>3
  <2> HIDE DEF x, y
  <2>2. Congruent(m * q, x * y) /\ m * q \in Int /\ x * y \in Int
    BY <2>1, ModProduct
  <2>. QED  BY <2>2 DEF x, y
<1>6. Congruent(m * q, 1)
  BY <1>2, <1>5, CongruentChain
<1>. QED  BY <1>0, <1>4, <1>6, ReciprocalUnique DEF r, s, m, q

LEMMA Remainder ==
    ASSUME NEW a \in Int
    PROVE  Congruent(a % P, a) /\ Congruent(a, a % P) /\ a % P \in Int
<1>1. a % P \in Int /\ Congruent(a, a % P)
  BY ModType
<1>. QED  BY <1>1, CongruentOps

LEMMA NullIs ==
    ASSUME NEW a \in Int, Null(a)
    PROVE  a % P = 0
<1> DEFINE o == 0
<1>1. o \in Int /\ o % P = 0 /\ Congruent(a, o)
  <2>1. 0 \in Numbers
    BY PType DEF Numbers
  <2>. QED  BY <2>1, ModId DEF Null
<1> HIDE DEF o
<1>2. a % P = o % P
  BY <1>1, Congruence
<1>. QED  BY <1>1, <1>2

------------------------------------------------------------------------------
(* Division of complex numbers *)

Real(x) == <<x, 0>>

LEMMA RealIs ==
    ASSUME NEW x \in Numbers
    PROVE  /\ Real(x) \in Complex /\ Conj(Real(x)) = Real(x) /\ Re(Real(x)) = x
           /\ \A z \in Complex : Scale(x, z) = Times(Real(x), z) /\ Scale(x, z) \in Complex
           /\ \A y \in Numbers : Times(Real(x), Real(y)) = Real((x * y) % P)
<1>1. P \in Nat /\ P > 0 /\ 0 \in Numbers /\ x \in Int /\ 0 % P = 0
  <2>1. 0 \in Numbers
    BY PType DEF Numbers
  <2>. QED  BY <2>1, PType, ModId DEF Numbers
<1>2. Real(x) \in Complex
  BY <1>1 DEF Real, Complex
<1>3. Conj(Real(x)) = Real(x) /\ Re(Real(x)) = x
  <2> DEFINE y == Real(x)[2]
  <2>1. y = 0 /\ Conj(Real(x)) = <<x, (-y) % P>> /\ Re(Real(x)) = x
    BY DEF Real, Conj, Re
  <2> HIDE DEF y
  <2>2. -y = 0
    <3>1. \A i \in Int : i >= 0 /\ i <= 0 => -i = i
      OBVIOUS
    <3>2. y \in Int /\ y >= 0 /\ y <= 0
      BY <2>1
    <3>. QED  BY <2>1, <3>1, <3>2, Zenon
  <2>. QED  BY <1>1, <2>1, <2>2 DEF Real
<1>4. ASSUME NEW z \in Complex PROVE Scale(x, z) = Times(Real(x), z) /\ Scale(x, z) \in Complex
  <2> DEFINE a == z[1]
             c == z[2]
  <2>1. a \in Int /\ c \in Int
    BY PairType
  <2>2. x * a - 0 * c = x * a /\ x * c + 0 * a = x * c /\ x * a \in Int /\ x * c \in Int
    <3> HIDE DEF a, c
    <3>. QED  BY <1>1, <2>1
  <2>3. Scale(x, z) = <<(x * a) % P, (x * c) % P>>
    BY DEF Scale
  <2>4. Times(Real(x), z) = <<(x * a - 0 * c) % P, (x * c + 0 * a) % P>>
    BY DEF Times, Real
  <2> HIDE DEF a, c
  <2>5. (x * a) % P \in Numbers /\ (x * c) % P \in Numbers
    BY <2>2, ModType
  <2>. QED  BY <2>2, <2>3, <2>4, <2>5 DEF Complex
<1>5. ASSUME NEW y \in Numbers PROVE Times(Real(x), Real(y)) = Real((x * y) % P)
  <2>1. y \in Int
    BY ModId
  <2>2. x * y - 0 * 0 = x * y /\ x * 0 + 0 * y = 0
    BY <1>1, <2>1
  <2>3. Times(Real(x), Real(y)) = <<(x * y - 0 * 0) % P, (x * 0 + 0 * y) % P>>
    BY DEF Times, Real
  <2>. QED  BY <1>1, <2>2, <2>3 DEF Real
<1>. QED  BY <1>2, <1>3, <1>4, <1>5

LEMMA NormIs ==
    ASSUME NEW z \in Complex
    PROVE  /\ SquareNorm(z) \in Numbers /\ SquareNorm(z) \in Int
           /\ Times(z, Conj(z)) = Real(SquareNorm(z))
           /\ Conj(z) \in Complex /\ SquareNorm(Conj(z)) = SquareNorm(z)
<1> DEFINE a == z[1]
           c == z[2]
           d == (-c) % P
<1>1. a \in Int /\ c \in Int /\ a * a + c * c \in Int /\ -c \in Int /\ a * a \in Int /\ c * c \in Int
  <2>1. a \in Int /\ c \in Int
    BY PairType
  <2> HIDE DEF a, c
  <2>. QED  BY <2>1
<1>2. SquareNorm(z) = (a * a + c * c) % P /\ Conj(z) = <<a, d>>
  BY DEF SquareNorm, Conj
<1>3. SquareNorm(z) \in Numbers /\ SquareNorm(z) \in Int
  <2> HIDE DEF a, c
  <2>. QED  BY <1>1, <1>2, ModType
<1>4. Conj(z) \in Complex
  BY RingType
<1>5. Times(z, Conj(z)) = <<(a * a - c * d) % P, (a * d + c * a) % P>>
  BY <1>2 DEF Times
<1> HIDE DEF a, c
<1> DEFINE e == -c
<1>6. d \in Int /\ Congruent(d, e) /\ e \in Int
  <2>1. e % P \in Int /\ Congruent(e, e % P)
    BY <1>1, ModType
  <2>. QED  BY <1>1, <2>1, CongruentOps
<1>7. c * e = -(c * c) /\ a * e + c * a = 0 /\ c * e \in Int /\ e * e = c * c
  <2>1. \A i \in Int, j \in Int : j * (-j) = -(j * j) /\ i * (-j) + j * i = 0 /\ (-j) * (-j) = j * j
    OBVIOUS
  <2>. QED  BY <1>1, <2>1
<1> HIDE DEF d, e
<1>8. Congruent(c * d, c * e) /\ Congruent(a * d, a * e) /\ Congruent(d * d, e * e)
  BY <1>1, <1>6, CongruentTimes, CongruentOps
<1>9. c * d \in Int /\ a * d \in Int /\ c * e \in Int /\ a * e \in Int /\ c * a \in Int /\ d * d \in Int /\ e * e \in Int
  BY <1>1, <1>6
<1>10. Congruent(a * a - c * d, a * a - c * e) /\ Congruent(a * d + c * a, a * e + c * a)
  BY <1>1, <1>8, <1>9, CongruentSelf, CongruentOps
<1>11. Congruent(a * a + d * d, a * a + e * e)
  BY <1>1, <1>8, <1>9, CongruentSelf, CongruentOps
<1>12. (a * a - c * d) % P = (a * a + c * c) % P
  <2>1. a * a - c * e = a * a + c * c
    BY <1>1, <1>7
  <2>2. a * a - c * d \in Int
    BY <1>1, <1>9
  <2>. QED  BY <1>1, <1>10, <2>1, <2>2, Congruence
<1>13. (a * d + c * a) % P = 0
  <2>1. a * d + c * a \in Int /\ 0 \in Int
    BY <1>9
  <2>2. 0 % P = 0
    BY ModId, PType DEF Numbers
  <2>3. Congruent(a * d + c * a, 0)
    BY <1>10, <1>7
  <2>. QED  BY <2>1, <2>2, <2>3, Congruence
<1>14. SquareNorm(<<a, d>>) = SquareNorm(z)
  <2>1. SquareNorm(<<a, d>>) = (a * a + d * d) % P
    BY DEF SquareNorm
  <2>2. a * a + d * d \in Int
    BY <1>1, <1>9
  <2>. QED  BY <1>1, <1>2, <1>7, <1>11, <2>1, <2>2, Congruence
<1>. QED  BY <1>2, <1>3, <1>4, <1>5, <1>12, <1>13, <1>14 DEF Real

LEMMA RealsDiffer ==
    ASSUME NEW x, NEW y, Real(x) = Real(y)
    PROVE  x = y
  BY DEF Real

\* Factors change places.
LEMMA FourTimes ==
    ASSUME NEW v \in Complex, NEW x \in Complex, NEW y \in Complex, NEW z \in Complex
    PROVE  /\ Times(Times(v, x), Times(y, z)) = Times(Times(v, y), Times(x, z))
           /\ Times(v, x) \in Complex /\ Times(y, z) \in Complex
           /\ Times(v, y) \in Complex /\ Times(x, z) \in Complex
<1> DEFINE yz == Times(y, z)
           xz == Times(x, z)
<1>1. /\ Times(v, x) \in Complex /\ yz \in Complex /\ xz \in Complex /\ Times(v, y) \in Complex
  BY RingType
<1> HIDE DEF yz, xz
<1>2. Times(Times(v, x), yz) = Times(v, Times(x, yz))
  BY <1>1, TimesAssociative
<1>3. Times(Times(v, y), xz) = Times(v, Times(y, xz))
  BY <1>1, TimesAssociative
<1>4. Times(x, yz) = Times(Times(x, y), z) /\ Times(y, xz) = Times(Times(y, x), z)
  BY TimesAssociative DEF yz, xz
<1>5. Times(x, y) = Times(y, x)
  BY TimesCommutes
<1>. QED  BY <1>1, <1>2, <1>3, <1>4, <1>5 DEF yz, xz

LEMMA NormTimes ==
    ASSUME NEW y \in Complex, NEW z \in Complex
    PROVE  SquareNorm(Times(y, z)) = (SquareNorm(y) * SquareNorm(z)) % P
<1> DEFINE cy == Conj(y)
           cz == Conj(z)
           ny == SquareNorm(y)
           nz == SquareNorm(z)
           t == Times(y, z)
<1>1. cy \in Complex /\ cz \in Complex /\ ny \in Numbers /\ nz \in Numbers /\ t \in Complex
  BY NormIs, RingType
<1>2. Times(y, cy) = Real(ny) /\ Times(z, cz) = Real(nz) /\ Times(t, Conj(t)) = Real(SquareNorm(t))
  BY <1>1, NormIs
<1>3. Conj(t) = Times(cy, cz)
  BY Conjugation
<1> HIDE DEF cy, cz, ny, nz
<1>4. Times(Times(y, z), Times(cy, cz)) = Times(Times(y, cy), Times(z, cz))
  BY <1>1, FourTimes
<1>5. Times(Real(ny), Real(nz)) = Real((ny * nz) % P)
  BY <1>1, RealIs
<1>6. Real(SquareNorm(t)) = Real((ny * nz) % P)
  BY <1>2, <1>3, <1>4, <1>5
<1>. QED  BY <1>6, RealsDiffer DEF ny, nz

LEMMA NormOfReal ==
    ASSUME NEW x \in Numbers
    PROVE  SquareNorm(Real(x)) = (x * x) % P
<1>1. Real(x) \in Complex /\ Conj(Real(x)) = Real(x) /\ Times(Real(x), Real(x)) = Real((x * x) % P)
  BY RealIs
<1>2. Times(Real(x), Conj(Real(x))) = Real(SquareNorm(Real(x)))
  BY <1>1, NormIs
<1>. QED  BY <1>1, <1>2, RealsDiffer

\* -1 is no square: the norm of a number that is not zero is not zero.
LEMMA NormNonzero ==
    ASSUME NEW z \in Complex, z[2] # 0
    PROVE  SquareNorm(z) \in Nonzero
<1> DEFINE a == z[1]
           c == z[2]
<1>1. a \in Int /\ c \in Int /\ c \in Nonzero
  BY PairType DEF Nonzero
<1>2. SquareNorm(z) = (a * a + c * c) % P /\ SquareNorm(z) \in Numbers
  BY NormIs DEF SquareNorm
<1> DEFINE r == Reciprocal[c]
<1>3. r \in Int /\ Congruent(c * r, 1)
  BY <1>1, ReciprocalIs
<1> HIDE DEF a, c, r
<1> DEFINE ar == a * r
           cr == c * r
           s == a * a + c * c
           rr == r * r
<1>4. ar \in Int /\ cr \in Int /\ s \in Int /\ rr \in Int
  BY <1>1, <1>3
<1>5. rr * s = ar * ar + cr * cr
  <2>1. \A i \in Int, j \in Int, k \in Int : (k * k) * (i * i + j * j) = (i * k) * (i * k) + (j * k) * (j * k)
    OBVIOUS
  <2>. QED  BY <1>1, <1>3, <2>1
<1> HIDE DEF ar, cr, s, rr
<1>6. Congruent(cr * cr, 1 * 1)
  <2>1. Congruent(cr, 1) /\ 1 \in Int
    BY <1>3 DEF cr
  <2>. QED  BY <1>4, <2>1, CongruentOps
<1>7. ar * ar \in Int /\ cr * cr \in Int /\ 1 \in Int /\ 1 * 1 = 1
  BY <1>4
<1>8. Congruent(ar * ar + cr * cr, ar * ar + 1)
  <2>1. Congruent(ar * ar, ar * ar)
    BY <1>7, CongruentSelf
  <2>2. Congruent(cr * cr, 1)
    BY <1>6, <1>7
  <2>. QED  BY <1>7, <2>1, <2>2, CongruentOps
<1>9. ~Null(ar * ar + 1)
  <2>1. (1 + ar * ar) % P \in Numbers \ {0}
    BY <1>4, NotZero
  <2>2. 1 + ar * ar = ar * ar + 1 /\ ar * ar + 1 \in Int /\ 0 \in Int
    BY <1>7
  <2>3. 0 % P = 0
    BY ModId, PType DEF Numbers
  <2>. QED  BY <2>1, <2>2, <2>3, CongruentIs DEF Null
<1>10. ~Null(rr * s)
  <2>1. ar * ar + cr * cr \in Int /\ ar * ar + 1 \in Int
    BY <1>7
  <2>. QED  BY <1>5, <1>8, <1>9, <2>1, NullOf
<1>11. ~Null(s)
  BY <1>4, <1>10, NullTimes
<1>12. SquareNorm(z) # 0
  <2>1. Congruent(s, 0) <=> s % P = 0 % P
    <3>1. 0 \in Int
      OBVIOUS
    <3>. QED  BY <1>4, <3>1, CongruentIs
  <2>2. 0 % P = 0
    BY ModId, PType DEF Numbers
  <2>. QED  BY <1>2, <1>11, <2>1, <2>2 DEF Null, s, a, c
<1>. QED  BY <1>2, <1>12 DEF Nonzero

LEMMA InverseIs ==
    ASSUME NEW x \in Nonzero
    PROVE  /\ x \in Numbers /\ Reciprocal[x] \in Numbers /\ Reciprocal[x] \in Nonzero
           /\ Times(Real(x), Real(Reciprocal[x])) = Unit
           /\ Times(Real(Reciprocal[x]), Real(x)) = Unit
<1> DEFINE r == Reciprocal[x]
<1>1. x \in Numbers /\ r \in Numbers /\ r \in Nonzero /\ (x * r) % P = 1
  BY HasReciprocal, ReciprocalIs DEF Nonzero
<1> HIDE DEF r
<1>2. x * r = r * x
  <2>1. x \in Int /\ r \in Int
    BY <1>1, ModId
  <2>. QED  BY <2>1
<1>3. Times(Real(x), Real(r)) = Real((x * r) % P) /\ Times(Real(r), Real(x)) = Real((r * x) % P)
  BY <1>1, RealIs
<1>. QED  BY <1>1, <1>2, <1>3 DEF Real, Unit, r

LEMMA OverIs ==
    ASSUME NEW y \in Complex, NEW z \in Complex, SquareNorm(z) \in Nonzero
    PROVE  /\ Over(y, z) \in Complex
           /\ Over(y, z) = Times(Real(Reciprocal[SquareNorm(z)]), Times(y, Conj(z)))
           /\ SquareNorm(Over(y, z)) = (SquareNorm(y) * Reciprocal[SquareNorm(z)]) % P
<1> DEFINE k == SquareNorm(z)
           r == Reciprocal[k]
           t == Times(y, Conj(z))
           ny == SquareNorm(y)
<1>1. k \in Numbers /\ r \in Numbers /\ k \in Nonzero
  BY InverseIs
<1>2. t \in Complex /\ Conj(z) \in Complex /\ ny \in Numbers /\ SquareNorm(Conj(z)) = k
  BY NormIs, RingType
<1>3. Over(y, z) = Scale(r, t)
  BY DEF Over
<1>4. SquareNorm(t) = (ny * k) % P
  BY <1>2, NormTimes
<1>5. Congruent(k * r, 1) /\ r \in Int /\ k \in Int
  BY <1>1, ReciprocalIs
<1> HIDE DEF k, r, t, ny
<1>6. Scale(r, t) = Times(Real(r), t) /\ Scale(r, t) \in Complex /\ Real(r) \in Complex
  BY <1>1, <1>2, RealIs
<1>7. SquareNorm(Times(Real(r), t)) = (((r * r) % P) * ((ny * k) % P)) % P
  BY <1>1, <1>2, <1>4, <1>6, NormTimes, NormOfReal
<1>8. (((r * r) % P) * ((ny * k) % P)) % P = (ny * r) % P
  <2>1. ny \in Int
    BY <1>2, ModId
  <2> DEFINE rr == r * r
             nk == ny * k
             nr == ny * r
             kr == k * r
             o == 1
  <2>2. rr \in Int /\ nk \in Int /\ nr \in Int /\ kr \in Int /\ o \in Int /\ nr * o = nr
    BY <1>5, <2>1
  <2>3. rr * nk = nr * kr
    <3>1. \A i \in Int, j \in Int, l \in Int : (i * i) * (j * l) = (j * i) * (l * i)
      OBVIOUS
    <3>. QED  BY <1>5, <2>1, <3>1
  <2>4. Congruent(kr, o)
    BY <1>5
  <2> HIDE DEF rr, nk, nr, kr, o
  <2>5. ((rr % P) * (nk % P)) % P = (rr * nk) % P
    BY <2>2, ModProduct
  <2>6. Congruent(nr * kr, nr * o)
    BY <2>2, <2>4, CongruentTimes
  <2>7. (nr * kr) % P = (nr * o) % P
    <3>1. nr * kr \in Int /\ nr * o \in Int
      BY <2>2
    <3>. QED  BY <3>1, <2>6, Congruence
  <2>. QED  BY <2>2, <2>3, <2>5, <2>7 DEF rr, nk, nr
<1>. QED  BY <1>3, <1>6, <1>7, <1>8 DEF k, r, t, ny

LEMMA MoveFirst ==
    ASSUME NEW x \in Complex, NEW y \in Complex, NEW z \in Complex
    PROVE  /\ Times(x, Times(y, z)) = Times(y, Times(x, z))
           /\ Times(y, z) \in Complex /\ Times(x, z) \in Complex /\ Times(x, Times(y, z)) \in Complex
<1>1. Times(y, z) \in Complex /\ Times(x, z) \in Complex
  BY RingType
<1>2. Times(x, Times(y, z)) = Times(Times(x, y), z) /\ Times(y, Times(x, z)) = Times(Times(y, x), z)
  BY TimesAssociative
<1>3. Times(x, y) = Times(y, x)
  BY TimesCommutes
<1>4. Times(x, Times(y, z)) \in Complex
  <2> DEFINE w == Times(y, z)
  <2>1. w \in Complex
    BY <1>1
  <2> HIDE DEF w
  <2>2. Times(x, w) \in Complex
    BY <2>1, RingType
  <2>. QED  BY <2>2 DEF w
<1>. QED  BY <1>1, <1>2, <1>3, <1>4
==============================================================================
